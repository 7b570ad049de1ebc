-------------------------- MODULE SemaphoreProofs --------------------------
(***************************************************************************)
(* The safety properties of module Semaphore, for any numbers of tasks,    *)
(* priorities and semaphores, any counts and any timeouts.                 *)
(*                                                                         *)
(* The invariant adds to the scheduler's own (module SchedulerProofs) what *)
(* a task in artos_semaphore_take may rely on: it is in the wait list of   *)
(* its semaphore, or has been unblocked for a reason that is still there   *)
(* when it runs again; and no task outside the call is in a wait list.     *)
(***************************************************************************)
EXTENDS Semaphore, SchedulerProofs

SemTypeOK ==
    /\ pc \in [Threads -> Places]
    /\ sem \in [Semaphores -> [count : 0 .. MaxCount, max : 1 .. MaxCount]]
    /\ tokens \in [Semaphores -> Int]
    /\ taking \in [Slots -> [sem : Semaphores \cup {NULL}, infinite : BOOLEAN]]

TakesInv ==
    \A t \in Slots :
        /\ pc[t] \in TakeLocs =>
              /\ taking[t].sem \in Semaphores
              /\ InCall(kern, t, taking[t].sem, taking[t].infinite)
        /\ pc[t] \notin TakeLocs => kern.event_c[t] \notin Semaphores

(* What holds also when tasks wait for other objects and change each       *)
(* other's priorities meanwhile.                                           *)
SemPart ==
    /\ CoreInv(SwitchLocs)
    /\ kern.cur # NULL
    /\ SemTypeOK
    /\ TakesInv
    /\ TokensConserved
    /\ NobodyWaitsForAvailable

SemIInv == SemPart /\ PreemptInv(SwitchLocs, {0})

(* What every step of the module keeps, and what its calls leave alone. *)
SemKept ==
    /\ SemPart'
    /\ PreemptInv(SwitchLocs, {0}) => PreemptInv(SwitchLocs, {0})'
    /\ KeepsOrder(kern', kern)

SemCallKept ==
    /\ SemKept
    /\ kern'.created = kern.created /\ kern'.priority = kern.priority
    /\ kern'.eff = kern.eff /\ kern'.held = kern.held
    /\ LeavesOthers(LockLocs, Semaphores)

(* The constants. *)
LEMMA SemFacts ==
    /\ Semaphores \subseteq WaitLists
    /\ NULL \notin Semaphores
    /\ MaxCount \in Nat /\ MaxCount > 0
    /\ TakeTimeouts \subseteq Ticks
BY SemaphoreAssumption, KernelFacts

(* The started kernel, with the semaphores initialised. *)
LEMMA SemInitInv == SemInit => SemIInv
<1> SUFFICES ASSUME SemInit PROVE SemIInv
  OBVIOUS
<1>1. PICK prios \in TaskSets : StartedWith(prios)
  BY DEF SemInit, Started
<1>2. prios \in Seq(Priorities) /\ Len(prios) \in 1 .. MaxTasks
  BY TaskSetsAssumption
<1>3. kern = rtos_scheduler_start(TasksCreated(prios))
  BY <1>1 DEF StartedWith
<1>4. /\ KInv(kern) /\ DelayInv(kern, FALSE) /\ Fresh(kern)
      /\ kern.cur \in Slots /\ kern.state_c[kern.cur] = NULL
      /\ \A p \in kern.bitmap : p <= kern.eff[kern.cur]
  BY <1>2, <1>3, StartedState
<1>5. /\ pend = FALSE /\ switching = FALSE /\ systick = "idle"
      /\ pc = [t \in Threads |-> "app"]
      /\ taking = [t \in Slots |-> NotTaking]
      /\ tokens = [s \in Semaphores |-> sem[s].count]
      /\ sem \in [Semaphores -> [count : 0 .. MaxCount, max : 1 .. MaxCount]]
      /\ \A s \in Semaphores : artos_semaphore_init(sem[s])
  BY <1>1 DEF SemInit, StartedWith
<1>6. kern.cur # NULL /\ kern.cur # IDLE
  BY <1>4, KernelFacts
<1>7. CoreInv(SwitchLocs)
  BY <1>4, <1>5, <1>6 DEF CoreInv
<1>8. PreemptInv(SwitchLocs, {0})
  <2>1. \A p \in kern.bitmap : ~(p > kern.eff[kern.cur])
    BY <1>4, PriorityFacts
  <2> QED
    BY <2>1, <1>6 DEF PreemptInv
<1>9. SemTypeOK
  <2>1. \A s \in Semaphores : sem[s].count \in Int
    BY <1>5, SemFacts
  <2>2. NotTaking \in [sem : Semaphores \cup {NULL}, infinite : BOOLEAN]
    BY DEF NotTaking
  <2> QED
    BY <2>1, <2>2, <1>5 DEF SemTypeOK, Places
<1>10. \A t \in Slots : pc[t] = "app" /\ kern.event_c[t] = NULL
  BY <1>4, <1>5 DEF Threads, Fresh
<1>11. TakesInv
  BY <1>10, SemFacts DEF TakesInv, TakeLocs
<1>12. TokensConserved
  <2> SUFFICES ASSUME NEW s \in Semaphores
               PROVE  /\ tokens[s] = sem[s].count + Cardinality(Granted(s))
                      /\ sem[s].count <= sem[s].max
    BY DEF TokensConserved
  <2>1. Granted(s) = {}
    BY <1>10 DEF Granted
  <2>2. Cardinality(Granted(s)) = 0
    BY <2>1, FS_EmptySet
  <2>3. sem[s].count \in Int /\ tokens[s] = sem[s].count
    BY <1>5, SemFacts
  <2>4. sem[s].count <= sem[s].max
    BY <1>5 DEF artos_semaphore_init
  <2> QED
    BY <2>2, <2>3, <2>4
<1>13. NobodyWaitsForAvailable
  <2>1. \A s \in Semaphores : kern.event_l[s] = <<>>
    BY <1>4, <1>10, EmptyWaitList, SemFacts
  <2> QED
    BY <2>1 DEF NobodyWaitsForAvailable
<1> QED
  BY <1>6, <1>7, <1>8, <1>9, <1>11, <1>12, <1>13 DEF SemIInv, SemPart

(* Nobody joins a semaphore's wait list, so that a free list stays free. *)
LEMMA StillNobody ==
    ASSUME SemPart, KInv(kern'),
           \A t \in Slots : kern'.event_c[t] = kern.event_c[t] \/ kern'.event_c[t] \notin Semaphores,
           \A s \in Semaphores : sem'[s].count > 0 =>
               sem[s].count > 0 \/ kern.event_l[s] = <<>>
    PROVE  NobodyWaitsForAvailable'
<1>1. KInv(kern) /\ NobodyWaitsForAvailable
  BY DEF SemPart, CoreInv
<1>2. ASSUME NEW s \in Semaphores, sem'[s].count > 0 PROVE kern'.event_l[s] = <<>>
  <2>1. s \in WaitLists /\ s # NULL
    BY SemFacts, KernelFacts
  <2>2. kern.event_l[s] = <<>>
    BY <1>1, <1>2 DEF NobodyWaitsForAvailable
  <2>3. \A t \in Slots : kern'.event_c[t] # s
    BY <1>1, <2>1, <2>2, EmptyWaitList
  <2> QED
    BY <2>1, <2>3, EmptyWaitList
<1> QED
  BY <1>2 DEF NobodyWaitsForAvailable

(* What exceptions do to the tasks that wait: a task that times out keeps  *)
(* nobody's token.                                                         *)
LEMMA SemWaitStep ==
    ASSUME SemPart, WaitStep, KInv(kern'), pc' = pc, sem' = sem, taking' = taking,
           tokens' = tokens
    PROVE  TakesInv' /\ TokensConserved' /\ NobodyWaitsForAvailable' /\ KeepsOrder(kern', kern)
<1>1. KInv(kern) /\ TakesInv /\ TokensConserved
  BY DEF SemPart, CoreInv
<1>2. CASE SameWaits(kern', kern)
  <2>1. kern'.event_c = kern.event_c /\ kern'.reason = kern.reason
    BY <1>2 DEF SameWaits
  <2>2. TakesInv'
    BY <2>1, <1>1, <1>2, CallKept DEF TakesInv
  <2>3. \A s : Granted(s)' = Granted(s)
    BY <2>1 DEF Granted
  <2>4. TokensConserved'
    BY <2>3, <1>1 DEF TokensConserved
  <2>5. NobodyWaitsForAvailable'
    BY <2>1, StillNobody
  <2> QED
    BY <2>2, <2>4, <2>5, <1>2, SameWaitsKeepsOrder
<1>3. ASSUME NEW u \in Slots, TimedOut(u)
      PROVE  /\ TakesInv' /\ TokensConserved' /\ NobodyWaitsForAvailable'
             /\ KeepsOrder(kern', kern)
  <2>1. /\ Blocked(kern, u) /\ kern.state_c[u] \in DelayLists
        /\ Unblocked(kern', kern, u, "WAIT_TIMED_OUT")
    BY <1>3 DEF TimedOut, Blocked
  <2>2. /\ kern'.event_c = [kern.event_c EXCEPT ![u] = NULL]
        /\ kern'.reason = [kern.reason EXCEPT ![u] = "WAIT_TIMED_OUT"]
    BY <2>1 DEF Unblocked
  <2>3. /\ kern.event_c \in [Slots -> WaitLists \cup {NULL}]
        /\ kern.reason \in [Tasks -> WaitReasons] /\ Slots \subseteq Tasks
    BY <1>1 DEF KInv, KernelType, Tasks
  <2>4. /\ kern'.event_c[u] = NULL /\ kern'.reason[u] = "WAIT_TIMED_OUT"
        /\ \A t \in Slots : t # u => /\ kern'.event_c[t] = kern.event_c[t]
                                     /\ kern'.reason[t] = kern.reason[t]
    BY <2>2, <2>3
  <2>5. \A t \in Slots : \A w, i : InCall(kern, t, w, i) => InCall(kern', t, w, i)
    BY <2>1, <1>1, CallUnblocked
  <2>6. TakesInv'
    BY <2>4, <2>5, <1>1, SemFacts DEF TakesInv
  <2>7. pc[u] \in TakeLocs => kern.event_c[u] # NULL
    BY <2>1, <1>1 DEF TakesInv, InCall
  <2>8. \A s : Granted(s)' = Granted(s)
    BY <2>4, <2>7 DEF Granted, TakeLocs
  <2>9. TokensConserved'
    BY <2>8, <1>1 DEF TokensConserved
  <2>10. NobodyWaitsForAvailable'
    BY <2>4, SemFacts, StillNobody
  <2> QED
    BY <2>1, <2>6, <2>9, <2>10, <1>1, UnblockKeepsOrder
<1> QED
  BY <1>2, <1>3 DEF WaitStep

LEMMA SemExceptionInv ==
    ASSUME SemPart, SysTick \/ PendSVEnter \/ PendSVSwitch, UNCHANGED semVars
    PROVE  SemKept
<1>1. CoreInv(SwitchLocs)
  BY DEF SemPart
<1>2. /\ CoreInv(SwitchLocs)' /\ WaitStep
      /\ pc' = pc /\ kern'.cur # NULL
      /\ PreemptInv(SwitchLocs, {0})'
  BY <1>1, ExceptionStep DEF Exceptions
<1>3. sem' = sem /\ taking' = taking /\ tokens' = tokens
  BY DEF semVars
<1>4. TakesInv' /\ TokensConserved' /\ NobodyWaitsForAvailable' /\ KeepsOrder(kern', kern)
  BY <1>2, <1>3, SemWaitStep DEF CoreInv
<1>5. SemTypeOK'
  BY <1>2, <1>3 DEF SemPart, SemTypeOK
<1> QED
  BY <1>2, <1>4, <1>5 DEF SemPart, SemKept

(* The request for a context switch at the end of a signal or in a take    *)
(* that has blocked.                                                       *)
LEMMA SemSwitchInv ==
    ASSUME SemPart, NEW t \in Slots, Switch(t) \/ TakeSwitch(t), UNCHANGED semVars
    PROVE  SemCallKept
<1>1. PICK loc, next : /\ rtos_port_request_context_switch(t, loc, next)
                       /\ \/ loc = "switch" /\ next = "app"
                          \/ loc = "take_switch" /\ next = "take_woken"
  BY DEF Switch, TakeSwitch
<1>2. CoreInv(SwitchLocs) /\ SemTypeOK /\ TakesInv /\ TokensConserved /\ NobodyWaitsForAvailable
      /\ kern.cur # NULL
  BY DEF SemPart
<1>3. /\ CoreInv(SwitchLocs)' /\ PreemptInv(SwitchLocs, {0})' /\ kern' = kern
      /\ SameWaits(kern', kern)
      /\ pc[t] = loc /\ pc' = [pc EXCEPT ![t] = next]
  BY <1>1, <1>2, RequestCore
<1>4. sem' = sem /\ taking' = taking /\ tokens' = tokens
  BY DEF semVars
<1>5. /\ pc' \in [Threads -> Places]
      /\ \A u \in Slots : pc'[u] \in TakeLocs <=> pc[u] \in TakeLocs
  BY <1>1, <1>2, <1>3 DEF SemTypeOK, Places, TakeLocs, Threads
<1>6. SemTypeOK' /\ TakesInv' /\ NobodyWaitsForAvailable'
  BY <1>2, <1>3, <1>4, <1>5 DEF SemTypeOK, TakesInv, NobodyWaitsForAvailable
<1>7. \A s : Granted(s)' = Granted(s)
  BY <1>3, <1>4, <1>5 DEF Granted, TakeLocs
<1>8. TokensConserved'
  BY <1>2, <1>4, <1>7 DEF TokensConserved
<1>9. SemKept
  BY <1>2, <1>3, <1>6, <1>8, SameWaitsKeepsOrder DEF SemPart, SemKept
<1>10. LeavesOthers(LockLocs, Semaphores)
  <2>1. pc[t] \notin LockLocs /\ next \notin LockLocs
    BY <1>1, <1>3 DEF LockLocs
  <2> QED
    BY <2>1, <1>2, <1>3, OnlyMoves DEF SemTypeOK
<1> QED
  BY <1>3, <1>9, <1>10 DEF SemCallKept

(* A step that takes a token from the count, or stores one for nobody. *)
LEMMA CountStep ==
    ASSUME SemPart, NEW s \in Semaphores, NEW d \in {-1, 1},
           d = -1 => sem[s].count > 0,
           d = 1 => sem[s].count < sem[s].max,
           sem' = [sem EXCEPT ![s].count = @ + d],
           tokens' = [tokens EXCEPT ![s] = @ + d],
           taking' = taking, kern' = kern, pc' \in [Threads -> Places],
           \A t \in Slots : pc'[t] \in TakeLocs <=> pc[t] \in TakeLocs
    PROVE  /\ SemTypeOK' /\ TakesInv' /\ TokensConserved'
           /\ \A x \in Semaphores : sem'[x].count > 0 => sem[x].count > 0 \/ x = s
<1>1. SemTypeOK /\ TakesInv /\ TokensConserved
  BY DEF SemPart
<1>2. /\ sem[s].count \in 0 .. MaxCount /\ sem[s].max \in 1 .. MaxCount /\ MaxCount \in Nat
      /\ sem[s] \in [count : 0 .. MaxCount, max : 1 .. MaxCount]
      /\ \A x \in Semaphores : sem[x].count \in Int /\ tokens[x] \in Int
  BY <1>1, SemFacts DEF SemTypeOK
<1>3. sem[s].count + d \in 0 .. MaxCount /\ sem[s].count + d <= sem[s].max
  BY <1>1, <1>2 DEF TokensConserved
<1>4. /\ sem'[s].count = sem[s].count + d /\ sem'[s].max = sem[s].max
      /\ sem' \in [Semaphores -> [count : 0 .. MaxCount, max : 1 .. MaxCount]]
      /\ \A x \in Semaphores : x # s => sem'[x] = sem[x]
  BY <1>1, <1>2, <1>3 DEF SemTypeOK
<1>5. /\ tokens'[s] = tokens[s] + d /\ tokens' \in [Semaphores -> Int]
      /\ \A x \in Semaphores : x # s => tokens'[x] = tokens[x]
  BY <1>1, <1>2 DEF SemTypeOK
<1>6. SemTypeOK'
  BY <1>1, <1>4, <1>5 DEF SemTypeOK
<1>7. TakesInv'
  BY <1>1 DEF TakesInv
<1>8. \A x : Granted(x)' = Granted(x)
  BY DEF Granted, TakeLocs
<1>9. \A x : Granted(x) \in SUBSET Slots
  BY DEF Granted
<1>10. \A x : Cardinality(Granted(x)) \in Nat
  BY <1>9, TaskSetCard
<1>11. ASSUME NEW x \in Semaphores
       PROVE  /\ tokens'[x] = sem'[x].count + Cardinality(Granted(x))
              /\ sem'[x].count <= sem'[x].max
  <2>1. tokens[x] = sem[x].count + Cardinality(Granted(x)) /\ sem[x].count <= sem[x].max
    BY <1>1 DEF TokensConserved
  <2>2. CASE x = s
    BY <2>1, <2>2, <1>2, <1>3, <1>4, <1>5, <1>10
  <2>3. CASE x # s
    BY <2>1, <2>3, <1>4, <1>5
  <2> QED
    BY <2>2, <2>3
<1>12. TokensConserved'
  BY <1>8, <1>11 DEF TokensConserved
<1> QED
  BY <1>4, <1>6, <1>7, <1>12

(* artos_semaphore_take: a token is taken from the count ... *)
LEMMA TakeNowInv ==
    ASSUME SemPart, NEW s \in Semaphores, sem[s].count > 0,
           sem' = [sem EXCEPT ![s].count = @ - 1],
           tokens' = [tokens EXCEPT ![s] = @ - 1],
           UNCHANGED <<schedVars, taking>>
    PROVE  SemCallKept
<1>1. /\ kern' = kern /\ pend' = pend /\ switching' = switching /\ systick' = systick
      /\ pc' = pc /\ taking' = taking
  BY DEF schedVars
<1>2. SemTypeOK /\ CoreInv(SwitchLocs) /\ kern.cur # NULL
  BY DEF SemPart
<1>3. sem[s].count \in Int /\ tokens[s] \in Int
  BY <1>2, SemFacts DEF SemTypeOK
<1>4. /\ sem' = [sem EXCEPT ![s].count = @ + (-1)]
      /\ tokens' = [tokens EXCEPT ![s] = @ + (-1)]
  BY <1>3
<1>5. /\ SemTypeOK' /\ TakesInv' /\ TokensConserved'
      /\ \A x \in Semaphores : sem'[x].count > 0 => sem[x].count > 0 \/ x = s
  <2>1. pc' \in [Threads -> Places]
    BY <1>1, <1>2 DEF SemTypeOK
  <2>2. -1 \in {-1, 1} /\ -1 # 1
    OBVIOUS
  <2> QED
    BY <1>1, <1>4, <2>1, <2>2, CountStep
<1>6. NobodyWaitsForAvailable'
  BY <1>1, <1>2, <1>5, StillNobody DEF CoreInv
<1>7. CoreInv(SwitchLocs)' /\ (PreemptInv(SwitchLocs, {0}) => PreemptInv(SwitchLocs, {0})')
  BY <1>1, <1>2 DEF CoreInv, PreemptInv, SwitchComing
<1>8. LeavesOthers(LockLocs, Semaphores)
  BY <1>1 DEF LeavesOthers
<1> QED
  BY <1>1, <1>2, <1>5, <1>6, <1>7, <1>8, SameKernel, SameWaitsKeepsOrder
  DEF SemPart, SemKept, SemCallKept

(* ... or the task blocks. *)
LEMMA TakeBlockInv ==
    ASSUME SemPart, NEW t \in Slots, NEW s \in Semaphores, NEW n \in Ticks,
           artos_semaphore_take(t, s, n), sem[s].count = 0
    PROVE  SemCallKept
<1> DEFINE infinite == n = ARTOS_DELAY_INFINITY
           wake == IF infinite THEN ARTOS_DELAY_INFINITY ELSE (n + kern.ticks) % TickMod
           arg == [sem |-> s, infinite |-> infinite]
<1>1. /\ n # 0 /\ Executes(t) /\ pc[t] = "app"
      /\ kern' = rtos_block_current_task(kern, wake, s, infinite)
      /\ taking' = [taking EXCEPT ![t] = arg]
      /\ pc' = [pc EXCEPT ![t] = "take_switch"]
      /\ sem' = sem /\ tokens' = tokens
      /\ pend' = pend /\ switching' = switching /\ systick' = systick
  <2>1. ~(sem[s].count > 0)
    OBVIOUS
  <2> QED
    BY <2>1 DEF artos_semaphore_take, At, GoTo
<1>2. /\ CoreInv(SwitchLocs) /\ SemTypeOK /\ TakesInv /\ TokensConserved
      /\ NobodyWaitsForAvailable /\ s \in WaitLists /\ s # NULL /\ n \in Ticks
  BY SemFacts, KernelFacts DEF SemPart
<1>3. pc[t] \notin SwitchLocs
  BY <1>1 DEF SwitchLocs
<1>4. /\ KInv(kern) /\ DelayInv(kern, FALSE) /\ kern.cur = t /\ kern.state_c[t] = NULL
      /\ kern.event_c[t] = NULL
  BY <1>1, <1>2, <1>3, RunningTask
<1>5. wake \in Ticks /\ (~infinite => wake # kern.ticks)
  <2>1. kern.ticks \in Ticks /\ ARTOS_DELAY_INFINITY \in Ticks
    BY <1>4, KernelFacts DEF KInv, KernelType, ARTOS_DELAY_INFINITY, Ticks
  <2>2. n + kern.ticks = kern.ticks + n
    BY <2>1, <1>2, KernelFacts DEF Ticks
  <2> QED
    BY <2>1, <2>2, <1>1, <1>2, WakeTick
<1> HIDE DEF wake, infinite
<1>6. infinite \in BOOLEAN
  BY DEF infinite
<1>7. BlockedOn(kern', kern, s, infinite)
  BY <1>1, <1>2, <1>4, <1>5, <1>6, BlockOnEffect
<1>8. KInv(kern') /\ DelayInv(kern', FALSE) /\ kern'.cur = t
  BY <1>4, <1>7 DEF BlockedOn
<1>9. /\ pc' \in [Threads -> Places] /\ pc'[t] = "take_switch"
      /\ \A u \in Slots : u # t => pc'[u] = pc[u]
  BY <1>1, <1>2 DEF SemTypeOK, Places, TakeLocs, Threads
<1>10. CoreInv(SwitchLocs)' /\ PreemptInv(SwitchLocs, {0})'
  <2>1. pc'[t] \in SwitchLocs
    BY <1>9 DEF SwitchLocs
  <2> QED
    BY <2>1, <1>1, <1>2, <1>8, ThreadStepCore, ThreadStepPreempt
<1>11. /\ taking' \in [Slots -> [sem : Semaphores \cup {NULL}, infinite : BOOLEAN]]
       /\ taking'[t] = arg /\ \A u \in Slots : u # t => taking'[u] = taking[u]
  BY <1>1, <1>2, <1>6 DEF SemTypeOK
<1>12. SemTypeOK'
  BY <1>1, <1>2, <1>9, <1>11 DEF SemTypeOK
<1>13. /\ InCall(kern', t, s, infinite)
       /\ kern'.event_c[t] = s
       /\ \A u \in Slots : u # t =>
             /\ kern'.event_c[u] = kern.event_c[u] /\ kern'.reason[u] = kern.reason[u]
             /\ \A v, i : InCall(kern, u, v, i) => InCall(kern', u, v, i)
  BY <1>2, <1>4, <1>6, <1>7, CallEntered
<1>14. TakesInv'
  BY <1>2, <1>9, <1>11, <1>13 DEF TakesInv, TakeLocs
<1>15. \A x : Granted(x)' = Granted(x)
  BY <1>1, <1>2, <1>9, <1>11, <1>13 DEF Granted
<1>16. TokensConserved'
  BY <1>1, <1>2, <1>15 DEF TokensConserved
<1>17. NobodyWaitsForAvailable'
  <2> SUFFICES ASSUME NEW x \in Semaphores, sem[x].count > 0
               PROVE  kern'.event_l[x] = <<>>
    BY <1>1 DEF NobodyWaitsForAvailable
  <2>1. x # s
    OBVIOUS
  <2>2. kern'.event_l[x] = kern.event_l[x]
    BY <2>1, <1>7, SemFacts DEF BlockedOn
  <2> QED
    BY <2>2, <1>2 DEF NobodyWaitsForAvailable
<1>18. KeepsOrder(kern', kern)
  BY <1>2, <1>4, <1>6, <1>7, BlockKeepsOrder
<1>19. kern'.cur # NULL
  BY <1>8, KernelFacts
<1>20. /\ kern'.created = kern.created /\ kern'.priority = kern.priority
       /\ kern'.eff = kern.eff /\ kern'.held = kern.held
  BY <1>7 DEF BlockedOn
<1>21. LeavesOthers(LockLocs, Semaphores)
  <2>1. pc[t] \notin LockLocs /\ pc'[t] \notin LockLocs
    BY <1>1, <1>9 DEF LockLocs
  <2> QED
    BY <2>1, <1>9, <1>13 DEF LeavesOthers
<1> QED
  BY <1>10, <1>12, <1>14, <1>16, <1>17, <1>18, <1>19, <1>20, <1>21
  DEF SemPart, SemKept, SemCallKept

(* The end of a take that had blocked: the token that was carried is       *)
(* taken.                                                                  *)
LEMMA TakeReturnInv ==
    ASSUME SemPart, NEW t \in Slots, TakeReturn(t)
    PROVE  SemCallKept
<1> DEFINE s == taking[t].sem
<1>1. /\ Executes(t) /\ pc[t] = "take_woken"
      /\ kern' = rtos_clear_current_wait_reason(kern)
      /\ tokens' = IF kern.reason[t] = "WAIT_SIGNALED" THEN [tokens EXCEPT ![s] = @ - 1]
                   ELSE tokens
      /\ taking' = [taking EXCEPT ![t] = NotTaking]
      /\ pc' = [pc EXCEPT ![t] = "app"]
      /\ sem' = sem /\ pend' = pend /\ switching' = switching /\ systick' = systick
  BY DEF TakeReturn, At, GoTo
<1>2. /\ CoreInv(SwitchLocs) /\ SemTypeOK /\ TakesInv
      /\ TokensConserved /\ NobodyWaitsForAvailable
  BY DEF SemPart
<1>3. pc[t] \notin SwitchLocs
  BY <1>1 DEF SwitchLocs
<1>4. /\ KInv(kern) /\ DelayInv(kern, FALSE) /\ kern.cur = t /\ kern.state_c[t] = NULL
      /\ kern.event_c[t] = NULL
  BY <1>1, <1>2, <1>3, RunningTask
<1>5. s \in Semaphores
  BY <1>1, <1>2 DEF TakesInv, TakeLocs
<1>6. /\ KInv(kern') /\ DelayInv(kern', FALSE) /\ SameScalars(kern', kern)
      /\ kern'.cur = kern.cur /\ kern'.bitmap = kern.bitmap /\ kern'.state_c = kern.state_c
      /\ kern'.event_l = kern.event_l /\ kern'.event_c = kern.event_c
      /\ kern'.reason = [kern.reason EXCEPT ![kern.cur] = "WAIT_NO_REASON"]
  BY <1>1, <1>4, ClearReasonEffect
<1>7. /\ pc' \in [Threads -> Places] /\ pc'[t] = "app"
      /\ \A u \in Slots : u # t => pc'[u] = pc[u]
  BY <1>1, <1>2 DEF SemTypeOK, Places, TakeLocs, Threads
<1>8. /\ taking' \in [Slots -> [sem : Semaphores \cup {NULL}, infinite : BOOLEAN]]
      /\ \A u \in Slots : u # t => taking'[u] = taking[u]
  BY <1>1, <1>2 DEF SemTypeOK, NotTaking
<1>9. \A u \in Slots : u # t => kern'.reason[u] = kern.reason[u]
  BY <1>4, <1>6 DEF KInv, KernelType, Tasks
<1>10. kern'.eff = kern.eff
  BY <1>6 DEF SameScalars
<1>11. CoreInv(SwitchLocs)' /\ (PreemptInv(SwitchLocs, {0}) => PreemptInv(SwitchLocs, {0})')
  <2>1. CoreInv(SwitchLocs)'
    BY <1>1, <1>2, <1>4, <1>6, ThreadStepCore
  <2>2. ASSUME PreemptInv(SwitchLocs, {0}) PROVE PreemptInv(SwitchLocs, {0})'
    <3>1. \A p \in kern.bitmap : p <= kern.eff[t]
      BY <2>2, <1>1, <1>2, <1>3, RunningHighest
    <3> QED
      BY <3>1, <1>4, <1>6, <1>10, ThreadStepPreempt
  <2> QED
    BY <2>1, <2>2
<1>12. TakesInv'
  BY SemFacts, <1>2, <1>4, <1>6, <1>7, <1>8, <1>9 DEF TakesInv, InCall, Blocked, TakeLocs
<1>13. NobodyWaitsForAvailable'
  BY <1>1, <1>2, <1>6 DEF NobodyWaitsForAvailable
<1>14. KeepsOrder(kern', kern)
  BY <1>6, <1>10 DEF KeepsOrder
<1>15. \A x : Granted(x) \in SUBSET Slots
  BY DEF Granted
<1>16. \A x : Granted(x)' = Granted(x) \ {t}
  BY <1>6, <1>7, <1>8, <1>9 DEF Granted
<1>17. \A x \in Semaphores : t \in Granted(x) <=> x = s /\ kern.reason[t] = "WAIT_SIGNALED"
  BY <1>1, <1>4 DEF Granted
<1>18. /\ \A x \in Semaphores : tokens[x] \in Int /\ sem[x].count \in Int
       /\ tokens \in [Semaphores -> Int]
  BY <1>2, SemFacts DEF SemTypeOK
<1> HIDE DEF s
<1>19. /\ tokens' \in [Semaphores -> Int]
       /\ \A x \in Semaphores : tokens'[x] = IF x = s /\ kern.reason[t] = "WAIT_SIGNALED"
                                             THEN tokens[x] - 1 ELSE tokens[x]
  BY <1>1, <1>5, <1>18
<1>20. SemTypeOK'
  BY <1>1, <1>2, <1>7, <1>8, <1>19 DEF SemTypeOK
<1>21. ASSUME NEW x \in Semaphores
       PROVE  tokens'[x] = sem[x].count + Cardinality(Granted(x) \ {t})
  <2>1. tokens[x] = sem[x].count + Cardinality(Granted(x)) /\ Cardinality(Granted(x)) \in Nat
    BY <1>2, <1>15, TaskSetCard DEF TokensConserved
  <2>2. CASE t \in Granted(x)
    <3>1. Cardinality(Granted(x) \ {t}) = Cardinality(Granted(x)) - 1 /\ tokens'[x] = tokens[x] - 1
      BY <2>2, <1>15, <1>17, <1>19, TaskSetCard
    <3> QED
      BY <3>1, <2>1, <1>18
  <2>3. CASE t \notin Granted(x)
    <3>1. Granted(x) \ {t} = Granted(x) /\ tokens'[x] = tokens[x]
      BY <2>3, <1>17, <1>19
    <3> QED
      BY <3>1, <2>1
  <2> QED
    BY <2>2, <2>3
<1>22. TokensConserved'
  BY <1>1, <1>2, <1>16, <1>21 DEF TokensConserved
<1>23. kern'.cur # NULL
  BY <1>4, <1>6, KernelFacts
<1>24. LeavesOthers(LockLocs, Semaphores)
  <2>1. pc[t] \notin LockLocs /\ pc'[t] \notin LockLocs
    BY <1>1, <1>7 DEF LockLocs
  <2>2. \A u \in Slots : u # t => \A w, i : InCall(kern, u, w, i) => InCall(kern', u, w, i)
    BY <1>6, <1>9 DEF InCall, Blocked
  <2> QED
    BY <2>1, <2>2, <1>6, <1>7, <1>9 DEF LeavesOthers
<1> QED
  BY <1>6, <1>11, <1>12, <1>13, <1>14, <1>20, <1>22, <1>23, <1>24
  DEF SameScalars, SemPart, SemKept, SemCallKept

(* What a signal does in its critical section, called by a task or by an   *)
(* interrupt: the token is stored when nobody waits, and otherwise given   *)
(* to the first waiter, which then carries it.                             *)
LEMMA SignalStep ==
    ASSUME SemPart, NEW s \in Semaphores, SignalEffect(s),
           tokens' = [tokens EXCEPT ![s] = @ + 1], taking' = taking,
           pc' \in [Threads -> Places],
           \A t \in Slots : pc'[t] \in TakeLocs <=> pc[t] \in TakeLocs,
           \A t \in Slots : pc[t] \in LockLocs \/ pc'[t] \in LockLocs => pc'[t] = pc[t]
    PROVE  /\ SemTypeOK' /\ TakesInv' /\ TokensConserved' /\ NobodyWaitsForAvailable'
           /\ KeepsOrder(kern', kern)
           /\ kern'.created = kern.created /\ kern'.priority = kern.priority
           /\ kern'.eff = kern.eff /\ kern'.held = kern.held
           /\ LeavesOthers(LockLocs, Semaphores)
           /\ \/ kern' = kern /\ ~WakesHigher(s)
              \/ \E u \in Slots : /\ Blocked(kern, u)
                                  /\ Unblocked(kern', kern, u, "WAIT_SIGNALED")
                                  /\ WakesHigher(s) <=>
                                        kern.eff[u] > rtos_current_effective_priority(kern)
<1>1. /\ KInv(kern) /\ SemTypeOK /\ TakesInv /\ TokensConserved /\ NobodyWaitsForAvailable
      /\ s \in WaitLists /\ s # NULL
  BY SemFacts, KernelFacts DEF SemPart, CoreInv
<1>2. /\ sem[s].count \in 0 .. MaxCount /\ sem[s].max \in 1 .. MaxCount /\ MaxCount \in Nat
      /\ sem[s].count <= sem[s].max
  BY <1>1, SemFacts DEF SemTypeOK, TokensConserved
<1>3. CASE sem[s].count # 0 \/ kern.event_l[s] = <<>>
  <2>1. /\ sem' = [sem EXCEPT ![s].count = @ + 1] /\ kern' = kern
        /\ sem[s].count # 0 => sem[s].count # sem[s].max
    BY <1>3 DEF SignalEffect
  <2>2. sem[s].count < sem[s].max
    BY <2>1, <1>2
  <2>3. 1 \in {-1, 1} /\ 1 # -1
    OBVIOUS
  <2>4. /\ SemTypeOK' /\ TakesInv' /\ TokensConserved'
        /\ \A x \in Semaphores : sem'[x].count > 0 => sem[x].count > 0 \/ x = s
    BY <2>1, <2>2, <2>3, CountStep
  <2>5. sem[s].count > 0 \/ kern.event_l[s] = <<>>
    BY <1>2, <1>3
  <2>6. NobodyWaitsForAvailable'
    BY <2>1, <2>4, <2>5, <1>1, StillNobody
  <2>7. ~WakesHigher(s)
    BY <1>3 DEF WakesHigher
  <2>8. LeavesOthers(LockLocs, Semaphores)
    BY <2>1 DEF LeavesOthers
  <2> QED
    BY <2>1, <2>4, <2>6, <2>7, <2>8, SameKernel, SameWaitsKeepsOrder
<1>4. CASE sem[s].count = 0 /\ kern.event_l[s] # <<>>
  <2> DEFINE u == Waiter(s)
  <2>1. sem' = sem /\ kern' = rtos_unblock_task(kern, u, "WAIT_SIGNALED")
    BY <1>4 DEF SignalEffect
  <2>2. u \in Slots /\ Blocked(kern, u) /\ kern.event_c[u] = s /\ kern.event_v[u] = kern.eff[u]
    BY <1>1, <1>4, FirstWaiter DEF Waiter
  <2> HIDE DEF u
  <2>3. Unblocked(kern', kern, u, "WAIT_SIGNALED")
    BY <2>1, <2>2, <1>1, UnblockEffect DEF WaitReasons
  <2>4. /\ kern'.event_c = [kern.event_c EXCEPT ![u] = NULL]
        /\ kern'.reason = [kern.reason EXCEPT ![u] = "WAIT_SIGNALED"]
    BY <2>3 DEF Unblocked
  <2>5. /\ kern.event_c \in [Slots -> WaitLists \cup {NULL}]
        /\ kern.reason \in [Tasks -> WaitReasons] /\ Slots \subseteq Tasks
    BY <1>1 DEF KInv, KernelType, Tasks
  <2>6. /\ kern'.event_c[u] = NULL /\ kern'.reason[u] = "WAIT_SIGNALED"
        /\ \A t \in Slots : t # u => /\ kern'.event_c[t] = kern.event_c[t]
                                     /\ kern'.reason[t] = kern.reason[t]
    BY <2>2, <2>4, <2>5
  <2>7. \A t \in Slots : \A w, i : InCall(kern, t, w, i) => InCall(kern', t, w, i)
    BY <2>2, <2>3, <1>1, CallUnblocked
  <2>8. TakesInv'
    BY <2>6, <2>7, <1>1, SemFacts DEF TakesInv
  <2>9. pc[u] \in TakeLocs /\ taking[u].sem = s
    BY <2>2, <1>1 DEF TakesInv, InCall
  <2>10. \A x : Granted(x) \in SUBSET Slots
    BY DEF Granted
  <2>11. /\ u \notin Granted(s) /\ Granted(s)' = Granted(s) \cup {u}
         /\ \A x \in Semaphores : x # s => Granted(x)' = Granted(x)
    BY <2>2, <2>6, <2>9, <1>1 DEF Granted, TakeLocs
  <2>12. \A x \in Semaphores : sem[x].count \in Int /\ tokens[x] \in Int
    BY <1>1, SemFacts DEF SemTypeOK
  <2>13. /\ tokens' \in [Semaphores -> Int] /\ tokens'[s] = tokens[s] + 1
         /\ \A x \in Semaphores : x # s => tokens'[x] = tokens[x]
    BY <2>12, <1>1 DEF SemTypeOK
  <2>14. ASSUME NEW x \in Semaphores
         PROVE  /\ tokens'[x] = sem[x].count + Cardinality(Granted(x)')
                /\ sem[x].count <= sem[x].max
    <3>1. /\ tokens[x] = sem[x].count + Cardinality(Granted(x)) /\ Cardinality(Granted(x)) \in Nat
          /\ sem[x].count <= sem[x].max
      BY <1>1, <2>10, TaskSetCard DEF TokensConserved
    <3>2. CASE x = s
      <4>1. Cardinality(Granted(x) \cup {u}) = Cardinality(Granted(x)) + 1
        BY <3>2, <2>10, <2>11, TaskSetCard
      <4> QED
        BY <4>1, <3>1, <3>2, <2>11, <2>12, <2>13
    <3>3. CASE x # s
      BY <3>1, <3>3, <2>11, <2>13
    <3> QED
      BY <3>2, <3>3
  <2>15. TokensConserved'
    BY <2>1, <2>14 DEF TokensConserved
  <2>16. SemTypeOK'
    BY <2>1, <2>13, <1>1 DEF SemTypeOK
  <2>17. KInv(kern')
    BY <2>3 DEF Unblocked
  <2>18. NobodyWaitsForAvailable'
    BY <2>1, <2>6, <2>17, SemFacts, StillNobody
  <2>19. WakesHigher(s) <=> kern.eff[u] > rtos_current_effective_priority(kern)
    BY <2>2, <1>4 DEF WakesHigher, u
  <2>20. KeepsOrder(kern', kern)
    BY <2>2, <2>3, <1>1, UnblockKeepsOrder
  <2>21. LeavesOthers(LockLocs, Semaphores)
    <3>1. pc[u] \notin LockLocs /\ pc'[u] \notin LockLocs
      BY <2>2, <2>9 DEF TakeLocs, LockLocs
    <3> QED
      BY <3>1, <2>6, <2>7 DEF LeavesOthers
  <2>22. /\ kern'.created = kern.created /\ kern'.priority = kern.priority
         /\ kern'.eff = kern.eff /\ kern'.held = kern.held
    BY <2>3 DEF Unblocked, SameScalars
  <2> QED
    BY <2>2, <2>3, <2>8, <2>15, <2>16, <2>18, <2>19, <2>20, <2>21, <2>22
<1> QED
  BY <1>3, <1>4

(* artos_semaphore_signal. *)
LEMMA SignalInv ==
    ASSUME SemPart, NEW t \in Slots, NEW s \in Semaphores, artos_semaphore_signal(t, s)
    PROVE  SemCallKept
<1> DEFINE next == IF WakesHigher(s) THEN "switch" ELSE "app"
<1>1. /\ Executes(t) /\ pc[t] = "app" /\ SignalEffect(s)
      /\ tokens' = [tokens EXCEPT ![s] = @ + 1] /\ pc' = [pc EXCEPT ![t] = next]
      /\ taking' = taking /\ pend' = pend /\ switching' = switching /\ systick' = systick
  BY DEF artos_semaphore_signal, At, GoTo
<1>2. CoreInv(SwitchLocs) /\ SemTypeOK /\ kern.cur # NULL
  BY DEF SemPart
<1>3. /\ pc' \in [Threads -> Places] /\ pc'[t] = next
      /\ \A u \in Slots : u # t => pc'[u] = pc[u]
  BY <1>1, <1>2 DEF SemTypeOK, Places, Threads
<1>4. /\ pc[t] \notin SwitchLocs /\ (WakesHigher(s) => pc'[t] \in SwitchLocs)
      /\ pc[t] \notin TakeLocs /\ pc'[t] \notin TakeLocs
      /\ pc[t] \notin LockLocs /\ pc'[t] \notin LockLocs
  BY <1>1, <1>3 DEF SwitchLocs, TakeLocs, LockLocs
<1>5. /\ SemTypeOK' /\ TakesInv' /\ TokensConserved' /\ NobodyWaitsForAvailable'
      /\ KeepsOrder(kern', kern)
      /\ kern'.created = kern.created /\ kern'.priority = kern.priority
      /\ kern'.eff = kern.eff /\ kern'.held = kern.held
      /\ LeavesOthers(LockLocs, Semaphores)
      /\ \/ kern' = kern
         \/ \E u \in Slots : /\ Blocked(kern, u)
                             /\ Unblocked(kern', kern, u, "WAIT_SIGNALED")
                             /\ WakesHigher(s) <=>
                                   kern.eff[u] > rtos_current_effective_priority(kern)
  <2>1. \A u \in Slots : pc'[u] \in TakeLocs <=> pc[u] \in TakeLocs
    BY <1>3, <1>4
  <2>2. \A u \in Slots : pc[u] \in LockLocs \/ pc'[u] \in LockLocs => pc'[u] = pc[u]
    BY <1>3, <1>4
  <2> QED
    BY <2>1, <2>2, <1>1, <1>3, SignalStep
<1>6. KInv(kern) /\ DelayInv(kern, FALSE) /\ kern.cur = t /\ kern.state_c[t] = NULL
  BY <1>1, <1>2, <1>4, RunningTask
<1>7. /\ CoreInv(SwitchLocs)' /\ kern'.cur = kern.cur
      /\ PreemptInv(SwitchLocs, {0}) => PreemptInv(SwitchLocs, {0})'
  <2>1. CASE kern' = kern
    <3>1. CoreInv(SwitchLocs)'
      BY <2>1, <1>1, <1>2, <1>6, ThreadStepCore
    <3>2. ASSUME PreemptInv(SwitchLocs, {0}) PROVE PreemptInv(SwitchLocs, {0})'
      <4>1. \A p \in kern.bitmap : p <= kern.eff[t]
        BY <3>2, <1>1, <1>2, <1>4, RunningHighest
      <4> QED
        BY <4>1, <2>1, <1>6, ThreadStepPreempt
    <3> QED
      BY <3>1, <3>2, <2>1
  <2>2. ASSUME NEW u \in Slots, Blocked(kern, u), Unblocked(kern', kern, u, "WAIT_SIGNALED"),
               WakesHigher(s) <=> kern.eff[u] > rtos_current_effective_priority(kern)
        PROVE  /\ CoreInv(SwitchLocs)' /\ kern'.cur = kern.cur
               /\ PreemptInv(SwitchLocs, {0}) => PreemptInv(SwitchLocs, {0})'
    <3>1. kern'.cur = kern.cur
      BY <2>2 DEF Unblocked
    <3> QED
      BY <2>2, <3>1, <1>1, <1>2, <1>4, <1>6, ThreadUnblocks
  <2> QED
    BY <2>1, <2>2, <1>5
<1> QED
  BY <1>2, <1>5, <1>7 DEF SemPart, SemKept, SemCallKept

(* An interrupt signals. *)
LEMMA SignalIsrInv ==
    ASSUME SemPart, NEW s \in Semaphores, artos_semaphore_signal_isr(s)
    PROVE  SemCallKept
<1>1. /\ InterruptEnabled /\ SignalEffect(s)
      /\ tokens' = [tokens EXCEPT ![s] = @ + 1] /\ pend' = (pend \/ WakesHigher(s))
      /\ taking' = taking /\ pc' = pc /\ switching' = switching /\ systick' = systick
  BY DEF artos_semaphore_signal_isr
<1>2. CoreInv(SwitchLocs) /\ SemTypeOK /\ kern.cur # NULL
  BY DEF SemPart
<1>3. pc' \in [Threads -> Places]
  BY <1>1, <1>2 DEF SemTypeOK
<1>4. /\ SemTypeOK' /\ TakesInv' /\ TokensConserved' /\ NobodyWaitsForAvailable'
      /\ KeepsOrder(kern', kern)
      /\ kern'.created = kern.created /\ kern'.priority = kern.priority
      /\ kern'.eff = kern.eff /\ kern'.held = kern.held
      /\ LeavesOthers(LockLocs, Semaphores)
      /\ \/ kern' = kern /\ ~WakesHigher(s)
         \/ \E u \in Slots : /\ Blocked(kern, u)
                             /\ Unblocked(kern', kern, u, "WAIT_SIGNALED")
                             /\ WakesHigher(s) <=>
                                   kern.eff[u] > rtos_current_effective_priority(kern)
  BY <1>1, <1>3, SignalStep
<1>5. pend' \in BOOLEAN /\ (pend => pend') /\ (WakesHigher(s) => pend')
  BY <1>1, <1>2 DEF CoreInv, WakesHigher
<1>6. /\ CoreInv(SwitchLocs)' /\ kern'.cur = kern.cur
      /\ PreemptInv(SwitchLocs, {0}) => PreemptInv(SwitchLocs, {0})'
  <2>1. CASE kern' = kern /\ ~WakesHigher(s)
    <3>1. pend' = pend
      BY <2>1, <1>1, <1>2 DEF CoreInv
    <3> QED
      BY <2>1, <3>1, <1>1, <1>2 DEF CoreInv, PreemptInv, SwitchComing
  <2>2. ASSUME NEW u \in Slots, Blocked(kern, u), Unblocked(kern', kern, u, "WAIT_SIGNALED"),
               WakesHigher(s) <=> kern.eff[u] > rtos_current_effective_priority(kern)
        PROVE  /\ CoreInv(SwitchLocs)' /\ kern'.cur = kern.cur
               /\ PreemptInv(SwitchLocs, {0}) => PreemptInv(SwitchLocs, {0})'
    <3>1. kern'.cur = kern.cur
      BY <2>2 DEF Unblocked
    <3> QED
      BY <2>2, <3>1, <1>1, <1>2, <1>5, InterruptUnblocks
  <2> QED
    BY <2>1, <2>2, <1>4
<1> QED
  BY <1>2, <1>4, <1>6 DEF SemPart, SemKept, SemCallKept

(* A step of others: no task starts or ends a take or is released, and who *)
(* starts to wait waits for another object.                                *)
LEMMA SemFrame ==
    ASSUME SemPart, CoreInv(SwitchLocs)', kern'.cur # NULL, pc' \in [Threads -> Places],
           UNCHANGED semVars, NEW objects, Semaphores \cap objects = {},
           LeavesOthers(TakeLocs, objects)
    PROVE  SemPart'
<1>1. /\ sem' = sem /\ taking' = taking /\ tokens' = tokens
      /\ SemTypeOK /\ TakesInv /\ TokensConserved /\ KInv(kern')
  BY DEF semVars, SemPart, CoreInv
<1>2. \A u \in Slots :
         /\ pc'[u] \in TakeLocs <=> pc[u] \in TakeLocs
         /\ pc[u] \in TakeLocs =>
               /\ kern'.event_c[u] = kern.event_c[u] /\ kern'.reason[u] = kern.reason[u]
               /\ \A w, i : InCall(kern, u, w, i) => InCall(kern', u, w, i)
         /\ kern'.event_c[u] = kern.event_c[u] \/ kern'.event_c[u] \notin Semaphores
  BY SemFacts DEF LeavesOthers
<1>3. SemTypeOK'
  BY <1>1 DEF SemTypeOK
<1>4. TakesInv'
  BY <1>1, <1>2 DEF TakesInv
<1>5. \A s : Granted(s)' = Granted(s)
  BY <1>1, <1>2 DEF Granted, TakeLocs
<1>6. TokensConserved'
  BY <1>1, <1>5 DEF TokensConserved
<1>7. NobodyWaitsForAvailable'
  BY <1>1, <1>2, StillNobody
<1> QED
  BY <1>3, <1>4, <1>6, <1>7 DEF SemPart
-----------------------------------------------------------------------------
(* Every step keeps the invariant and the order of equal waiters; those of *)
(* the exceptions excepted, each is one of a call or requests a context    *)
(* switch.                                                                 *)
LEMMA SemCallStep ==
    ASSUME SemPart, SemNext, ~((SysTick \/ PendSVEnter \/ PendSVSwitch) /\ UNCHANGED semVars)
    PROVE  SemCallKept
<1>1. ASSUME NEW t \in Slots, (Switch(t) /\ UNCHANGED semVars) \/ TakeSwitch(t)
      PROVE  SemCallKept
  BY <1>1, SemSwitchInv DEF TakeSwitch
<1>2. ASSUME NEW t \in Slots, TakeReturn(t) PROVE SemCallKept
  BY <1>2, TakeReturnInv
<1>3. ASSUME NEW t \in Slots, NEW s \in Semaphores, NEW n \in TakeTimeouts,
             artos_semaphore_take(t, s, n)
      PROVE  SemCallKept
  <2>1. CASE sem[s].count > 0
    <3>1. sem[s].count # 0
      BY <2>1
    <3>2. /\ sem' = [sem EXCEPT ![s].count = @ - 1]
          /\ tokens' = [tokens EXCEPT ![s] = @ - 1]
          /\ UNCHANGED <<schedVars, taking>>
      BY <3>1, <1>3 DEF artos_semaphore_take, schedVars
    <3> QED
      BY <2>1, <3>2, TakeNowInv
  <2>2. CASE sem[s].count = 0
    BY <1>3, <2>2, SemFacts, TakeBlockInv
  <2> QED
    BY <1>3, <2>1, <2>2 DEF artos_semaphore_take
<1>4. ASSUME NEW t \in Slots, NEW s \in Semaphores, artos_semaphore_signal(t, s)
      PROVE  SemCallKept
  BY <1>4, SignalInv
<1>5. ASSUME NEW s \in Semaphores, artos_semaphore_signal_isr(s) PROVE SemCallKept
  BY <1>5, SignalIsrInv
<1>6. ASSUME NEW s \in Semaphores, artos_semaphore_take_isr(s) PROVE SemCallKept
  BY <1>6, TakeNowInv DEF artos_semaphore_take_isr
<1> QED
  BY <1>1, <1>2, <1>3, <1>4, <1>5, <1>6 DEF SemNext

LEMMA SemUnchanged ==
    ASSUME SemPart, UNCHANGED semSpecVars
    PROVE  SemKept
<1>1. /\ kern' = kern /\ pend' = pend /\ switching' = switching /\ systick' = systick /\ pc' = pc
      /\ sem' = sem /\ taking' = taking /\ tokens' = tokens
  BY DEF semSpecVars, schedVars, semVars
<1>2. /\ CoreInv(SwitchLocs)' /\ SemTypeOK' /\ TakesInv'
      /\ PreemptInv(SwitchLocs, {0}) => PreemptInv(SwitchLocs, {0})'
  BY <1>1 DEF SemPart, CoreInv, PreemptInv, SwitchComing, SemTypeOK, TakesInv
<1>3. \A s : Granted(s)' = Granted(s)
  BY <1>1 DEF Granted
<1>4. TokensConserved' /\ NobodyWaitsForAvailable'
  BY <1>1, <1>3 DEF SemPart, TokensConserved, NobodyWaitsForAvailable
<1> QED
  BY <1>1, <1>2, <1>4, SameKernel, SameWaitsKeepsOrder DEF SemPart, SemKept

LEMMA SemStepInv ==
    ASSUME SemIInv, [SemNext]_semSpecVars
    PROVE  SemIInv' /\ KeepsOrder(kern', kern)
<1>1. CASE UNCHANGED semSpecVars
  BY <1>1, SemUnchanged DEF SemIInv, SemKept
<1>2. CASE (SysTick \/ PendSVEnter \/ PendSVSwitch) /\ UNCHANGED semVars
  BY <1>2, SemExceptionInv DEF SemIInv, SemKept
<1>3. CASE SemNext /\ ~((SysTick \/ PendSVEnter \/ PendSVSwitch) /\ UNCHANGED semVars)
  BY <1>3, SemCallStep DEF SemIInv, SemKept, SemCallKept
<1> QED
  BY <1>1, <1>2, <1>3

(* A task that runs in a take was signalled or timed out. *)
LEMMA TakesReturn == SemPart => TakeHasReason
<1> SUFFICES ASSUME SemPart, NEW t \in Slots, Executes(t), pc[t] = "take_woken"
             PROVE  /\ kern.reason[t] # "WAIT_NO_REASON"
                    /\ taking[t].infinite => kern.reason[t] = "WAIT_SIGNALED"
  BY DEF TakeHasReason
<1>1. CoreInv(SwitchLocs) /\ pc[t] \notin SwitchLocs /\ pc[t] \in TakeLocs /\ TakesInv
  BY DEF SemPart, SwitchLocs, TakeLocs
<1>2. kern.event_c[t] = NULL
  BY <1>1, RunningTask
<1> QED
  BY <1>1, <1>2 DEF TakesInv, InCall

(* The tasks that wait for a semaphore are in decreasing order of priority. *)
LEMMA TakersInOrder == SemPart => TakersByPriority
<1> SUFFICES ASSUME SemPart PROVE TakersByPriority
  OBVIOUS
<1>1. KInv(kern) /\ Semaphores \subseteq WaitLists
  BY SemFacts DEF SemPart, CoreInv
<1> QED
  BY <1>1, WaitListsInOrder DEF TakersByPriority

(* The invariant holds in every reachable state. *)
THEOREM SemInvariance == SemSpec => []SemIInv
<1>1. SemInit => SemIInv
  BY SemInitInv
<1>2. SemIInv /\ [SemNext]_semSpecVars => SemIInv'
  BY SemStepInv
<1> QED
  BY <1>1, <1>2, PTL DEF SemSpec

(* No token is lost or made up, and no count exceeds its maximum. *)
THEOREM TokensKept == SemSpec => []TokensConserved
<1>1. SemIInv => TokensConserved
  BY DEF SemIInv, SemPart
<1> QED
  BY <1>1, SemInvariance, PTL

(* Nobody waits for a semaphore that is available. *)
THEOREM NoSignalLost == SemSpec => []NobodyWaitsForAvailable
<1>1. SemIInv => NobodyWaitsForAvailable
  BY DEF SemIInv, SemPart
<1> QED
  BY <1>1, SemInvariance, PTL

(* A take that blocked returns because it was signalled or timed out, and  *)
(* one without a limit only because it was signalled.                      *)
THEOREM TakeReturnsForAReason == SemSpec => []TakeHasReason
<1>1. SemIInv => TakeHasReason
  BY TakesReturn DEF SemIInv
<1> QED
  BY <1>1, SemInvariance, PTL

(* A task released by a signal preempts a running task of lower priority;  *)
(* the idle task runs on only above ready tasks of priority 0.             *)
THEOREM ReleasePreempts == SemSpec => []ReleasedTaskPreempts
<1>1. SemIInv => HighestPriorityRuns
  <2> SUFFICES ASSUME SemIInv, Settled, kern.cur \in Slots, pc[kern.cur] = "app",
                      NEW p \in kern.bitmap
               PROVE  p <= kern.eff[kern.cur]
    BY DEF HighestPriorityRuns
  <2>1. Executes(kern.cur) /\ pc[kern.cur] \notin SwitchLocs
    BY DEF SemIInv, SemPart, CoreInv, KInv, Settled, Executes, SwitchLocs
  <2> QED
    BY <2>1, RunningHighest DEF SemIInv, SemPart
<1>2. SemIInv => (Settled /\ kern.cur = IDLE => kern.bitmap \subseteq {0})
  BY DEF SemIInv, PreemptInv, Settled
<1>3. SemIInv => ReleasedTaskPreempts
  BY <1>1, <1>2 DEF ReleasedTaskPreempts
<1> QED
  BY <1>3, SemInvariance, PTL

(* Waiters of equal priority are served in the order they came. *)
THEOREM EqualWaitersServedInOrder == SemSpec => EqualWaitersFIFO
<1> DEFINE Ordered ==
        \A s \in Semaphores, t, u \in Slots :
          /\ kern.event_c[t] = s /\ kern'.event_c[t] = s
          /\ kern'.event_c[u] = s /\ kern.eff[t] = kern'.eff[u]
          /\ kern.event_c[u] # s \/ Before(kern.event_l[s], t, u)
          /\ t # u
          => Before(kern'.event_l[s], t, u)
<1>1. SemIInv /\ [SemNext]_semSpecVars => [Ordered]_semSpecVars
  <2> SUFFICES ASSUME SemIInv, [SemNext]_semSpecVars PROVE Ordered
    OBVIOUS
  <2>1. KeepsOrder(kern', kern)
    BY SemStepInv
  <2> QED
    BY <2>1, SemFacts DEF KeepsOrder
<1>2. SemSpec => [][Ordered]_semSpecVars
  BY <1>1, SemInvariance, PTL DEF SemSpec
<1> QED
  BY <1>2 DEF EqualWaitersFIFO
=============================================================================
