-------------------------- MODULE SchedulerProofs --------------------------
(***************************************************************************)
(* The safety properties of module Scheduler, for any numbers of tasks and *)
(* priorities and any width of the tick counter.                           *)
(*                                                                         *)
(* None of the properties is inductive by itself.  The invariant joins the *)
(* parts of the kernel record (KInv and DelayInv) with what relates it     *)
(* to the control state: a task that made itself not ready has asked, or   *)
(* is about to ask, for a context switch, and so has everyone who made a   *)
(* task ready above the running one.                                       *)
(*                                                                         *)
(* The first part is about the operations of module Kernel and reads no    *)
(* variable.  The second is stated for any set locs of locations at which  *)
(* a thread is about to request a context switch, so that the modules of   *)
(* the kernel objects, whose calls have such locations too, share it.      *)
(***************************************************************************)
EXTENDS Scheduler, ListsProofs, FiniteSetTheorems

-----------------------------------------------------------------------------
(* What the operations of module Kernel preserve. *)

(* The constants: a list identifier is a priority, one of the two delay    *)
(* lists or the suspend list, and never the null pointer.                  *)
LEMMA KernelFacts ==
    /\ MaxTasks \in Nat /\ MaxTasks > 0
    /\ PriorityCount \in Nat /\ PriorityCount > 0
    /\ TickMod \in Nat /\ TickMod > 2
    /\ MaxHeld \in Nat
    /\ NULL \notin Slots /\ IDLE \notin Slots /\ NULL # IDLE
    /\ NULL \notin StateLists /\ NULL \notin WaitLists
    /\ Priorities \subseteq StateLists /\ DelayLists \subseteq StateLists
    /\ SuspendL \in StateLists /\ SuspendL \notin Priorities
    /\ \A l \in DelayLists : l \notin Priorities /\ l # SuspendL
    /\ DelayedL # DelayedOverflowL
BY KernelAssumption DEF Slots, StateLists, Priorities, DelayLists, DelayedL,
   DelayedOverflowL, SuspendL

-----------------------------------------------------------------------------
(* Lists and the containers of their items, well typed and in agreement.   *)
ListsOf(K, L, C) ==
    /\ L \in [K -> Seq(Slots)]
    /\ C \in [Slots -> K \cup {NULL}]
    /\ InExactlyOneList(L, C)

(* Removing an item keeps them so ... *)
LEMMA RemoveKeepsLists ==
    ASSUME NEW K, NULL \notin K,
           NEW L, NEW C, ListsOf(K, L, C), NEW t \in Slots, C[t] # NULL
    PROVE  ListsOf(K, [L EXCEPT ![C[t]] = rtos_list_remove(L[C[t]], t)],
                      [C EXCEPT ![t] = NULL])
<1> DEFINE L2 == [L EXCEPT ![C[t]] = rtos_list_remove(L[C[t]], t)]
           C2 == [C EXCEPT ![t] = NULL]
           l == C[t]
           r == rtos_list_remove(L[l], t)
<1>0. /\ L \in [K -> Seq(Slots)] /\ C \in [Slots -> K \cup {NULL}]
      /\ InExactlyOneList(L, C)
  BY DEF ListsOf
<1>1. l \in K /\ DOMAIN L = K /\ L[l] \in Seq(Slots)
  BY <1>0
<1>2. NoDuplicates(L[l]) /\ In(L[l], t)
  BY <1>0, <1>1 DEF InExactlyOneList
<1>3. /\ r \in Seq(Slots)
      /\ NoDuplicates(r)
      /\ \A u : In(r, u) <=> In(L[l], u) /\ u # t
  BY <1>1, <1>2, RemoveMembers
<1> HIDE DEF r
<1>4. L2 \in [K -> Seq(Slots)] /\ C2 \in [Slots -> K \cup {NULL}]
  BY <1>0, <1>1, <1>3 DEF r
<1>5. L2[l] = r /\ \A m \in K : m # l => L2[m] = L[m]
  BY <1>0, <1>1 DEF r
<1>6. C2[t] = NULL /\ \A u \in Slots : u # t => C2[u] = C[u]
  BY <1>0
<1>7. ASSUME NEW m \in K
      PROVE  /\ \A u \in Slots : C2[u] = m <=> In(L2[m], u)
             /\ NoDuplicates(L2[m])
  <2>1. /\ \A u \in Slots : C[u] = m <=> In(L[m], u)
        /\ NoDuplicates(L[m])
    BY <1>0, <1>1 DEF InExactlyOneList
  <2>2. CASE m = l
    BY <2>1, <2>2, <1>3, <1>5, <1>6
  <2>3. CASE m # l
    BY <2>1, <2>3, <1>5, <1>6
  <2> QED
    BY <2>2, <2>3
<1> QED
  BY <1>4, <1>7, <1>1 DEF InExactlyOneList, ListsOf

(* ... and inserting one at any place of a list. *)
LEMMA InsertKeepsLists ==
    ASSUME NEW K, NULL \notin K,
           NEW L, NEW C, ListsOf(K, L, C), NEW t \in Slots, C[t] = NULL,
           NEW l \in K, NEW i \in 1 .. Len(L[l]) + 1
    PROVE  /\ ListsOf(K, [L EXCEPT ![l] = InsertAt(L[l], i, t)], [C EXCEPT ![t] = l])
           /\ InsertAt(L[l], i, t) # <<>>
<1> DEFINE L2 == [L EXCEPT ![l] = InsertAt(L[l], i, t)]
           C2 == [C EXCEPT ![t] = l]
           r == InsertAt(L[l], i, t)
<1>0. /\ L \in [K -> Seq(Slots)] /\ C \in [Slots -> K \cup {NULL}]
      /\ InExactlyOneList(L, C)
  BY DEF ListsOf
<1>1. DOMAIN L = K /\ L[l] \in Seq(Slots)
  BY <1>0
<1>2. NoDuplicates(L[l]) /\ ~In(L[l], t)
  BY <1>0, <1>1 DEF InExactlyOneList
<1>3. /\ r \in Seq(Slots)
      /\ r # <<>>
      /\ NoDuplicates(r)
      /\ \A u : In(r, u) <=> In(L[l], u) \/ u = t
  BY <1>1, <1>2, InsertMembers
<1> HIDE DEF r
<1>4. L2 \in [K -> Seq(Slots)] /\ C2 \in [Slots -> K \cup {NULL}]
  BY <1>0, <1>1, <1>3 DEF r
<1>5. L2[l] = r /\ \A m \in K : m # l => L2[m] = L[m]
  BY <1>0, <1>1 DEF r
<1>6. C2[t] = l /\ \A u \in Slots : u # t => C2[u] = C[u]
  BY <1>0
<1>7. ASSUME NEW m \in K
      PROVE  /\ \A u \in Slots : C2[u] = m <=> In(L2[m], u)
             /\ NoDuplicates(L2[m])
  <2>1. /\ \A u \in Slots : C[u] = m <=> In(L[m], u)
        /\ NoDuplicates(L[m])
    BY <1>0, <1>1 DEF InExactlyOneList
  <2>2. CASE m = l
    BY <2>1, <2>2, <1>3, <1>5, <1>6
  <2>3. CASE m # l
    BY <2>1, <2>3, <1>5, <1>6
  <2> QED
    BY <2>2, <2>3
<1> QED
  BY <1>3, <1>4, <1>7 DEF InExactlyOneList, ListsOf, r

(* A list is empty exactly when no item names it as its container. *)
LEMMA EmptyList ==
    ASSUME NEW K, NEW L, NEW C, ListsOf(K, L, C), NEW l \in K
    PROVE  /\ L[l] = <<>> <=> \A t \in Slots : C[t] # l
           /\ L[l] # <<>> => Head(L[l]) \in Slots /\ C[Head(L[l])] = l /\ L[l][1] = Head(L[l])
<1>1. /\ \A t \in Slots : C[t] = l <=> In(L[l], t)
      /\ L[l] \in Seq(Slots)
  BY DEF InExactlyOneList, ListsOf
<1>2. Len(L[l]) \in Nat /\ DOMAIN L[l] = 1 .. Len(L[l])
  BY <1>1, LenProperties
<1>3. ASSUME L[l] # <<>> PROVE /\ Head(L[l]) \in Slots
                               /\ L[l][1] = Head(L[l])
                               /\ In(L[l], Head(L[l]))
  <2>1. Len(L[l]) # 0
    BY <1>1, <1>3, EmptySeq
  <2>2. 1 \in DOMAIN L[l]
    BY <2>1, <1>2
  <2>3. Head(L[l]) \in Slots /\ Head(L[l]) = L[l][1]
    BY <1>1, <1>3, <2>2
  <2> QED
    BY <2>2, <2>3 DEF In
<1>4. ASSUME L[l] = <<>>, NEW t \in Slots PROVE C[t] # l
  <2>1. DOMAIN L[l] = {}
    BY <1>4
  <2> QED
    BY <2>1, <1>1 DEF In
<1> QED
  BY <1>1, <1>3, <1>4
-----------------------------------------------------------------------------
(* The invariant of the kernel record, in parts.  The state lists and the  *)
(* ready bitmap:                                                           *)
ListsInv(k) ==
    /\ InExactlyOneList(k.state_l, k.state_c)
    /\ k.bitmap = {p \in Priorities : k.state_l[ReadyL(p)] # <<>>}
    /\ \A t \in Slots : k.state_c[t] \in Priorities => k.state_c[t] = ReadyL(k.eff[t])

(* only a blocked task is in a wait list; *)
EventInv(k) ==
    /\ InExactlyOneList(k.event_l, k.event_c)
    /\ \A t \in Slots : k.event_c[t] # NULL => k.state_c[t] \in DelayLists \cup {SuspendL}

(* slots are used in order, and of the created tasks only the running one  *)
(* is in no state list;                                                    *)
TasksInv(k) ==
    /\ k.created = 0 .. k.tsk_cnt - 1
    /\ \A t \in Slots : t \notin k.created => k.state_c[t] = NULL
    /\ \A t \in Slots : t \in k.created /\ k.state_c[t] = NULL => k.cur = t
    /\ k.cur \in Slots => k.cur \in k.created
    /\ k.eff[IDLE] = 0

(* the wait lists are in decreasing order of priority;                     *)
WaitInv(k) ==
    /\ \A w \in WaitLists : SortedDown(k.event_l[w], k.event_v)
    /\ \A t \in Slots : k.event_c[t] # NULL => k.event_v[t] = k.eff[t]

KInv(k) ==
    /\ k \in KernelType
    /\ ~k.failed
    /\ ListsInv(k)
    /\ EventInv(k)
    /\ WaitInv(k)
    /\ TasksInv(k)

(* the delay lists split the wake ticks at the current tick, which they    *)
(* may contain only while the tick handler is waking tasks.                *)
DelayInv(k, waking) ==
    /\ k.cur_delayed # k.next_delayed
    /\ \A l \in DelayLists : SortedBy(k.state_l[l], k.state_v)
    /\ \A t \in Slots :
          /\ k.state_c[t] = k.cur_delayed =>
                 k.state_v[t] > k.ticks \/ (waking /\ k.state_v[t] = k.ticks)
          /\ k.state_c[t] = k.next_delayed => k.state_v[t] < k.ticks

(* A task that is delayed or suspended. *)
Blocked(k, t) == k.state_c[t] \in DelayLists \cup {SuspendL}

(* Nothing changes for the tasks that wait: neither the wait lists nor who *)
(* is blocked, nor the priorities and wait reasons.                        *)
SameWaits(r, k) ==
    /\ r.event_l = k.event_l /\ r.event_c = k.event_c /\ r.event_v = k.event_v
    /\ r.priority = k.priority /\ r.eff = k.eff /\ r.held = k.held /\ r.reason = k.reason
    /\ r.created = k.created
    /\ \A t \in Slots : Blocked(k, t) \/ Blocked(r, t) => r.state_c[t] = k.state_c[t]

(* Fields the list operations leave alone. *)
SameScalars(r, k) ==
    /\ r.ticks = k.ticks
    /\ r.tsk_cnt = k.tsk_cnt
    /\ r.created = k.created
    /\ r.priority = k.priority
    /\ r.eff = k.eff
    /\ r.held = k.held
    /\ r.state_v = k.state_v
    /\ r.event_v = k.event_v
    /\ r.cur_delayed = k.cur_delayed
    /\ r.next_delayed = k.next_delayed
    /\ r.failed = k.failed

(* rtos_insert_ready_list of a task that is in no list. *)
LEMMA InsertReadyList ==
    ASSUME NEW k \in KernelType, ListsInv(k), NEW t \in Slots, k.state_c[t] = NULL,
           NEW r, r = rtos_insert_ready_list(k, t)
    PROVE  /\ r \in KernelType
           /\ ListsInv(r)
           /\ SameScalars(r, k)
           /\ r.cur = k.cur /\ r.reason = k.reason
           /\ r.event_l = k.event_l /\ r.event_c = k.event_c
           /\ r.state_c = [k.state_c EXCEPT ![t] = k.eff[t]]
           /\ \A l \in StateLists : l # k.eff[t] => r.state_l[l] = k.state_l[l]
           /\ r.bitmap = k.bitmap \cup {k.eff[t]}
<1> DEFINE p == k.eff[t]
           L2 == [k.state_l EXCEPT ![p] = rtos_list_insert_end(@, t)]
           C2 == [k.state_c EXCEPT ![t] = p]
<1>1. p \in Priorities /\ p \in StateLists
  BY KernelFacts DEF KernelType, Tasks
<1>2. r = [k EXCEPT !.state_l = L2, !.state_c = C2, !.bitmap = @ \cup {p}]
  BY DEF rtos_insert_ready_list, ReadyL, KernelType
<1>3. k.state_l \in [StateLists -> Seq(Slots)] /\ k.state_c \in [Slots -> StateLists \cup {NULL}]
  BY DEF KernelType
<1>4. PICK i \in 1 .. Len(k.state_l[p]) + 1 :
               L2 = [k.state_l EXCEPT ![p] = InsertAt(k.state_l[p], i, t)]
  BY <1>1, <1>3, InsertEndIsInsertAt
<1> HIDE DEF p, L2, C2
<1>5. /\ L2 \in [StateLists -> Seq(Slots)]
      /\ C2 \in [Slots -> StateLists \cup {NULL}]
      /\ InExactlyOneList(L2, C2)
      /\ L2[p] # <<>>
  <2>1. ListsOf(StateLists, k.state_l, k.state_c) /\ NULL \notin StateLists
    BY <1>3, KernelFacts DEF ListsInv, ListsOf
  <2> DEFINE M == [k.state_l EXCEPT ![p] = InsertAt(k.state_l[p], i, t)]
             D == [k.state_c EXCEPT ![t] = p]
  <2>2. ListsOf(StateLists, M, D) /\ InsertAt(k.state_l[p], i, t) # <<>>
    BY <2>1, <1>1, InsertKeepsLists
  <2>3. L2 = M /\ C2 = D /\ M[p] = InsertAt(k.state_l[p], i, t)
    BY <1>1, <1>3, <1>4 DEF C2
  <2> QED
    BY <2>2, <2>3 DEF ListsOf
<1>6. /\ r.state_l = L2 /\ r.state_c = C2 /\ r.bitmap = k.bitmap \cup {p}
      /\ SameScalars(r, k) /\ r.cur = k.cur /\ r.reason = k.reason
      /\ r.event_l = k.event_l /\ r.event_c = k.event_c
  BY <1>2 DEF KernelType, SameScalars
<1>7. r \in KernelType
  <2>1. k.bitmap \cup {p} \in SUBSET Priorities
    BY <1>1 DEF KernelType
  <2>2. L2 \in [StateLists -> Seq(Slots)] /\ C2 \in [Slots -> StateLists \cup {NULL}]
    BY <1>5
  <2> QED
    BY <2>1, <2>2, <1>2, ZenonT(60) DEF KernelType
<1>8. \A l \in StateLists : l # p => L2[l] = k.state_l[l]
  BY <1>3 DEF L2
<1>9. ListsInv(r)
  <2>1. r.bitmap = {q \in Priorities : L2[q] # <<>>}
    <3>1. \A q \in Priorities : q \in StateLists
      BY KernelFacts
    <3>2. k.bitmap = {q \in Priorities : k.state_l[q] # <<>>}
      BY DEF ListsInv, ReadyL
    <3> QED
      BY <3>1, <3>2, <1>1, <1>5, <1>6, <1>8
  <2>2. \A u \in Slots : C2[u] \in Priorities => C2[u] = r.eff[u]
    BY <1>3, <1>6 DEF ListsInv, ReadyL, C2, p, SameScalars
  <2> QED
    BY <2>1, <2>2, <1>5, <1>6 DEF ListsInv, ReadyL
<1> QED
  BY <1>6, <1>7, <1>8, <1>9 DEF p, C2
(* The typed parts of the record, for the lemmas on lists. *)
LEMMA TypedLists ==
    ASSUME NEW k \in KernelType, ListsInv(k)
    PROVE  /\ ListsOf(StateLists, k.state_l, k.state_c)
           /\ k.state_l \in [StateLists -> Seq(Slots)]
           /\ k.state_c \in [Slots -> StateLists \cup {NULL}]
           /\ k.eff \in [Tasks -> Priorities]
           /\ Slots \subseteq Tasks
           /\ k.bitmap = {p \in Priorities : k.state_l[p] # <<>>}
BY DEF KernelType, ListsInv, ListsOf, Tasks, ReadyL

LEMMA TypedWaitLists ==
    ASSUME NEW k \in KernelType, EventInv(k)
    PROVE  /\ ListsOf(WaitLists, k.event_l, k.event_c)
           /\ k.event_l \in [WaitLists -> Seq(Slots)]
           /\ k.event_c \in [Slots -> WaitLists \cup {NULL}]
           /\ k.event_v \in [Slots -> Nat]
           /\ k.eff \in [Tasks -> Nat]
           /\ Slots \subseteq Tasks
<1>1. Priorities \subseteq Nat
  BY KernelFacts DEF Priorities
<1>2. /\ k.event_l \in [WaitLists -> Seq(Slots)]
      /\ k.event_c \in [Slots -> WaitLists \cup {NULL}]
      /\ k.event_v \in [Slots -> Priorities] /\ k.eff \in [Tasks -> Priorities]
  BY DEF KernelType
<1> QED
  BY <1>1, <1>2 DEF EventInv, ListsOf, Tasks

(* StateRemove takes a task out of its list and touches nothing else. *)
LEMMA StateRemoveEffect ==
    ASSUME NEW k \in KernelType, ListsInv(k), NEW t \in Slots, k.state_c[t] # NULL,
           NEW r, r = StateRemove(k, t)
    PROVE  /\ r \in KernelType
           /\ InExactlyOneList(r.state_l, r.state_c)
           /\ SameScalars(r, k)
           /\ r.cur = k.cur /\ r.reason = k.reason /\ r.bitmap = k.bitmap
           /\ r.event_l = k.event_l /\ r.event_c = k.event_c
           /\ r.state_c = [k.state_c EXCEPT ![t] = NULL]
           /\ r.state_l[k.state_c[t]] = rtos_list_remove(k.state_l[k.state_c[t]], t)
           /\ \A l \in StateLists : l # k.state_c[t] => r.state_l[l] = k.state_l[l]
<1> DEFINE c == k.state_c[t]
           L2 == [k.state_l EXCEPT ![c] = rtos_list_remove(k.state_l[c], t)]
           C2 == [k.state_c EXCEPT ![t] = NULL]
<1>1. c \in StateLists /\ NULL \notin StateLists
  BY KernelFacts, TypedLists
<1>2. r = [k EXCEPT !.state_l = L2, !.state_c = C2]
  BY DEF StateRemove, KernelType
<1>3. ListsOf(StateLists, L2, C2)
  BY <1>1, TypedLists, RemoveKeepsLists
<1>4. L2[c] = rtos_list_remove(k.state_l[c], t) /\ \A l \in StateLists : l # c => L2[l] = k.state_l[l]
  BY <1>1, TypedLists
<1> HIDE DEF c, L2, C2
<1>5. /\ r.state_l = L2 /\ r.state_c = C2 /\ r.bitmap = k.bitmap
      /\ SameScalars(r, k) /\ r.cur = k.cur /\ r.reason = k.reason
      /\ r.event_l = k.event_l /\ r.event_c = k.event_c
  BY <1>2 DEF KernelType, SameScalars
<1>6. r \in KernelType
  <2>1. L2 \in [StateLists -> Seq(Slots)] /\ C2 \in [Slots -> StateLists \cup {NULL}]
    BY <1>3 DEF ListsOf
  <2> QED
    BY <2>1, <1>2, ZenonT(60) DEF KernelType
<1> QED
  BY <1>3, <1>4, <1>5, <1>6 DEF ListsOf, c, C2

(* EventRemove takes a task out of the wait list it is in. *)
LEMMA EventRemoveEffect ==
    ASSUME NEW k \in KernelType, InExactlyOneList(k.event_l, k.event_c),
           NEW t \in Slots, k.event_c[t] # NULL, NEW r, r = EventRemove(k, t)
    PROVE  /\ r \in KernelType
           /\ InExactlyOneList(r.event_l, r.event_c)
           /\ SameScalars(r, k)
           /\ r.cur = k.cur /\ r.reason = k.reason /\ r.bitmap = k.bitmap
           /\ r.state_l = k.state_l /\ r.state_c = k.state_c
           /\ r.event_c = [k.event_c EXCEPT ![t] = NULL]
           /\ \A w \in WaitLists :
                 r.event_l[w] = IF w = k.event_c[t] THEN rtos_list_remove(k.event_l[w], t)
                                ELSE k.event_l[w]
<1> DEFINE c == k.event_c[t]
           L2 == [k.event_l EXCEPT ![c] = rtos_list_remove(k.event_l[c], t)]
           C2 == [k.event_c EXCEPT ![t] = NULL]
<1>1. /\ ListsOf(WaitLists, k.event_l, k.event_c)
      /\ c \in WaitLists /\ NULL \notin WaitLists
  BY KernelFacts DEF KernelType, ListsOf
<1>2. r = [k EXCEPT !.event_l = L2, !.event_c = C2]
  BY DEF EventRemove, KernelType
<1>3. ListsOf(WaitLists, L2, C2)
  BY <1>1, RemoveKeepsLists
<1>4. \A w \in WaitLists : L2[w] = IF w = c THEN rtos_list_remove(k.event_l[w], t)
                                  ELSE k.event_l[w]
  BY <1>1 DEF ListsOf
<1> HIDE DEF c, L2, C2
<1>5. /\ r.event_l = L2 /\ r.event_c = C2 /\ r.bitmap = k.bitmap
      /\ SameScalars(r, k) /\ r.cur = k.cur /\ r.reason = k.reason
      /\ r.state_l = k.state_l /\ r.state_c = k.state_c
  BY <1>2 DEF KernelType, SameScalars
<1>6. r \in KernelType
  <2>1. L2 \in [WaitLists -> Seq(Slots)] /\ C2 \in [Slots -> WaitLists \cup {NULL}]
    BY <1>3 DEF ListsOf
  <2> QED
    BY <2>1, <1>2, ZenonT(60) DEF KernelType
<1> QED
  BY <1>3, <1>4, <1>5, <1>6 DEF ListsOf, c, C2

(* t is moved from its lists to the ready list of its priority. *)
Unblocked(r, k, t, reason) ==
    /\ KInv(r)
    /\ SameScalars(r, k)
    /\ r.cur = k.cur
    /\ r.reason = [k.reason EXCEPT ![t] = reason]
    /\ r.bitmap = k.bitmap \cup {k.eff[t]}
    /\ r.state_c = [k.state_c EXCEPT ![t] = k.eff[t]]
    /\ r.state_l[k.state_c[t]] = rtos_list_remove(k.state_l[k.state_c[t]], t)
    /\ \A l \in StateLists \ Priorities :
          l # k.state_c[t] => r.state_l[l] = k.state_l[l]
    /\ r.event_c = [k.event_c EXCEPT ![t] = NULL]
    /\ \A w \in WaitLists :
          r.event_l[w] = IF w = k.event_c[t] THEN rtos_list_remove(k.event_l[w], t)
                         ELSE k.event_l[w]

(* rtos_unblock_task moves a blocked task to the end of the ready list of  *)
(* its priority, and out of the wait list it was in; its assertion holds.  *)
LEMMA UnblockEffect ==
    ASSUME NEW k, KInv(k), NEW t \in Slots,
           Blocked(k, t), NEW reason \in WaitReasons,
           NEW r, r = rtos_unblock_task(k, t, reason)
    PROVE  Unblocked(r, k, t, reason)
<1>k. k \in KernelType /\ ListsInv(k) /\ EventInv(k) /\ WaitInv(k) /\ TasksInv(k) /\ ~k.failed
  BY DEF KInv
<1> DEFINE c == k.state_c[t]
           k1 == StateRemove(k, t)
           k2 == IF k.event_c[t] # NULL THEN EventRemove(k1, t) ELSE k1
           k3 == rtos_insert_ready_list(k2, t)
<1>0. c \in StateLists /\ c \notin Priorities /\ c # NULL
  BY KernelFacts DEF Blocked
<1>1. /\ k1 \in KernelType
      /\ InExactlyOneList(k1.state_l, k1.state_c)
      /\ SameScalars(k1, k)
      /\ k1.cur = k.cur /\ k1.reason = k.reason /\ k1.bitmap = k.bitmap
      /\ k1.event_l = k.event_l /\ k1.event_c = k.event_c
      /\ k1.state_c = [k.state_c EXCEPT ![t] = NULL]
      /\ k1.state_l[c] = rtos_list_remove(k.state_l[c], t)
      /\ \A l \in StateLists : l # c => k1.state_l[l] = k.state_l[l]
  BY <1>0, <1>k, StateRemoveEffect
<1> HIDE DEF k1
<1>2. ListsInv(k1)
  <2>1. \A p \in Priorities : p \in StateLists /\ p # c
    BY <1>0, KernelFacts
  <2>2. k1.bitmap = {p \in Priorities : k1.state_l[p] # <<>>}
    BY <2>1, <1>1, <1>k, TypedLists
  <2>3. \A u \in Slots : k1.state_c[u] \in Priorities => k1.state_c[u] = k1.eff[u]
    BY <1>1, <1>k, TypedLists, KernelFacts DEF ListsInv, SameScalars, ReadyL
  <2> QED
    BY <2>2, <2>3, <1>1 DEF ListsInv, ReadyL
<1>3. /\ k2 \in KernelType
      /\ InExactlyOneList(k2.event_l, k2.event_c)
      /\ SameScalars(k2, k)
      /\ k2.cur = k.cur /\ k2.bitmap = k.bitmap /\ k2.reason = k.reason
      /\ k2.state_l = k1.state_l /\ k2.state_c = k1.state_c
      /\ k2.event_c = [k.event_c EXCEPT ![t] = NULL]
      /\ \A w \in WaitLists :
            k2.event_l[w] = IF w = k.event_c[t] THEN rtos_list_remove(k.event_l[w], t)
                            ELSE k.event_l[w]
  <2>1. InExactlyOneList(k1.event_l, k1.event_c)
    BY <1>1, <1>k DEF EventInv
  <2>2. CASE k.event_c[t] # NULL
    <3>1. k2 = EventRemove(k1, t) /\ k1.event_c[t] # NULL
      BY <2>2, <1>1
    <3> HIDE DEF k2
    <3>2. /\ k2 \in KernelType
          /\ InExactlyOneList(k2.event_l, k2.event_c)
          /\ SameScalars(k2, k1)
          /\ k2.cur = k1.cur /\ k2.bitmap = k1.bitmap /\ k2.reason = k1.reason
          /\ k2.state_l = k1.state_l /\ k2.state_c = k1.state_c
          /\ k2.event_c = [k1.event_c EXCEPT ![t] = NULL]
          /\ \A w \in WaitLists :
                k2.event_l[w] = IF w = k1.event_c[t] THEN rtos_list_remove(k1.event_l[w], t)
                                ELSE k1.event_l[w]
      BY <3>1, <2>1, <1>1, EventRemoveEffect
    <3> QED
      BY <3>2, <1>1 DEF SameScalars
  <2>3. CASE k.event_c[t] = NULL
    <3>1. k2 = k1
      BY <2>3
    <3> HIDE DEF k2
    <3>2. k.event_c = [k.event_c EXCEPT ![t] = NULL]
      BY <2>3, <1>k DEF KernelType
    <3> QED
      BY <3>1, <3>2, <2>1, <2>3, <1>1, KernelFacts
  <2> QED
    BY <2>2, <2>3
<1> HIDE DEF k2
<1>4. ListsInv(k2) /\ k2.state_c[t] = NULL
  <2>1. k2.eff = k1.eff /\ k2.bitmap = k1.bitmap
    BY <1>1, <1>3 DEF SameScalars
  <2>2. ListsInv(k2)
    BY <2>1, <1>2, <1>3 DEF ListsInv
  <2> QED
    BY <2>2, <1>1, <1>3, <1>k, TypedLists
<1>5. /\ k3 \in KernelType
      /\ ListsInv(k3)
      /\ SameScalars(k3, k2)
      /\ k3.cur = k2.cur /\ k3.reason = k2.reason
      /\ k3.event_l = k2.event_l /\ k3.event_c = k2.event_c
      /\ k3.state_c = [k2.state_c EXCEPT ![t] = k2.eff[t]]
      /\ \A l \in StateLists : l # k2.eff[t] => k3.state_l[l] = k2.state_l[l]
      /\ k3.bitmap = k2.bitmap \cup {k2.eff[t]}
  BY <1>3, <1>4, InsertReadyList
<1> HIDE DEF k3
<1>6. r = [k3 EXCEPT !.reason = [k3.reason EXCEPT ![t] = reason]]
  BY <1>5 DEF rtos_unblock_task, Blocked, k1, k2, k3, KernelType
<1>7. /\ r \in KernelType
      /\ SameScalars(r, k3) /\ r.cur = k3.cur /\ r.bitmap = k3.bitmap
      /\ r.event_l = k3.event_l /\ r.event_c = k3.event_c
      /\ r.state_l = k3.state_l /\ r.state_c = k3.state_c
      /\ r.reason = [k3.reason EXCEPT ![t] = reason]
  <2> DEFINE R == [k3.reason EXCEPT ![t] = reason]
  <2>1. k3 \in KernelType /\ R \in [Tasks -> WaitReasons]
    BY <1>5 DEF KernelType
  <2>2. r = [k3 EXCEPT !.reason = R]
    BY <1>6
  <2> HIDE DEF R
  <2>3. r \in KernelType
    BY <2>1, <2>2 DEF KernelType
  <2>4. SameScalars(r, k3)
    BY <2>1, <2>2 DEF KernelType, SameScalars
  <2>5. r.reason = R
    BY <2>1, <2>2 DEF KernelType
  <2> QED
    BY <2>1, <2>2, <2>3, <2>4, <2>5 DEF KernelType, R
<1>8. k2.eff = k.eff /\ k.eff[t] \in Priorities
  BY <1>3, <1>k, TypedLists DEF SameScalars
<1>9. r.state_c = [k.state_c EXCEPT ![t] = k.eff[t]]
  BY <1>1, <1>3, <1>5, <1>7, <1>8, <1>k, TypedLists
<1>10. ListsInv(r)
  BY <1>5, <1>7 DEF ListsInv, SameScalars
<1>11. EventInv(r)
  <2>1. \A u \in Slots : r.event_c[u] # NULL => r.state_c[u] \in DelayLists \cup {SuspendL}
    BY <1>3, <1>5, <1>7, <1>9, <1>k, TypedLists DEF EventInv, KernelType
  <2> QED
    BY <2>1, <1>3, <1>5, <1>7 DEF EventInv
<1>12. SameScalars(r, k)
  BY <1>3, <1>5, <1>7 DEF SameScalars
<1>13. \A l \in StateLists \ Priorities : r.state_l[l] = k1.state_l[l]
  BY <1>3, <1>5, <1>7, <1>8
<1>14. /\ r.event_c = [k.event_c EXCEPT ![t] = NULL]
       /\ \A w \in WaitLists :
             r.event_l[w] = IF w = k.event_c[t] THEN rtos_list_remove(k.event_l[w], t)
                            ELSE k.event_l[w]
       /\ r.reason = [k.reason EXCEPT ![t] = reason]
  BY <1>3, <1>5, <1>7
<1>15. WaitInv(r)
  <2>1. r.event_v = k.event_v /\ r.eff = k.eff
    BY <1>12 DEF SameScalars
  <2>2. \A u \in Slots : r.event_c[u] # NULL => r.event_v[u] = r.eff[u]
    BY <2>1, <1>14, <1>k DEF WaitInv, KernelType
  <2>3. ASSUME NEW w \in WaitLists PROVE SortedDown(r.event_l[w], r.event_v)
    <3>1. SortedDown(k.event_l[w], k.event_v) /\ k.event_l[w] \in Seq(Slots)
      BY <1>k, TypedWaitLists DEF WaitInv
    <3>2. CASE w = k.event_c[t]
      <4>1. In(k.event_l[w], t)
        BY <3>2, <1>k, TypedWaitLists DEF EventInv, InExactlyOneList
      <4> QED
        BY <4>1, <3>1, <3>2, <2>1, <1>14, RemoveOrder
    <3>3. CASE w # k.event_c[t]
      BY <3>1, <3>3, <2>1, <1>14
    <3> QED
      BY <3>2, <3>3
  <2> QED
    BY <2>2, <2>3 DEF WaitInv
<1>16. TasksInv(r)
  <2>1. r.created = k.created /\ r.tsk_cnt = k.tsk_cnt /\ r.eff = k.eff /\ r.cur = k.cur
    BY <1>3, <1>5, <1>7, <1>12 DEF SameScalars
  <2>2. t \in k.created /\ k.eff[t] # NULL
    BY <1>0, <1>8, <1>k, KernelFacts DEF TasksInv
  <2>3. r.state_c[t] = k.eff[t] /\ \A u \in Slots : u # t => r.state_c[u] = k.state_c[u]
    BY <1>9, <1>k, TypedLists
  <2> QED
    BY <2>1, <2>2, <2>3, <1>k DEF TasksInv
<1>17. KInv(r)
  BY <1>7, <1>10, <1>11, <1>12, <1>15, <1>16, <1>k DEF KInv, SameScalars
<1> QED
  BY <1>0, <1>1, <1>3, <1>5, <1>7, <1>8, <1>9, <1>12, <1>13, <1>14, <1>17 DEF Unblocked

(* The delay lists stay sorted and split when a task leaves them. *)
LEMMA UnblockDelays ==
    ASSUME NEW k, KInv(k), NEW waking \in BOOLEAN, DelayInv(k, waking), NEW t \in Slots,
           Blocked(k, t), NEW reason, NEW r, Unblocked(r, k, t, reason)
    PROVE  DelayInv(r, waking)
<1>1. k \in KernelType /\ ListsInv(k)
  BY DEF KInv
<1>2. /\ SameScalars(r, k)
      /\ r.state_c = [k.state_c EXCEPT ![t] = k.eff[t]]
      /\ r.state_l[k.state_c[t]] = rtos_list_remove(k.state_l[k.state_c[t]], t)
      /\ \A l \in StateLists \ Priorities : l # k.state_c[t] => r.state_l[l] = k.state_l[l]
  BY DEF Unblocked
<1>3. k.cur_delayed \in DelayLists /\ k.next_delayed \in DelayLists
  BY <1>1 DEF KernelType
<1>4. k.eff[t] \in Priorities /\ k.eff[t] \notin DelayLists
  BY <1>1, TypedLists, KernelFacts
<1>5. r.state_c[t] = k.eff[t] /\ \A u \in Slots : u # t => r.state_c[u] = k.state_c[u]
  BY <1>1, <1>2, TypedLists
<1>6. ASSUME NEW l \in DelayLists PROVE SortedBy(r.state_l[l], k.state_v)
  <2>1. SortedBy(k.state_l[l], k.state_v) /\ l \in StateLists /\ l \notin Priorities
    BY KernelFacts DEF DelayInv
  <2>2. CASE l = k.state_c[t]
    <3>1. In(k.state_l[l], t) /\ k.state_l[l] \in Seq(Slots)
      BY <2>1, <2>2, <1>1, TypedLists DEF ListsInv, InExactlyOneList
    <3> QED
      BY <3>1, <2>1, <2>2, <1>2, RemoveSorted
  <2>3. CASE l # k.state_c[t]
    BY <2>1, <2>3, <1>2
  <2> QED
    BY <2>2, <2>3
<1>7. /\ r.ticks = k.ticks /\ r.state_v = k.state_v
      /\ r.cur_delayed = k.cur_delayed /\ r.next_delayed = k.next_delayed
  BY <1>2 DEF SameScalars
<1> QED
  BY <1>3, <1>4, <1>5, <1>6, <1>7 DEF DelayInv

(* rtos_get_highest_prio_task finds a task when the bitmap is not empty:   *)
(* its assertions hold, and the task it picks has the highest priority of  *)
(* all that are ready.                                                     *)
LEMMA GetHighestEffect ==
    ASSUME NEW k \in KernelType, ListsInv(k), k.bitmap # {},
           NEW r, r = rtos_get_highest_prio_task(k)
    PROVE  /\ r \in KernelType
           /\ ListsInv(r)
           /\ SameScalars(r, k)
           /\ r.event_l = k.event_l /\ r.event_c = k.event_c /\ r.reason = k.reason
           /\ r.cur \in Slots
           /\ k.state_c[r.cur] \in Priorities
           /\ r.state_c = [k.state_c EXCEPT ![r.cur] = NULL]
           /\ \A l \in StateLists \ Priorities : r.state_l[l] = k.state_l[l]
           /\ r.bitmap \subseteq k.bitmap
           /\ \A p \in k.bitmap : p <= k.eff[r.cur]
<1> DEFINE p == Max(k.bitmap)
           t == Head(k.state_l[p])
           k1 == StateRemove(k, t)
           k2 == ClearReadyBit(k1, p)
<1>1. p \in k.bitmap /\ (\A q \in k.bitmap : q <= p) /\ p \in Priorities /\ p \in StateLists
  <2>1. PriorityCount - 1 \in Nat /\ k.bitmap \in SUBSET (0 .. PriorityCount - 1)
    BY KernelFacts DEF KernelType, Priorities
  <2>2. p \in k.bitmap /\ \A q \in k.bitmap : q <= p
    BY <2>1, MaxOfBounded
  <2> QED
    BY <2>1, <2>2, KernelFacts DEF Priorities
<1>2. ListsOf(StateLists, k.state_l, k.state_c) /\ k.state_l[p] # <<>>
  BY <1>1, TypedLists
<1> HIDE DEF p
<1>3. t \in Slots /\ k.state_c[t] = p
  BY <1>1, <1>2, EmptyList
<1>4. k.eff[t] = p /\ k.state_c[t] # NULL
  BY <1>1, <1>3, KernelFacts DEF ListsInv, ReadyL
<1>5. r = [k2 EXCEPT !.cur = t]
  BY <1>2, <1>3, <1>4 DEF rtos_get_highest_prio_task, ReadyL, p
<1> HIDE DEF t
<1>6. /\ k1 \in KernelType
      /\ InExactlyOneList(k1.state_l, k1.state_c)
      /\ SameScalars(k1, k)
      /\ k1.bitmap = k.bitmap
      /\ k1.event_l = k.event_l /\ k1.event_c = k.event_c /\ k1.reason = k.reason
      /\ k1.state_c = [k.state_c EXCEPT ![t] = NULL]
      /\ \A l \in StateLists : l # p => k1.state_l[l] = k.state_l[l]
  BY <1>3, <1>4, StateRemoveEffect
<1> HIDE DEF k1
<1> DEFINE b == IF k1.state_l[p] = <<>> THEN k.bitmap \ {p} ELSE k.bitmap
<1>7. b \in SUBSET Priorities /\ b \subseteq k.bitmap /\ t \in Tasks \cup {NULL}
  BY <1>3, TypedLists
<1>8. r = [k1 EXCEPT !.bitmap = b, !.cur = t]
  BY <1>5, <1>6 DEF ClearReadyBit, ReadyL, KernelType
<1> HIDE DEF k2
<1>9. b = {q \in Priorities : k1.state_l[q] # <<>>}
  <2>1. k.bitmap = {q \in Priorities : k.state_l[q] # <<>>} /\ Priorities \subseteq StateLists
    BY TypedLists, KernelFacts
  <2> QED
    BY <2>1, <1>1, <1>6
<1> HIDE DEF b
<1>10. r \in KernelType
  BY <1>6, <1>7, <1>8, ZenonT(60) DEF KernelType
<1>11. /\ r.cur = t /\ r.bitmap = b
       /\ r.state_l = k1.state_l /\ r.state_c = k1.state_c
       /\ r.event_l = k1.event_l /\ r.event_c = k1.event_c /\ r.reason = k1.reason
  BY <1>6, <1>8 DEF KernelType
<1>12. SameScalars(r, k)
  BY <1>6, <1>8 DEF KernelType, SameScalars
<1>13. \A u \in Slots : r.state_c[u] \in Priorities => r.state_c[u] = r.eff[u]
  BY <1>6, <1>11, <1>12, TypedLists, KernelFacts DEF ListsInv, SameScalars, ReadyL
<1>14. ListsInv(r)
  BY <1>6, <1>9, <1>11, <1>13 DEF ListsInv, ReadyL
<1>15. \A l \in StateLists \ Priorities : r.state_l[l] = k.state_l[l]
  BY <1>1, <1>6, <1>11
<1> QED
  BY <1>1, <1>3, <1>4, <1>6, <1>7, <1>10, <1>11, <1>12, <1>14, <1>15

(* rtos_scheduler_switch_context puts a preempted task back into its ready *)
(* list and runs a task of the highest priority, or the idle task when no  *)
(* task is ready.                                                          *)
LEMMA SwitchContextEffect ==
    ASSUME NEW k \in KernelType, ListsInv(k), k.cur # NULL,
           NEW r, r = rtos_scheduler_switch_context(k)
    PROVE  /\ r \in KernelType
           /\ ListsInv(r)
           /\ SameScalars(r, k)
           /\ r.event_l = k.event_l /\ r.event_c = k.event_c /\ r.reason = k.reason
           /\ r.cur \in Slots => /\ r.cur = k.cur \/ k.state_c[r.cur] \in Priorities
                                 /\ r.state_c[r.cur] = NULL
                                 /\ \A p \in r.bitmap : p <= r.eff[r.cur]
           /\ r.cur \in Slots \cup {IDLE}
           /\ r.cur = IDLE => r.bitmap = {}
           /\ \A t \in Slots : r.state_c[t] = NULL =>
                 t = r.cur \/ (k.state_c[t] = NULL /\ t # k.cur)
           /\ \A t \in Slots : r.state_c[t] # k.state_c[t] =>
                 k.state_c[t] \in Priorities \cup {NULL} /\ r.state_c[t] \in Priorities \cup {NULL}
           /\ \A t \in Slots : k.state_c[t] = NULL /\ t # k.cur => r.state_c[t] = NULL
           /\ \A l \in StateLists \ Priorities : r.state_l[l] = k.state_l[l]
<1> DEFINE k1 == IF k.cur # IDLE /\ k.state_c[k.cur] = NULL
                 THEN rtos_insert_ready_list(k, k.cur)
                 ELSE k
<1>1. k.cur \in Slots \cup {IDLE}
  BY DEF KernelType, Tasks
<1>2. /\ k1 \in KernelType
      /\ ListsInv(k1)
      /\ SameScalars(k1, k)
      /\ k1.event_l = k.event_l /\ k1.event_c = k.event_c /\ k1.reason = k.reason
      /\ \A l \in StateLists \ Priorities : k1.state_l[l] = k.state_l[l]
      /\ k.cur \in Slots => k1.state_c[k.cur] # NULL
      /\ k.cur \in Slots /\ k.state_c[k.cur] # NULL => k1.state_c[k.cur] = k.state_c[k.cur]
      /\ k.cur \in Slots /\ k.state_c[k.cur] = NULL => k1.state_c[k.cur] \in Priorities
      /\ \A t \in Slots : t # k.cur => k1.state_c[t] = k.state_c[t]
  <2>1. CASE k.cur # IDLE /\ k.state_c[k.cur] = NULL
    <3>1. k.cur \in Slots /\ k1 = rtos_insert_ready_list(k, k.cur)
      BY <2>1, <1>1
    <3> HIDE DEF k1
    <3>2. /\ k1 \in KernelType
          /\ ListsInv(k1)
          /\ SameScalars(k1, k)
          /\ k1.event_l = k.event_l /\ k1.event_c = k.event_c /\ k1.reason = k.reason
          /\ k1.state_c = [k.state_c EXCEPT ![k.cur] = k.eff[k.cur]]
          /\ \A l \in StateLists : l # k.eff[k.cur] => k1.state_l[l] = k.state_l[l]
      BY <3>1, <2>1, InsertReadyList, SMTT(30)
    <3>3. k.eff[k.cur] \in Priorities /\ k.eff[k.cur] # NULL
      BY <3>1, TypedLists, KernelFacts
    <3> QED
      BY <3>1, <3>2, <3>3, <2>1, TypedLists
  <2>2. CASE ~(k.cur # IDLE /\ k.state_c[k.cur] = NULL)
    <3>1. k1 = k
      BY <2>2
    <3> QED
      BY <3>1, <2>2, KernelFacts DEF SameScalars
  <2> QED
    BY <2>1, <2>2
<1> HIDE DEF k1
<1>3. k1.bitmap \subseteq Priorities /\ \A p \in Priorities : p >= 0
  BY <1>2, KernelFacts DEF KernelType, Priorities
<1>4. r = IF k1.bitmap # {} THEN rtos_get_highest_prio_task(k1) ELSE [k1 EXCEPT !.cur = IDLE]
  <2>1. rtos_check_runnable_task(k1, NULL) <=> k1.bitmap # {}
    BY <1>3 DEF rtos_check_runnable_task
  <2> QED
    BY <2>1 DEF rtos_scheduler_switch_context, k1
<1>5. CASE k1.bitmap # {}
  <2>1. /\ r \in KernelType
        /\ ListsInv(r)
        /\ SameScalars(r, k1)
        /\ r.event_l = k1.event_l /\ r.event_c = k1.event_c /\ r.reason = k1.reason
        /\ r.cur \in Slots
        /\ k1.state_c[r.cur] \in Priorities
        /\ r.state_c = [k1.state_c EXCEPT ![r.cur] = NULL]
        /\ \A l \in StateLists \ Priorities : r.state_l[l] = k1.state_l[l]
        /\ r.bitmap \subseteq k1.bitmap
        /\ \A p \in k1.bitmap : p <= k1.eff[r.cur]
    BY <1>2, <1>4, <1>5, GetHighestEffect
  <2>2. SameScalars(r, k) /\ r.eff = k1.eff
    BY <2>1, <1>2 DEF SameScalars
  <2>3. k1.state_c \in [Slots -> StateLists \cup {NULL}] /\ IDLE \notin Slots
    BY <1>2, TypedLists, KernelFacts
  <2>4. \A t \in Slots : r.state_c[t] # k.state_c[t] =>
                 k.state_c[t] \in Priorities \cup {NULL} /\ r.state_c[t] \in Priorities \cup {NULL}
    BY <2>1, <2>3, <1>2
  <2>5. \A t \in Slots : r.state_c[t] = NULL =>
                 t = r.cur \/ (k.state_c[t] = NULL /\ t # k.cur)
    BY <2>1, <2>3, <1>2
  <2>6. \A t \in Slots : k.state_c[t] = NULL /\ t # k.cur => r.state_c[t] = NULL
    BY <2>1, <2>3, <1>2
  <2> QED
    BY <2>1, <2>2, <2>3, <2>4, <2>5, <2>6, <1>2
<1>6. CASE k1.bitmap = {}
  <2>1. r = [k1 EXCEPT !.cur = IDLE]
    BY <1>4, <1>6
  <2>2. r \in KernelType
    BY <2>1, <1>2 DEF KernelType, Tasks
  <2>3. /\ r.cur = IDLE /\ r.bitmap = {}
        /\ r.state_l = k1.state_l /\ r.state_c = k1.state_c
        /\ r.event_l = k1.event_l /\ r.event_c = k1.event_c /\ r.reason = k1.reason
    BY <2>1, <1>2, <1>6 DEF KernelType
  <2>4. SameScalars(r, k)
    BY <2>1, <1>2 DEF KernelType, SameScalars
  <2>5. ListsInv(r)
    BY <2>3, <2>4, <1>2, <1>6 DEF ListsInv, SameScalars
  <2>6. IDLE \notin Slots
    BY KernelFacts
  <2>7. \A t \in Slots : r.state_c[t] # k.state_c[t] =>
                 k.state_c[t] \in Priorities \cup {NULL} /\ r.state_c[t] \in Priorities \cup {NULL}
    BY <2>3, <1>2
  <2>8. \A t \in Slots : r.state_c[t] = NULL => (k.state_c[t] = NULL /\ t # k.cur)
    BY <2>3, <1>2
  <2>9. \A t \in Slots : k.state_c[t] = NULL /\ t # k.cur => r.state_c[t] = NULL
    BY <2>3, <1>2
  <2> QED
    BY <2>2, <2>3, <2>4, <2>5, <2>6, <2>7, <2>8, <2>9, <1>2
<1> QED
  BY <1>5, <1>6
-----------------------------------------------------------------------------
(* Wake ticks.  What leaves the delay lists and their wake ticks alone     *)
(* keeps them split.                                                       *)
LEMMA DelayFrame ==
    ASSUME NEW k \in KernelType, NEW r, NEW waking \in BOOLEAN, DelayInv(k, waking),
           r.ticks = k.ticks, r.state_v = k.state_v,
           r.cur_delayed = k.cur_delayed, r.next_delayed = k.next_delayed,
           \A l \in DelayLists : r.state_l[l] = k.state_l[l],
           \A t \in Slots : r.state_c[t] \in DelayLists => r.state_c[t] = k.state_c[t]
    PROVE  DelayInv(r, waking)
<1>1. k.cur_delayed \in DelayLists /\ k.next_delayed \in DelayLists
  BY DEF KernelType
<1> QED
  BY <1>1 DEF DelayInv

(* What moves tasks only between the ready lists and the CPU keeps the     *)
(* invariant and changes nothing for the tasks that wait.                  *)
LEMMA SwitchKeeps ==
    ASSUME NEW k, KInv(k), NEW waking \in BOOLEAN, DelayInv(k, waking), NEW r,
           r \in KernelType, ListsInv(r), SameScalars(r, k),
           r.event_l = k.event_l, r.event_c = k.event_c, r.reason = k.reason,
           \A l \in StateLists \ Priorities : r.state_l[l] = k.state_l[l],
           \A t \in Slots : r.state_c[t] # k.state_c[t] =>
                 k.state_c[t] \in Priorities \cup {NULL} /\ r.state_c[t] \in Priorities \cup {NULL},
           TasksInv(r)
    PROVE  KInv(r) /\ DelayInv(r, waking) /\ SameWaits(r, k)
<1>1. k \in KernelType /\ ListsInv(k) /\ EventInv(k) /\ WaitInv(k) /\ ~k.failed
  BY DEF KInv
<1>2. \A t \in Slots : Blocked(k, t) \/ Blocked(r, t) => r.state_c[t] = k.state_c[t]
  BY KernelFacts DEF Blocked
<1>3. /\ r.event_v = k.event_v /\ r.eff = k.eff /\ r.failed = k.failed
      /\ r.ticks = k.ticks /\ r.state_v = k.state_v
      /\ r.cur_delayed = k.cur_delayed /\ r.next_delayed = k.next_delayed
      /\ r.priority = k.priority /\ r.held = k.held /\ r.created = k.created
  BY DEF SameScalars
<1>4. EventInv(r)
  BY <1>1, <1>2 DEF EventInv, Blocked
<1>5. WaitInv(r)
  BY <1>1, <1>3 DEF WaitInv
<1>6. DelayInv(r, waking)
  <2>1. \A l \in DelayLists : r.state_l[l] = k.state_l[l]
    BY KernelFacts
  <2>2. \A t \in Slots : r.state_c[t] \in DelayLists => r.state_c[t] = k.state_c[t]
    BY <1>2 DEF Blocked
  <2> QED
    BY <2>1, <2>2, <1>1, <1>3, DelayFrame
<1> QED
  BY <1>1, <1>2, <1>3, <1>4, <1>5, <1>6 DEF KInv, SameWaits

(* The context switch: nothing changes for the tasks that wait, and the    *)
(* task that runs next has the highest priority of all that are ready.     *)
Switched(r, k) ==
    /\ KInv(r)
    /\ SameWaits(r, k)
    /\ r.cur \in Slots => /\ r.state_c[r.cur] = NULL
                          /\ \A p \in r.bitmap : p <= r.eff[r.cur]
    /\ r.cur \in Slots \cup {IDLE}
    /\ r.cur = IDLE => r.bitmap = {}

LEMMA SwitchContextKeeps ==
    ASSUME NEW k, KInv(k), NEW waking \in BOOLEAN, DelayInv(k, waking), k.cur # NULL,
           NEW r, r = rtos_scheduler_switch_context(k)
    PROVE  Switched(r, k) /\ DelayInv(r, waking)
<1>1. k \in KernelType /\ ListsInv(k) /\ TasksInv(k)
  BY DEF KInv
<1>2. /\ r \in KernelType
      /\ ListsInv(r)
      /\ SameScalars(r, k)
      /\ r.event_l = k.event_l /\ r.event_c = k.event_c /\ r.reason = k.reason
      /\ r.cur \in Slots => /\ r.cur = k.cur \/ k.state_c[r.cur] \in Priorities
                            /\ r.state_c[r.cur] = NULL
                            /\ \A p \in r.bitmap : p <= r.eff[r.cur]
      /\ r.cur \in Slots \cup {IDLE}
      /\ r.cur = IDLE => r.bitmap = {}
      /\ \A t \in Slots : r.state_c[t] = NULL =>
            t = r.cur \/ (k.state_c[t] = NULL /\ t # k.cur)
      /\ \A t \in Slots : r.state_c[t] # k.state_c[t] =>
            k.state_c[t] \in Priorities \cup {NULL} /\ r.state_c[t] \in Priorities \cup {NULL}
      /\ \A t \in Slots : k.state_c[t] = NULL /\ t # k.cur => r.state_c[t] = NULL
      /\ \A l \in StateLists \ Priorities : r.state_l[l] = k.state_l[l]
  BY <1>1, SwitchContextEffect
<1>3. TasksInv(r)
  <2>1. r.created = k.created /\ r.tsk_cnt = k.tsk_cnt /\ r.eff = k.eff
    BY <1>2 DEF SameScalars
  <2>2. \A t \in Slots : t \notin k.created => r.state_c[t] = NULL
    BY <1>1, <1>2 DEF TasksInv
  <2>3. \A t \in Slots : t \in k.created /\ r.state_c[t] = NULL => r.cur = t
    BY <1>1, <1>2 DEF TasksInv
  <2>4. r.cur \in Slots => r.cur \in k.created
    BY <1>1, <1>2, KernelFacts DEF TasksInv
  <2> QED
    BY <2>1, <2>2, <2>3, <2>4, <1>1 DEF TasksInv
<1>4. KInv(r) /\ DelayInv(r, waking) /\ SameWaits(r, k)
  BY <1>2, <1>3, SwitchKeeps
<1> QED
  BY <1>2, <1>4 DEF Switched

(* The first task is chosen the same way. *)
LEMMA StartKeeps ==
    ASSUME NEW k, KInv(k), NEW waking \in BOOLEAN, DelayInv(k, waking), k.cur = NULL,
           k.bitmap # {}, NEW r, r = rtos_scheduler_start(k)
    PROVE  Switched(r, k) /\ DelayInv(r, waking) /\ r.cur \in Slots
<1>1. k \in KernelType /\ ListsInv(k) /\ TasksInv(k)
  BY DEF KInv
<1>2. r = rtos_get_highest_prio_task(k)
  <2>1. k.bitmap \subseteq Priorities /\ \A p \in Priorities : p >= 0
    BY <1>1, KernelFacts DEF KernelType, Priorities
  <2>2. rtos_check_runnable_task(k, NULL)
    BY <2>1 DEF rtos_check_runnable_task
  <2> QED
    BY <2>2 DEF rtos_scheduler_start
<1>3. /\ r \in KernelType
      /\ ListsInv(r)
      /\ SameScalars(r, k)
      /\ r.event_l = k.event_l /\ r.event_c = k.event_c /\ r.reason = k.reason
      /\ r.cur \in Slots
      /\ k.state_c[r.cur] \in Priorities
      /\ r.state_c = [k.state_c EXCEPT ![r.cur] = NULL]
      /\ \A l \in StateLists \ Priorities : r.state_l[l] = k.state_l[l]
      /\ r.bitmap \subseteq k.bitmap
      /\ \A p \in k.bitmap : p <= k.eff[r.cur]
  BY <1>1, <1>2, GetHighestEffect
<1>4. /\ r.state_c[r.cur] = NULL
      /\ \A t \in Slots : t # r.cur => r.state_c[t] = k.state_c[t]
  BY <1>1, <1>3, TypedLists
<1>5. TasksInv(r)
  BY <1>1, <1>3, <1>4, KernelFacts DEF TasksInv, SameScalars
<1>6. \A t \in Slots : r.state_c[t] # k.state_c[t] =>
            k.state_c[t] \in Priorities \cup {NULL} /\ r.state_c[t] \in Priorities \cup {NULL}
  BY <1>3, <1>4
<1>7. KInv(r) /\ DelayInv(r, waking) /\ SameWaits(r, k)
  <2>1. /\ r \in KernelType /\ ListsInv(r) /\ SameScalars(r, k)
        /\ r.event_l = k.event_l /\ r.event_c = k.event_c /\ r.reason = k.reason
        /\ \A l \in StateLists \ Priorities : r.state_l[l] = k.state_l[l]
    BY <1>3
  <2> QED
    BY <2>1, <1>5, <1>6, SwitchKeeps
<1>8. r.cur # IDLE /\ r.eff = k.eff
  BY <1>3, KernelFacts DEF SameScalars
<1> QED
  BY <1>3, <1>4, <1>7, <1>8 DEF Switched

(* A list does not depend on the value of an item that is not in it. *)
LEMMA SortedFrame ==
    ASSUME NEW s \in Seq(Slots), NEW val \in [Slots -> Nat], SortedBy(s, val),
           NEW t \in Slots, ~In(s, t), NEW v
    PROVE  SortedBy(s, [val EXCEPT ![t] = v])
<1> DEFINE val2 == [val EXCEPT ![t] = v]
<1>1. \A i \in DOMAIN s : s[i] \in Slots /\ s[i] # t
  BY ElementOfSeq, LenProperties DEF In
<1>2. \A i \in DOMAIN s : val2[s[i]] = val[s[i]]
  BY <1>1
<1> HIDE DEF val2
<1>3. SortedBy(s, val2)
  BY <1>2 DEF SortedBy
<1> QED
  BY <1>3 DEF val2

(* The running task was put into a delay list or, for ever, into the       *)
(* suspend list, and, unless w is NULL, into the wait list w, behind all   *)
(* that have at least its priority.                                        *)
BlockedOn(r, k, w, infinite) ==
    /\ KInv(r)
    /\ DelayInv(r, FALSE)
    /\ r.cur = k.cur /\ r.ticks = k.ticks /\ r.created = k.created /\ r.bitmap = k.bitmap
    /\ r.priority = k.priority /\ r.eff = k.eff /\ r.held = k.held /\ r.reason = k.reason
    /\ r.state_c[k.cur] \in (IF infinite THEN {SuspendL} ELSE DelayLists)
    /\ \A t \in Slots : t # k.cur => r.state_c[t] = k.state_c[t]
    /\ r.event_c = IF w = NULL THEN k.event_c ELSE [k.event_c EXCEPT ![k.cur] = w]
    /\ \A v \in WaitLists : v # w => r.event_l[v] = k.event_l[v]
    /\ w # NULL =>
          /\ \E i \in 1 .. Len(k.event_l[w]) + 1 : r.event_l[w] = InsertAt(k.event_l[w], i, k.cur)
          /\ \A t \in Slots : In(k.event_l[w], t) /\ k.eff[t] >= k.eff[k.cur] =>
                Before(r.event_l[w], t, k.cur)

(* rtos_block_current_task, with no wait list, by a running task that is   *)
(* in no list: its assertions hold, and the delay lists stay sorted and    *)
(* split at the current tick.                                              *)
LEMMA BlockEffect ==
    ASSUME NEW k, KInv(k), DelayInv(k, FALSE),
           k.cur \in Slots, k.state_c[k.cur] = NULL,
           NEW wake_tick \in Ticks, NEW infinite \in BOOLEAN,
           ~infinite => wake_tick # k.ticks,
           NEW r, r = rtos_block_current_task(k, wake_tick, NULL, infinite)
    PROVE  BlockedOn(r, k, NULL, infinite) /\ r.event_l = k.event_l /\ r.event_v = k.event_v
<1>k. k \in KernelType /\ ListsInv(k) /\ EventInv(k) /\ WaitInv(k) /\ TasksInv(k) /\ ~k.failed
  BY DEF KInv
<1> DEFINE t == k.cur
           l == IF infinite THEN SuspendL
                ELSE IF wake_tick < k.ticks THEN k.next_delayed
                ELSE k.cur_delayed
           V2 == [k.state_v EXCEPT ![t] = wake_tick]
           s2 == IF infinite THEN rtos_list_insert_end(k.state_l[l], t)
                 ELSE rtos_list_insert_sorted(k.state_l[l], t, V2)
           L2 == [k.state_l EXCEPT ![l] = s2]
           C2 == [k.state_c EXCEPT ![t] = l]
<1>1. k.event_c[t] = NULL /\ t \in Slots /\ t \notin {NULL, IDLE}
  BY <1>k, KernelFacts DEF EventInv, KernelType
<1>2. r = [k EXCEPT !.state_v = V2, !.state_l = L2, !.state_c = C2]
  BY <1>1, <1>k DEF rtos_block_current_task, KernelType
<1>3. /\ l \in StateLists /\ l \notin Priorities /\ l \in DelayLists \cup {SuspendL}
      /\ ~infinite => l \in DelayLists
  BY <1>k, KernelFacts DEF KernelType
<1>4. /\ k.state_l \in [StateLists -> Seq(Slots)] /\ k.state_c \in [Slots -> StateLists \cup {NULL}]
      /\ ListsOf(StateLists, k.state_l, k.state_c)
      /\ k.state_v \in [Slots -> Nat] /\ V2 \in [Slots -> Ticks] /\ V2 \in [Slots -> Nat]
      /\ V2[t] = wake_tick /\ \A u \in Slots : u # t => V2[u] = k.state_v[u]
  <2>1. k.state_v \in [Slots -> Ticks] /\ Ticks \subseteq Nat
    BY <1>k, KernelFacts DEF KernelType, Ticks
  <2>2. V2 \in [Slots -> Ticks] /\ V2[t] = wake_tick /\ \A u \in Slots : u # t => V2[u] = k.state_v[u]
    BY <2>1, <1>1
  <2> HIDE DEF V2
  <2>3. k.state_v \in [Slots -> Nat] /\ V2 \in [Slots -> Nat]
    BY <2>1, <2>2
  <2> QED
    BY <2>2, <2>3, <1>k, TypedLists
<1>5. \A m \in DelayLists : /\ m \in StateLists
                            /\ k.state_l[m] \in Seq(Slots)
                            /\ SortedBy(k.state_l[m], V2)
  <2> SUFFICES ASSUME NEW m \in DelayLists
               PROVE  m \in StateLists /\ k.state_l[m] \in Seq(Slots) /\ SortedBy(k.state_l[m], V2)
    OBVIOUS
  <2>1. m \in StateLists /\ k.state_l[m] \in Seq(Slots) /\ m # NULL
    BY <1>4, KernelFacts
  <2>2. ~In(k.state_l[m], t)
    BY <2>1, <1>1, <1>4, <1>k DEF ListsInv, InExactlyOneList
  <2>3. SortedBy(k.state_l[m], k.state_v)
    BY DEF DelayInv
  <2> QED
    BY <2>1, <2>2, <2>3, <1>1, <1>4, SortedFrame
<1>6. PICK i \in 1 .. Len(k.state_l[l]) + 1 : s2 = InsertAt(k.state_l[l], i, t)
  <2>1. k.state_l[l] \in Seq(Slots)
    BY <1>3, <1>4
  <2>2. CASE infinite
    BY <2>1, <2>2, <1>1, InsertEndIsInsertAt
  <2>3. CASE ~infinite
    <3>1. SortedBy(k.state_l[l], V2)
      BY <2>3, <1>3, <1>5
    <3>2. V2 \in [Slots -> Nat]
      BY <1>4
    <3> DEFINE s == k.state_l[l]
    <3> HIDE DEF l, V2, t, s
    <3>3. s \in Seq(Slots) /\ t \in Slots /\ SortedBy(s, V2)
      BY <3>1, <2>1, <1>1 DEF s
    <3>4. /\ SortedStop(s, V2, V2[t]) \in 1 .. Len(s) + 1
          /\ rtos_list_insert_sorted(s, t, V2) = InsertAt(s, SortedStop(s, V2, V2[t]), t)
      BY <3>2, <3>3, InsertSorted
    <3> QED
      BY <3>4, <2>3 DEF s
  <2> QED
    BY <2>2, <2>3
<1>7. ~infinite => SortedBy(s2, V2)
  <2> SUFFICES ASSUME ~infinite PROVE SortedBy(s2, V2)
    OBVIOUS
  <2>1. k.state_l[l] \in Seq(Slots) /\ SortedBy(k.state_l[l], V2)
    BY <1>3, <1>5
  <2>2. s2 = rtos_list_insert_sorted(k.state_l[l], t, V2)
    OBVIOUS
  <2> HIDE DEF l, V2, t, s2
  <2> QED
    BY <2>1, <2>2, <1>1, <1>4, InsertSorted
<1>8. /\ \A m \in StateLists : m # l => L2[m] = k.state_l[m]
      /\ L2[l] = s2 /\ C2[t] = l
      /\ \A u \in Slots : u # t => C2[u] = k.state_c[u]
  BY <1>1, <1>3, <1>4
<1>9. l = (IF infinite THEN SuspendL
           ELSE IF wake_tick < k.ticks THEN k.next_delayed
           ELSE k.cur_delayed)
  OBVIOUS
<1> HIDE DEF s2, l
<1>10. ListsOf(StateLists, L2, C2)
  <2> DEFINE M == [k.state_l EXCEPT ![l] = InsertAt(k.state_l[l], i, t)]
  <2>1. ListsOf(StateLists, M, C2)
    BY <1>1, <1>3, <1>4, InsertKeepsLists, KernelFacts
  <2>2. L2 = M
    BY <1>6
  <2> QED
    BY <2>1, <2>2
<1> HIDE DEF L2, C2, V2, t
<1>11. r \in KernelType
  <2>1. L2 \in [StateLists -> Seq(Slots)] /\ C2 \in [Slots -> StateLists \cup {NULL}]
    BY <1>10 DEF ListsOf
  <2> QED
    BY <2>1, <1>2, <1>4, <1>k, ZenonT(60) DEF KernelType
<1>12. /\ r.state_l = L2 /\ r.state_c = C2 /\ r.state_v = V2
       /\ r.cur = k.cur /\ r.ticks = k.ticks /\ r.tsk_cnt = k.tsk_cnt
       /\ r.created = k.created /\ r.eff = k.eff /\ r.failed = k.failed
       /\ r.bitmap = k.bitmap /\ r.event_l = k.event_l /\ r.event_c = k.event_c
       /\ r.event_v = k.event_v /\ r.priority = k.priority /\ r.held = k.held
       /\ r.reason = k.reason
       /\ r.cur_delayed = k.cur_delayed /\ r.next_delayed = k.next_delayed
  BY <1>2, <1>k DEF KernelType
<1>13. ListsInv(r)
  <2>1. InExactlyOneList(r.state_l, r.state_c)
    BY <1>10, <1>12 DEF ListsOf
  <2>2. \A p \in Priorities : p \in StateLists /\ p # l
    BY <1>3, KernelFacts
  <2>3. r.bitmap = {p \in Priorities : r.state_l[p] # <<>>}
    BY <2>2, <1>8, <1>12, <1>k, TypedLists
  <2>4. \A u \in Slots : r.state_c[u] \in Priorities => r.state_c[u] = r.eff[u]
    BY <1>3, <1>8, <1>12, <1>k DEF ListsInv, ReadyL
  <2> QED
    BY <2>1, <2>3, <2>4 DEF ListsInv, ReadyL
<1>14. EventInv(r)
  BY <1>1, <1>8, <1>12, <1>k DEF EventInv
<1>15. DelayInv(r, FALSE)
  <2>1. k.cur_delayed # k.next_delayed
    BY DEF DelayInv
  <2>2. \A m \in DelayLists : SortedBy(r.state_l[m], r.state_v)
    BY <1>3, <1>5, <1>7, <1>8, <1>9, <1>12, KernelFacts
  <2>3. ASSUME NEW u \in Slots
        PROVE  /\ C2[u] = k.cur_delayed => V2[u] > k.ticks
               /\ C2[u] = k.next_delayed => V2[u] < k.ticks
    <3>1. CASE u # t
      BY <3>1, <1>4, <1>8 DEF DelayInv
    <3>2. CASE u = t
      <4>1. k.cur_delayed \in DelayLists /\ k.next_delayed \in DelayLists
        BY <1>k DEF KernelType
      <4>2. SuspendL \notin DelayLists /\ k.ticks \in Int /\ wake_tick \in Int
        BY <1>k, KernelFacts DEF KernelType, Ticks
      <4> QED
        BY <4>1, <4>2, <3>2, <2>1, <1>4, <1>8, <1>9
    <3> QED
      BY <3>1, <3>2
  <2> QED
    BY <2>1, <2>2, <2>3, <1>12 DEF DelayInv
<1>16. WaitInv(r)
  BY <1>12, <1>k DEF WaitInv
<1>17. TasksInv(r)
  <2>1. C2[t] # NULL /\ t \in k.created
    BY <1>1, <1>3, <1>8, <1>k, KernelFacts DEF TasksInv, t
  <2> QED
    BY <2>1, <1>8, <1>12, <1>k DEF TasksInv
<1>18. KInv(r)
  BY <1>11, <1>12, <1>13, <1>14, <1>16, <1>17, <1>k DEF KInv
<1>19. r.state_c[k.cur] \in (IF infinite THEN {SuspendL} ELSE DelayLists)
  BY <1>3, <1>8, <1>9, <1>12 DEF t
<1> QED
  BY <1>8, <1>12, <1>15, <1>18, <1>19 DEF BlockedOn, t

(* The same with a wait list: the task joins it behind all tasks of its    *)
(* priority and above.                                                     *)
LEMMA BlockOnEffect ==
    ASSUME NEW k, KInv(k), DelayInv(k, FALSE),
           k.cur \in Slots, k.state_c[k.cur] = NULL,
           NEW wake_tick \in Ticks, NEW infinite \in BOOLEAN,
           ~infinite => wake_tick # k.ticks, NEW w \in WaitLists,
           NEW r, r = rtos_block_current_task(k, wake_tick, w, infinite)
    PROVE  BlockedOn(r, k, w, infinite)
<1> DEFINE t == k.cur
           k2 == rtos_block_current_task(k, wake_tick, NULL, infinite)
           V2 == [k.event_v EXCEPT ![t] = k.eff[t]]
           s == k.event_l[w]
           s2 == rtos_list_insert_reversed_sorted(s, t, V2)
           L2 == [k.event_l EXCEPT ![w] = s2]
           C2 == [k.event_c EXCEPT ![t] = w]
<1>1. k \in KernelType /\ EventInv(k) /\ WaitInv(k) /\ t \in Slots
  BY DEF KInv
<1>2. BlockedOn(k2, k, NULL, infinite) /\ k2.event_l = k.event_l /\ k2.event_v = k.event_v
  BY BlockEffect
<1>3. t \notin {NULL, IDLE} /\ k.event_c[t] = NULL /\ w # NULL
  BY <1>1, KernelFacts DEF EventInv
<1>4. k2.event_c = k.event_c /\ KInv(k2) /\ DelayInv(k2, FALSE) /\ k2 \in KernelType
  BY <1>2 DEF BlockedOn, KInv
<1>5. r = [k2 EXCEPT !.event_v = V2, !.event_l = L2, !.event_c = C2]
  <2> DEFINE q == [k2 EXCEPT !.event_v[t] = k.eff[t]]
  <2>1. r = [q EXCEPT !.event_l[w] = rtos_list_insert_reversed_sorted(@, t, q.event_v),
                      !.event_c[t] = w]
    <3> DEFINE l == IF infinite THEN SuspendL
                    ELSE IF wake_tick < k.ticks THEN k.next_delayed
                    ELSE k.cur_delayed
               a1 == [k EXCEPT !.state_v[t] = wake_tick]
               a2 == [a1 EXCEPT !.state_l[l] = IF infinite
                                               THEN rtos_list_insert_end(@, t)
                                               ELSE rtos_list_insert_sorted(@, t, a1.state_v),
                                !.state_c[t] = l]
               a3 == [a2 EXCEPT !.event_v[t] = k.eff[t]]
    <3>1. ~(t \in {NULL, IDLE} \/ k.state_c[t] # NULL \/ k.event_c[t] # NULL)
      BY <1>3
    <3>2. k2 = a2
      BY <3>1, Zenon DEF rtos_block_current_task
    <3>3. r = [a3 EXCEPT !.event_l[w] = rtos_list_insert_reversed_sorted(@, t, a3.event_v),
                         !.event_c[t] = w]
      BY <3>1, <1>3, Zenon DEF rtos_block_current_task
    <3> HIDE DEF k2, a2
    <3> QED
      BY <3>2, <3>3, Zenon
  <2>2. q = [k2 EXCEPT !.event_v = V2]
    BY <1>2, <1>4 DEF KernelType
  <2> HIDE DEF k2, V2
  <2>3. q.event_v = V2 /\ q.event_l = k.event_l /\ q.event_c = k.event_c
    BY <2>2, <1>2, <1>4 DEF KernelType
  <2>4. r = [q EXCEPT !.event_l = L2, !.event_c = C2]
    BY <2>1, <2>3
  <2> HIDE DEF q, L2, C2
  <2> QED
    BY <2>2, <2>4, <1>4 DEF KernelType
<1> HIDE DEF k2
<1>6. /\ V2 \in [Slots -> Priorities] /\ V2 \in [Slots -> Nat] /\ V2[t] = k.eff[t]
      /\ \A u \in Slots : u # t => V2[u] = k.event_v[u]
  <2>1. k.event_v \in [Slots -> Priorities] /\ k.eff[t] \in Priorities /\ Priorities \subseteq Nat
    BY <1>1, TypedWaitLists, KernelFacts DEF KernelType, Priorities
  <2>2. V2 \in [Slots -> Priorities] /\ V2[t] = k.eff[t] /\ \A u \in Slots : u # t => V2[u] = k.event_v[u]
    BY <2>1, <1>1
  <2> HIDE DEF V2
  <2> QED
    BY <2>1, <2>2
<1>7. ASSUME NEW v \in WaitLists
      PROVE  k.event_l[v] \in Seq(Slots) /\ SortedDown(k.event_l[v], V2) /\ ~In(k.event_l[v], t)
  <2>1. ~In(k.event_l[v], t) /\ k.event_l[v] \in Seq(Slots) /\ SortedDown(k.event_l[v], k.event_v)
    BY <1>1, <1>3, TypedWaitLists, KernelFacts DEF EventInv, InExactlyOneList, WaitInv
  <2>2. \A i \in DOMAIN k.event_l[v] : k.event_l[v][i] \in Slots /\ k.event_l[v][i] # t
    BY <2>1, ElementOfSeq, LenProperties DEF In
  <2>3. \A i \in DOMAIN k.event_l[v] : V2[k.event_l[v][i]] = k.event_v[k.event_l[v][i]]
    BY <2>2, <1>6
  <2> HIDE DEF V2
  <2> QED
    BY <2>1, <2>3 DEF SortedDown
<1> HIDE DEF V2
<1>8. PICK i \in 1 .. Len(s) + 1 : s2 = InsertAt(s, i, t)
  BY <1>1, <1>6, <1>7, InsertReversed
<1>9. /\ SortedDown(s2, V2)
      /\ \A u : In(s, u) /\ V2[u] >= V2[t] => Before(s2, u, t)
  BY <1>1, <1>6, <1>7, InsertReversed
<1>10. \A v \in WaitLists : L2[v] = IF v = w THEN s2 ELSE k.event_l[v]
  BY <1>1, TypedWaitLists
<1> HIDE DEF s2
<1>11. ListsOf(WaitLists, L2, C2)
  <2> DEFINE M == [k.event_l EXCEPT ![w] = InsertAt(k.event_l[w], i, t)]
  <2>1. ListsOf(WaitLists, M, C2)
    BY <1>1, <1>3, InsertKeepsLists, TypedWaitLists, KernelFacts
  <2>2. L2 = M
    BY <1>8
  <2> QED
    BY <2>1, <2>2
<1>12. C2[t] = w /\ \A u \in Slots : u # t => C2[u] = k.event_c[u]
  BY <1>1, TypedWaitLists
<1>13. C2 = [k.event_c EXCEPT ![t] = w]
  OBVIOUS
<1> HIDE DEF L2, C2
<1>14. r \in KernelType
  <2>1. L2 \in [WaitLists -> Seq(Slots)] /\ C2 \in [Slots -> WaitLists \cup {NULL}]
    BY <1>11 DEF ListsOf
  <2> QED
    BY <2>1, <1>4, <1>5, <1>6, ZenonT(60) DEF KernelType
<1>15. /\ r.event_l = L2 /\ r.event_c = C2 /\ r.event_v = V2
       /\ r.cur = k2.cur /\ r.ticks = k2.ticks /\ r.tsk_cnt = k2.tsk_cnt
       /\ r.created = k2.created /\ r.eff = k2.eff /\ r.failed = k2.failed
       /\ r.bitmap = k2.bitmap /\ r.state_l = k2.state_l /\ r.state_c = k2.state_c
       /\ r.state_v = k2.state_v /\ r.priority = k2.priority /\ r.held = k2.held
       /\ r.reason = k2.reason
       /\ r.cur_delayed = k2.cur_delayed /\ r.next_delayed = k2.next_delayed
  BY <1>4, <1>5 DEF KernelType
<1>16. /\ k2.cur = k.cur /\ k2.eff = k.eff
       /\ k2.state_c[t] \in (IF infinite THEN {SuspendL} ELSE DelayLists)
  BY <1>2 DEF BlockedOn
<1>17. ListsInv(r) /\ TasksInv(r) /\ DelayInv(r, FALSE) /\ ~r.failed
  BY <1>4, <1>15 DEF KInv, ListsInv, TasksInv, DelayInv
<1>18. EventInv(r)
  <2>1. \A u \in Slots : C2[u] # NULL => k2.state_c[u] \in DelayLists \cup {SuspendL}
    BY <1>4, <1>12, <1>16 DEF KInv, EventInv
  <2> QED
    BY <2>1, <1>11, <1>15 DEF EventInv, ListsOf
<1>19. WaitInv(r)
  <2>1. \A v \in WaitLists : SortedDown(L2[v], V2)
    BY <1>7, <1>9, <1>10
  <2>2. \A u \in Slots : C2[u] # NULL => V2[u] = k.eff[u]
    BY <1>1, <1>6, <1>12 DEF WaitInv
  <2> QED
    BY <2>1, <2>2, <1>15, <1>16 DEF WaitInv
<1>20. KInv(r)
  BY <1>14, <1>17, <1>18, <1>19 DEF KInv
<1>21. \A u \in Slots : In(s, u) /\ k.eff[u] >= k.eff[t] => Before(s2, u, t)
  <2>1. ASSUME NEW u \in Slots, In(s, u) PROVE V2[u] = k.eff[u]
    <3>1. u # t
      BY <2>1, <1>7
    <3>2. k.event_c[u] = w
      BY <2>1, <1>1, TypedWaitLists DEF EventInv, InExactlyOneList
    <3> QED
      BY <3>1, <3>2, <1>1, <1>3, <1>6 DEF WaitInv
  <2> QED
    BY <2>1, <1>6, <1>9
<1>22. /\ r.event_l[w] = s2
       /\ \A v \in WaitLists : v # w => r.event_l[v] = k.event_l[v]
  BY <1>10, <1>15
<1>23. /\ r.cur = k.cur /\ r.ticks = k.ticks /\ r.created = k.created /\ r.bitmap = k.bitmap
       /\ r.priority = k.priority /\ r.eff = k.eff /\ r.held = k.held /\ r.reason = k.reason
       /\ r.state_c[k.cur] \in (IF infinite THEN {SuspendL} ELSE DelayLists)
       /\ \A u \in Slots : u # k.cur => r.state_c[u] = k.state_c[u]
  BY <1>2, <1>15 DEF BlockedOn
<1>24. r.event_c = IF w = NULL THEN k.event_c ELSE [k.event_c EXCEPT ![k.cur] = w]
  BY <1>3, <1>13, <1>15
<1>25. /\ \E j \in 1 .. Len(k.event_l[w]) + 1 : r.event_l[w] = InsertAt(k.event_l[w], j, k.cur)
       /\ \A u \in Slots : In(k.event_l[w], u) /\ k.eff[u] >= k.eff[k.cur] =>
             Before(r.event_l[w], u, k.cur)
  BY <1>8, <1>21, <1>22
<1> QED
  BY <1>17, <1>20, <1>22, <1>23, <1>24, <1>25, Zenon DEF BlockedOn

(* A task of priority p was created in the next slot and made ready. *)
CreatedTask(r, k, p) ==
    /\ KInv(r)
    /\ DelayInv(r, FALSE)
    /\ r.cur = k.cur
    /\ r.bitmap = k.bitmap \cup {p}
    /\ r.event_l = k.event_l /\ r.event_c = k.event_c
    /\ r.tsk_cnt = k.tsk_cnt + 1
    /\ LET t == k.tsk_cnt
       IN  /\ t \in Slots \ k.created
           /\ k.state_c[t] = NULL /\ k.event_c[t] = NULL /\ t # k.cur
           /\ r.created = k.created \cup {t}
           /\ r.priority = [k.priority EXCEPT ![t] = p]
           /\ r.eff = [k.eff EXCEPT ![t] = p]
           /\ r.held = [k.held EXCEPT ![t] = 0]
           /\ r.reason = [k.reason EXCEPT ![t] = "WAIT_NO_REASON"]
           /\ r.state_c = [k.state_c EXCEPT ![t] = p]

(* artos_task_create, when a slot is free, takes the next slot and makes   *)
(* its task ready.                                                         *)
LEMMA CreateEffect ==
    ASSUME NEW k, KInv(k), DelayInv(k, FALSE),
           k.created # Slots, NEW p \in Priorities,
           NEW r, r = artos_task_create(k, p)
    PROVE  CreatedTask(r, k, p)
<1>k. k \in KernelType /\ ListsInv(k) /\ EventInv(k) /\ WaitInv(k) /\ TasksInv(k) /\ ~k.failed
  BY DEF KInv
<1> DEFINE t == FreeSlot(k)
           k1 == [k EXCEPT !.created = @ \cup {t},
                           !.priority[t] = p,
                           !.eff[t] = p,
                           !.held[t] = 0,
                           !.reason[t] = "WAIT_NO_REASON",
                           !.state_c[t] = NULL,
                           !.state_v[t] = 0,
                           !.event_c[t] = NULL,
                           !.event_v[t] = 0,
                           !.tsk_cnt = @ + 1]
<1>1. /\ k.tsk_cnt \in 0 .. MaxTasks - 1
      /\ k.tsk_cnt \in Slots \ k.created
      /\ \A u \in Slots \ k.created : k.tsk_cnt <= u
  <2>1. k.tsk_cnt \in 0 .. MaxTasks /\ MaxTasks \in Nat
    BY <1>k, KernelFacts DEF KernelType
  <2>2. k.created = 0 .. k.tsk_cnt - 1 /\ 0 .. k.tsk_cnt - 1 # 0 .. MaxTasks - 1
    BY <1>k DEF TasksInv, Slots
  <2>3. k.tsk_cnt # MaxTasks
    BY <2>2
  <2> QED
    BY <2>1, <2>2, <2>3 DEF Slots
<1>2. t = k.tsk_cnt
  <2>1. \E u \in Slots \ k.created : \A v \in Slots \ k.created : u <= v
    BY <1>1
  <2>2. t \in Slots \ k.created /\ \A v \in Slots \ k.created : t <= v
    BY <2>1 DEF FreeSlot
  <2>3. \A u \in Slots : u \in Int
    BY KernelFacts DEF Slots
  <2> HIDE DEF t
  <2> QED
    BY <2>2, <2>3, <1>1
<1>3. r = rtos_insert_ready_list(k1, t)
  BY DEF artos_task_create
<1> HIDE DEF t
<1>4. t \in Slots /\ t \in Tasks /\ t \notin k.created
  BY <1>1, <1>2 DEF Tasks
<1>5. k.state_c[t] = NULL /\ k.event_c[t] = NULL /\ t # k.cur
  BY <1>4, <1>k, KernelFacts DEF TasksInv, EventInv
<1>6. /\ k.state_c = [k.state_c EXCEPT ![t] = NULL]
      /\ k.event_c = [k.event_c EXCEPT ![t] = NULL]
  BY <1>5, <1>k DEF KernelType
<1> DEFINE E2 == [k.eff EXCEPT ![t] = p]
           V2 == [k.state_v EXCEPT ![t] = 0]
<1>7. /\ [k.priority EXCEPT ![t] = p] \in [Tasks -> Priorities]
      /\ E2 \in [Tasks -> Priorities]
      /\ [k.held EXCEPT ![t] = 0] \in [Tasks -> 0 .. MaxHeld]
      /\ [k.reason EXCEPT ![t] = "WAIT_NO_REASON"] \in [Tasks -> WaitReasons]
      /\ V2 \in [Slots -> Ticks]
      /\ [k.event_v EXCEPT ![t] = 0] \in [Slots -> Priorities]
      /\ k.tsk_cnt + 1 \in 0 .. MaxTasks
      /\ k.created \cup {t} \in SUBSET Slots
  <2>1. 0 \in 0 .. MaxHeld /\ 0 \in Ticks /\ 0 \in Priorities /\ "WAIT_NO_REASON" \in WaitReasons
    BY KernelFacts DEF Ticks, Priorities, WaitReasons
  <2>2. k.tsk_cnt + 1 \in 0 .. MaxTasks
    BY <1>1, KernelFacts
  <2>3. /\ [k.priority EXCEPT ![t] = p] \in [Tasks -> Priorities]
        /\ E2 \in [Tasks -> Priorities]
        /\ k.created \cup {t} \in SUBSET Slots
    BY <1>4, <1>k DEF KernelType
  <2>4. /\ [k.held EXCEPT ![t] = 0] \in [Tasks -> 0 .. MaxHeld]
        /\ [k.reason EXCEPT ![t] = "WAIT_NO_REASON"] \in [Tasks -> WaitReasons]
    BY <1>4, <2>1, <1>k DEF KernelType
  <2>5. /\ V2 \in [Slots -> Ticks]
        /\ [k.event_v EXCEPT ![t] = 0] \in [Slots -> Priorities]
    BY <1>4, <2>1, <1>k DEF KernelType
  <2> QED
    BY <2>2, <2>3, <2>4, <2>5
<1>8. k1 = [k EXCEPT !.created = k.created \cup {t},
                     !.priority = [k.priority EXCEPT ![t] = p],
                     !.eff = E2,
                     !.held = [k.held EXCEPT ![t] = 0],
                     !.reason = [k.reason EXCEPT ![t] = "WAIT_NO_REASON"],
                     !.state_v = V2,
                     !.event_v = [k.event_v EXCEPT ![t] = 0],
                     !.tsk_cnt = k.tsk_cnt + 1]
  <2>1. k1 = [k EXCEPT !.created = k.created \cup {t},
                       !.priority = [k.priority EXCEPT ![t] = p],
                       !.eff = E2,
                       !.held = [k.held EXCEPT ![t] = 0],
                       !.reason = [k.reason EXCEPT ![t] = "WAIT_NO_REASON"],
                       !.state_c = [k.state_c EXCEPT ![t] = NULL],
                       !.state_v = V2,
                       !.event_c = [k.event_c EXCEPT ![t] = NULL],
                       !.event_v = [k.event_v EXCEPT ![t] = 0],
                       !.tsk_cnt = k.tsk_cnt + 1]
    BY <1>k DEF KernelType
  <2>2. k1 = [k EXCEPT !.created = k.created \cup {t},
                       !.priority = [k.priority EXCEPT ![t] = p],
                       !.eff = E2,
                       !.held = [k.held EXCEPT ![t] = 0],
                       !.reason = [k.reason EXCEPT ![t] = "WAIT_NO_REASON"],
                       !.state_c = k.state_c,
                       !.state_v = V2,
                       !.event_c = k.event_c,
                       !.event_v = [k.event_v EXCEPT ![t] = 0],
                       !.tsk_cnt = k.tsk_cnt + 1]
    BY <2>1, <1>6, Zenon
  <2> HIDE DEF k1, E2, V2
  <2> QED
    BY <2>2, <1>k DEF KernelType
<1> HIDE DEF k1, E2, V2
<1>9. k1 \in KernelType
  BY <1>7, <1>8, <1>k DEF KernelType
<1>10. /\ k1.cur = k.cur /\ k1.ticks = k.ticks /\ k1.bitmap = k.bitmap /\ k1.failed = k.failed
       /\ k1.state_l = k.state_l /\ k1.state_c = k.state_c
       /\ k1.event_l = k.event_l /\ k1.event_c = k.event_c
       /\ k1.cur_delayed = k.cur_delayed /\ k1.next_delayed = k.next_delayed
       /\ k1.created = k.created \cup {t} /\ k1.tsk_cnt = k.tsk_cnt + 1
       /\ k1.eff = E2 /\ k1.state_v = V2
       /\ k1.priority = [k.priority EXCEPT ![t] = p] /\ k1.held = [k.held EXCEPT ![t] = 0]
       /\ k1.reason = [k.reason EXCEPT ![t] = "WAIT_NO_REASON"]
       /\ k1.event_v = [k.event_v EXCEPT ![t] = 0]
  BY <1>8, <1>k DEF KernelType
<1>11. E2[t] = p /\ \A u \in Tasks : u # t => E2[u] = k.eff[u]
  BY <1>4, <1>k DEF E2, KernelType
<1>12. ListsInv(k1)
  <2>1. \A u \in Slots : k1.state_c[u] \in Priorities => k1.state_c[u] = k1.eff[u]
    BY <1>5, <1>10, <1>11, <1>k, KernelFacts DEF ListsInv, ReadyL, Tasks
  <2> QED
    BY <2>1, <1>10, <1>k DEF ListsInv, ReadyL
<1>13. /\ r \in KernelType
       /\ ListsInv(r)
       /\ SameScalars(r, k1)
       /\ r.cur = k.cur /\ r.reason = k1.reason
       /\ r.event_l = k.event_l /\ r.event_c = k.event_c
       /\ r.state_c = [k.state_c EXCEPT ![t] = p]
       /\ \A l \in StateLists : l # p => r.state_l[l] = k.state_l[l]
       /\ r.bitmap = k.bitmap \cup {p}
  <2>1. k1.state_c[t] = NULL
    BY <1>5, <1>10
  <2>2. /\ r \in KernelType
        /\ ListsInv(r)
        /\ SameScalars(r, k1)
        /\ r.cur = k1.cur /\ r.reason = k1.reason
        /\ r.event_l = k1.event_l /\ r.event_c = k1.event_c
        /\ r.state_c = [k1.state_c EXCEPT ![t] = k1.eff[t]]
        /\ \A l \in StateLists : l # k1.eff[t] => r.state_l[l] = k1.state_l[l]
        /\ r.bitmap = k1.bitmap \cup {k1.eff[t]}
    BY <2>1, <1>3, <1>4, <1>9, <1>12, InsertReadyList
  <2> QED
    BY <2>2, <1>10, <1>11
<1>14. r.state_c[t] = p /\ p # NULL /\ \A u \in Slots : u # t => r.state_c[u] = k.state_c[u]
  BY <1>4, <1>13, <1>k, TypedLists, KernelFacts
<1>15. EventInv(r)
  BY <1>5, <1>13, <1>14, <1>k DEF EventInv
<1>16. DelayInv(r, FALSE)
  <2>1. DelayInv(k1, FALSE)
    <3>1. \A l \in DelayLists : SortedBy(k.state_l[l], V2)
      <4> SUFFICES ASSUME NEW l \in DelayLists PROVE SortedBy(k.state_l[l], V2)
        OBVIOUS
      <4>1. l \in StateLists /\ l # NULL /\ k.state_l[l] \in Seq(Slots)
        BY <1>k, KernelFacts, TypedLists
      <4>2. ~In(k.state_l[l], t)
        BY <4>1, <1>4, <1>5, <1>k, TypedLists DEF ListsInv, InExactlyOneList
      <4>3. k.state_v \in [Slots -> Nat]
        BY <1>k, KernelFacts DEF KernelType, Ticks
      <4>4. SortedBy(k.state_l[l], k.state_v)
        BY DEF DelayInv
      <4> QED
        BY <4>1, <4>2, <4>3, <4>4, <1>4, SortedFrame DEF V2
    <3>2. \A u \in Slots : u # t => V2[u] = k.state_v[u]
      BY <1>k DEF V2, KernelType
    <3>3. k.cur_delayed # NULL /\ k.next_delayed # NULL
      BY <1>k, KernelFacts DEF KernelType
    <3>4. ASSUME NEW u \in Slots
          PROVE  /\ k.state_c[u] = k.cur_delayed =>
                       V2[u] > k.ticks
                 /\ k.state_c[u] = k.next_delayed => V2[u] < k.ticks
      BY <3>2, <3>3, <1>5 DEF DelayInv
    <3> QED
      BY <3>1, <3>4, <1>10 DEF DelayInv
  <2>2. p \notin DelayLists /\ \A l \in DelayLists : l # p /\ l \in StateLists
    BY KernelFacts
  <2>3. /\ r.ticks = k1.ticks /\ r.state_v = k1.state_v
        /\ r.cur_delayed = k1.cur_delayed /\ r.next_delayed = k1.next_delayed
    BY <1>13 DEF SameScalars
  <2>4. \A l \in DelayLists : r.state_l[l] = k1.state_l[l]
    BY <2>2, <1>10, <1>13
  <2>5. \A u \in Slots : r.state_c[u] \in DelayLists => r.state_c[u] = k1.state_c[u]
    BY <2>2, <1>10, <1>14
  <2> QED
    BY <2>1, <2>3, <2>4, <2>5, <1>9, DelayFrame
<1>17. TasksInv(r)
  <2>1. r.created = k.created \cup {t} /\ r.tsk_cnt = k.tsk_cnt + 1 /\ r.eff = E2
    BY <1>10, <1>13 DEF SameScalars
  <2>2. r.created = 0 .. r.tsk_cnt - 1
    BY <2>1, <1>1, <1>2, <1>k DEF TasksInv
  <2>3. r.eff[IDLE] = 0
    BY <2>1, <1>4, <1>11, <1>k, KernelFacts DEF TasksInv, Tasks
  <2>4. \A u \in Slots : u \notin r.created => r.state_c[u] = NULL
    BY <2>1, <1>14, <1>k DEF TasksInv
  <2>5. \A u \in Slots : u \in r.created /\ r.state_c[u] = NULL => r.cur = u
    BY <2>1, <1>13, <1>14, <1>k DEF TasksInv
  <2>6. r.cur \in Slots => r.cur \in r.created
    BY <2>1, <1>13, <1>k DEF TasksInv
  <2> QED
    BY <2>2, <2>3, <2>4, <2>5, <2>6 DEF TasksInv
<1>18. WaitInv(r)
  <2>1. r.event_v = [k.event_v EXCEPT ![t] = 0] /\ r.eff = E2
    BY <1>10, <1>13 DEF SameScalars
  <2>2. \A v \in Slots : v # t => r.event_v[v] = k.event_v[v] /\ r.eff[v] = k.eff[v]
    BY <2>1, <1>11, <1>k DEF KernelType, Tasks
  <2>3. \A v \in Slots : r.event_c[v] # NULL => r.event_v[v] = r.eff[v]
    BY <2>2, <1>5, <1>13, <1>k DEF WaitInv
  <2>4. ASSUME NEW w \in WaitLists PROVE SortedDown(r.event_l[w], r.event_v)
    <3>1. ~In(k.event_l[w], t) /\ k.event_l[w] \in Seq(Slots) /\ SortedDown(k.event_l[w], k.event_v)
      BY <1>4, <1>5, <1>k, TypedWaitLists, KernelFacts DEF EventInv, InExactlyOneList, WaitInv
    <3>2. \A i \in DOMAIN k.event_l[w] : k.event_l[w][i] \in Slots /\ k.event_l[w][i] # t
      BY <3>1, ElementOfSeq, LenProperties DEF In
    <3>3. \A i \in DOMAIN k.event_l[w] : r.event_v[k.event_l[w][i]] = k.event_v[k.event_l[w][i]]
      BY <3>2, <2>2
    <3> QED
      BY <3>1, <3>3, <1>13 DEF SortedDown
  <2> QED
    BY <2>3, <2>4 DEF WaitInv
<1>19. KInv(r)
  BY <1>10, <1>13, <1>15, <1>17, <1>18, <1>k DEF KInv, SameScalars
<1>20. /\ r.tsk_cnt = k.tsk_cnt + 1 /\ r.created = k.created \cup {t}
       /\ r.priority = [k.priority EXCEPT ![t] = p] /\ r.eff = [k.eff EXCEPT ![t] = p]
       /\ r.held = [k.held EXCEPT ![t] = 0]
  BY <1>10, <1>13 DEF SameScalars, E2
<1> QED
  BY <1>2, <1>4, <1>5, <1>10, <1>13, <1>16, <1>19, <1>20 DEF CreatedTask

(* Counting a tick: at the wrap-around the current delay list is empty, so *)
(* no task is dropped, and the tasks of the other list are due from now.   *)
LEMMA TickIncrementEffect ==
    ASSUME NEW k, KInv(k), DelayInv(k, FALSE),
           NEW r, r = TickIncrement(k)
    PROVE  /\ KInv(r)
           /\ DelayInv(r, TRUE)
           /\ SameWaits(r, k)
           /\ r.cur = k.cur /\ r.bitmap = k.bitmap /\ r.state_c = k.state_c
<1>k. k \in KernelType /\ ListsInv(k) /\ EventInv(k) /\ WaitInv(k) /\ TasksInv(k) /\ ~k.failed
  BY DEF KInv
<1> DEFINE Rest == /\ r.cur = k.cur /\ r.tsk_cnt = k.tsk_cnt /\ r.created = k.created
                   /\ r.eff = k.eff /\ r.failed = k.failed /\ r.bitmap = k.bitmap
                   /\ r.priority = k.priority /\ r.held = k.held /\ r.reason = k.reason
                   /\ r.state_l = k.state_l /\ r.state_c = k.state_c
                   /\ r.event_l = k.event_l /\ r.event_c = k.event_c /\ r.event_v = k.event_v
<1> DEFINE n == (k.ticks + 1) % TickMod
<1>1. /\ k.ticks \in 0 .. TickMod - 1 /\ TickMod \in Nat /\ TickMod > 2
      /\ k.state_v \in [Slots -> 0 .. TickMod - 1]
      /\ k.cur_delayed \in DelayLists /\ k.next_delayed \in DelayLists
  BY <1>k, KernelFacts DEF KernelType, Ticks
<1>2. n = IF k.ticks + 1 = TickMod THEN 0 ELSE k.ticks + 1
  BY <1>1
<1>3. n \in Ticks
  BY <1>1, <1>2 DEF Ticks
<1> HIDE DEF n
<1>4. ASSUME n # 0 PROVE r \in KernelType /\ DelayInv(r, TRUE) /\ Rest
  <2>1. r = [k EXCEPT !.ticks = n]
    BY <1>4 DEF TickIncrement, n
  <2>2. r \in KernelType
    BY <2>1, <1>3, <1>k DEF KernelType
  <2>3. /\ r.ticks = n /\ r.state_v = k.state_v
        /\ r.cur_delayed = k.cur_delayed /\ r.next_delayed = k.next_delayed
        /\ Rest
    BY <2>1, <1>k DEF KernelType
  <2>4. ASSUME NEW t \in Slots
        PROVE  /\ k.state_c[t] = k.cur_delayed => k.state_v[t] > n \/ k.state_v[t] = n
               /\ k.state_c[t] = k.next_delayed => k.state_v[t] < n
    <3>1. /\ k.state_c[t] = k.cur_delayed => k.state_v[t] > k.ticks
          /\ k.state_c[t] = k.next_delayed => k.state_v[t] < k.ticks
      BY DEF DelayInv
    <3> QED
      BY <3>1, <1>1, <1>2, <1>4
  <2>5. DelayInv(r, TRUE)
    BY <2>3, <2>4 DEF DelayInv
  <2> QED
    BY <2>2, <2>3, <2>5
<1>5. ASSUME n = 0 PROVE r \in KernelType /\ DelayInv(r, TRUE) /\ Rest
  <2>1. \A t \in Slots : k.state_c[t] # k.cur_delayed
    BY <1>1, <1>2, <1>5 DEF DelayInv
  <2>2. k.state_l[k.cur_delayed] = <<>>
    <3>1. ListsOf(StateLists, k.state_l, k.state_c) /\ k.cur_delayed \in StateLists
      BY <1>1, <1>k, TypedLists, KernelFacts
    <3> QED
      BY <3>1, <2>1, EmptyList
  <2>3. /\ [k.state_l EXCEPT ![k.cur_delayed] = <<>>] = k.state_l
        /\ \A A : A = {t \in Slots : k.state_c[t] = k.cur_delayed} =>
              [t \in Slots |-> IF t \in A THEN NULL ELSE k.state_c[t]] = k.state_c
    BY <2>1, <2>2, <1>1, <1>k, TypedLists, KernelFacts
  <2>4. r = [k EXCEPT !.ticks = 0, !.cur_delayed = k.next_delayed, !.next_delayed = k.cur_delayed]
    BY <2>3, <1>5, <1>k, ZenonT(60) DEF TickIncrement, n, KernelType
  <2>5. r \in KernelType
    BY <2>4, <1>1, <1>3, <1>5, <1>k, ZenonT(60) DEF KernelType
  <2>6. /\ r.ticks = 0 /\ r.state_v = k.state_v
        /\ r.cur_delayed = k.next_delayed /\ r.next_delayed = k.cur_delayed
        /\ Rest
    BY <2>4, <1>k DEF KernelType
  <2>7. \A t \in Slots : k.state_v[t] > 0 \/ k.state_v[t] = 0
    BY <1>1
  <2>8. DelayInv(r, TRUE)
    BY <2>1, <2>6, <2>7 DEF DelayInv
  <2> QED
    BY <2>5, <2>6, <2>8
<1>6. r \in KernelType /\ DelayInv(r, TRUE) /\ Rest
  BY <1>4, <1>5
<1>7. KInv(r)
  BY <1>6, <1>k DEF KInv, ListsInv, EventInv, WaitInv, TasksInv
<1>8. SameWaits(r, k)
  BY <1>6 DEF SameWaits
<1> QED
  BY <1>6, <1>7, <1>8

(* The head of the current delay list while the tick handler must wake a   *)
(* task: blocked, and due exactly now.                                     *)
LEMMA MustWakeHead ==
    ASSUME NEW k \in KernelType, ListsInv(k), NEW waking \in BOOLEAN, DelayInv(k, waking),
           MustWake(k), NEW t, t = Head(k.state_l[k.cur_delayed])
    PROVE  t \in Slots /\ k.state_c[t] = k.cur_delayed /\ k.state_v[t] = k.ticks
<1>1. k.cur_delayed \in StateLists /\ k.state_l[k.cur_delayed] # <<>> /\ k.state_v[t] <= k.ticks
  BY KernelFacts DEF KernelType, MustWake
<1>2. t \in Slots /\ k.state_c[t] = k.cur_delayed
  BY <1>1, EmptyList, TypedLists
<1>3. k.state_v[t] \in Int /\ k.ticks \in Int
  BY <1>2, KernelFacts DEF KernelType, Ticks
<1>4. k.state_v[t] = k.ticks
  BY <1>1, <1>2, <1>3 DEF DelayInv
<1> QED
  BY <1>2, <1>4

(* Waking it keeps the delay lists sorted and split ... *)
LEMMA TickWakeEffect ==
    ASSUME NEW k, KInv(k), DelayInv(k, TRUE), MustWake(k), NEW r, r = TickWake(k)
    PROVE  /\ DelayInv(r, TRUE)
           /\ \E t \in Slots : /\ k.state_c[t] \in DelayLists /\ k.state_v[t] = k.ticks
                               /\ Unblocked(r, k, t, "WAIT_TIMED_OUT")
<1> DEFINE t == Head(k.state_l[k.cur_delayed])
<1>1. k \in KernelType /\ ListsInv(k)
  BY DEF KInv
<1>2. t \in Slots /\ k.state_c[t] = k.cur_delayed /\ k.state_v[t] = k.ticks
  BY <1>1, MustWakeHead
<1>3. r = rtos_unblock_task(k, t, "WAIT_TIMED_OUT") /\ "WAIT_TIMED_OUT" \in WaitReasons
  BY DEF TickWake, WaitReasons
<1> HIDE DEF t
<1>4. k.state_c[t] \in DelayLists /\ Blocked(k, t)
  BY <1>1, <1>2 DEF KernelType, Blocked
<1>5. Unblocked(r, k, t, "WAIT_TIMED_OUT")
  BY <1>2, <1>3, <1>4, UnblockEffect
<1>6. DelayInv(r, TRUE)
  BY <1>2, <1>4, <1>5, UnblockDelays
<1> QED
  BY <1>2, <1>4, <1>5, <1>6

(* ... and when it need not wake any, every delayed task is due later. *)
LEMMA NothingToWake ==
    ASSUME NEW k \in KernelType, ListsInv(k), DelayInv(k, TRUE), ~MustWake(k)
    PROVE  DelayInv(k, FALSE)
<1> DEFINE s == k.state_l[k.cur_delayed]
<1>1. k.cur_delayed \in DelayLists /\ k.cur_delayed \in StateLists /\ s \in Seq(Slots)
  BY KernelFacts, TypedLists DEF KernelType
<1>2. ASSUME NEW t \in Slots, k.state_c[t] = k.cur_delayed
      PROVE  k.state_v[t] > k.ticks
  <2>1. s # <<>> /\ Head(s) \in Slots /\ s[1] = Head(s)
    BY <1>1, <1>2, EmptyList, TypedLists
  <2>2. PICK i \in DOMAIN s : s[i] = t
    BY <1>1, <1>2, TypedLists DEF ListsInv, InExactlyOneList, In
  <2>3. 1 \in DOMAIN s /\ 1 <= i
    BY <2>2, <1>1, LenProperties
  <2>4. k.state_v[Head(s)] <= k.state_v[t]
    BY <2>1, <2>2, <2>3, <1>1 DEF DelayInv, SortedBy
  <2>5. k.state_v[Head(s)] \in Int /\ k.state_v[t] \in Int /\ k.ticks \in Int
    BY <2>1, KernelFacts, SMTT(30) DEF KernelType, Ticks
  <2>6. ~(k.state_v[Head(s)] <= k.ticks)
    BY <2>1 DEF MustWake
  <2> QED
    BY <2>4, <2>5, <2>6
<1> QED
  BY <1>2 DEF DelayInv

(* The running task clears its wait reason. *)
LEMMA ClearReasonEffect ==
    ASSUME NEW k, KInv(k), NEW waking \in BOOLEAN, DelayInv(k, waking), k.cur \in Slots,
           NEW r, r = rtos_clear_current_wait_reason(k)
    PROVE  /\ KInv(r)
           /\ DelayInv(r, waking)
           /\ SameScalars(r, k)
           /\ r.cur = k.cur /\ r.bitmap = k.bitmap
           /\ r.state_l = k.state_l /\ r.state_c = k.state_c
           /\ r.event_l = k.event_l /\ r.event_c = k.event_c
           /\ r.reason = [k.reason EXCEPT ![k.cur] = "WAIT_NO_REASON"]
<1> DEFINE R == [k.reason EXCEPT ![k.cur] = "WAIT_NO_REASON"]
<1>1. k \in KernelType /\ ListsInv(k) /\ EventInv(k) /\ WaitInv(k) /\ TasksInv(k) /\ ~k.failed
  BY DEF KInv
<1>2. R \in [Tasks -> WaitReasons]
  BY <1>1 DEF KernelType, WaitReasons
<1>3. r = [k EXCEPT !.reason = R]
  BY DEF rtos_clear_current_wait_reason
<1> HIDE DEF R
<1>4. r \in KernelType
  BY <1>1, <1>2, <1>3 DEF KernelType
<1>5. SameScalars(r, k)
  BY <1>1, <1>3 DEF KernelType, SameScalars
<1>6. /\ r.cur = k.cur /\ r.bitmap = k.bitmap
      /\ r.state_l = k.state_l /\ r.state_c = k.state_c
      /\ r.event_l = k.event_l /\ r.event_c = k.event_c
      /\ r.reason = R
  BY <1>1, <1>3 DEF KernelType
<1>7. KInv(r)
  BY <1>1, <1>4, <1>5, <1>6 DEF KInv, ListsInv, EventInv, WaitInv, TasksInv, SameScalars
<1>8. DelayInv(r, waking)
  BY <1>5, <1>6 DEF DelayInv, SameScalars
<1> QED
  BY <1>5, <1>6, <1>7, <1>8 DEF R
-----------------------------------------------------------------------------
(* Start-up.  rtos_system_init establishes the invariant. *)
LEMMA SystemInit ==
    /\ KInv(rtos_system_init)
    /\ DelayInv(rtos_system_init, FALSE)
<1> DEFINE k == rtos_system_init
<1> USE KernelFacts
<1>1. k \in KernelType
  <2>1. 0 \in Ticks /\ 0 \in Priorities /\ 0 \in 0 .. MaxHeld /\ 0 \in 0 .. MaxTasks
    BY DEF Ticks, Priorities
  <2>2. "WAIT_NO_REASON" \in WaitReasons /\ DelayedL \in DelayLists /\ DelayedOverflowL \in DelayLists
    BY DEF WaitReasons, DelayLists
  <2>3. <<>> \in Seq(Slots)
    OBVIOUS
  <2> QED
    BY <2>1, <2>2, <2>3 DEF rtos_system_init, KernelType
<1>2. /\ k.cur = NULL /\ k.tsk_cnt = 0 /\ k.created = {} /\ k.bitmap = {}
      /\ k.eff = [t \in Tasks |-> 0] /\ k.failed = FALSE /\ k.ticks = 0
      /\ k.state_l = [l \in StateLists |-> <<>>] /\ k.state_c = [t \in Slots |-> NULL]
      /\ k.event_l = [w \in WaitLists |-> <<>>] /\ k.event_c = [t \in Slots |-> NULL]
      /\ k.cur_delayed = DelayedL /\ k.next_delayed = DelayedOverflowL
  BY DEF rtos_system_init
<1> HIDE DEF k
<1>3. ASSUME NEW K, NULL \notin K
      PROVE  InExactlyOneList([l \in K |-> <<>>], [t \in Slots |-> NULL])
  BY <1>3 DEF InExactlyOneList, In, NoDuplicates
<1>4. ListsInv(k)
  <2>1. \A p \in Priorities : k.state_l[p] = <<>>
    BY <1>2
  <2> QED
    BY <2>1, <1>2, <1>3 DEF ListsInv, ReadyL
<1>5. EventInv(k)
  BY <1>2, <1>3 DEF EventInv
<1>6. TasksInv(k)
  <2>1. IDLE \in Tasks /\ 0 .. 0 - 1 = {}
    BY DEF Tasks
  <2> QED
    BY <2>1, <1>2 DEF TasksInv
<1>7. DelayInv(k, FALSE)
  <2>1. \A l \in DelayLists : k.state_l[l] = <<>>
    BY <1>2
  <2>2. \A l \in DelayLists : SortedBy(k.state_l[l], k.state_v)
    BY <2>1 DEF SortedBy
  <2>3. \A t \in Slots : k.state_c[t] # k.cur_delayed /\ k.state_c[t] # k.next_delayed
    BY <1>2 DEF DelayLists
  <2> QED
    BY <2>2, <2>3, <1>2 DEF DelayInv
<1>8. WaitInv(k)
  <2>1. \A w \in WaitLists : k.event_l[w] = <<>>
    BY <1>2
  <2> QED
    BY <2>1, <1>2 DEF WaitInv, SortedDown
<1> QED
  BY <1>1, <1>2, <1>4, <1>5, <1>6, <1>7, <1>8 DEF KInv, k

(* No task has run yet: nobody is blocked, waits or holds a mutex. *)
Fresh(k) ==
    \A t \in Slots :
        /\ k.event_c[t] = NULL /\ ~Blocked(k, t)
        /\ k.eff[t] = k.priority[t] /\ k.held[t] = 0 /\ k.reason[t] = "WAIT_NO_REASON"

(* The state of the kernel when main has created its first n tasks. *)
MainState(k, n) ==
    /\ KInv(k) /\ DelayInv(k, FALSE) /\ Fresh(k)
    /\ k.cur = NULL /\ k.tsk_cnt = n
    /\ n > 0 => k.bitmap # {}

(* The creation of tasks by main, one after the other, is well defined and *)
(* keeps the invariant.                                                    *)
LEMMA TasksCreatedState ==
    ASSUME NEW prios \in Seq(Priorities), Len(prios) <= MaxTasks
    PROVE  MainState(TasksCreated(prios), Len(prios))
<1> DEFINE Step(f, n) == IF n = 0 THEN rtos_system_init ELSE artos_task_create(f[n - 1], prios[n])
           Upto(f, m) == f = [n \in 0 .. m |-> Step(f, n)]
           N == Len(prios)
<1>0. N \in Nat /\ \A n \in 1 .. N : prios[n] \in Priorities
  BY LenProperties, ElementOfSeq
<1>1. \A m \in 0 .. N : \E f : Upto(f, m)
  <2> DEFINE Bad == {m \in 0 .. N : ~ \E f : Upto(f, m)}
  <2> SUFFICES ASSUME Bad # {} PROVE FALSE
    OBVIOUS
  <2>1. PICK m \in Bad : \A x \in Bad : m <= x
    <3>1. Bad \in SUBSET Nat
      BY <1>0
    <3> HIDE DEF Bad
    <3> QED
      BY <3>1, LeastElement
  <2>2. m # 0
    <3> DEFINE f == [n \in 0 .. 0 |-> rtos_system_init]
    <3>1. Upto(f, 0)
      OBVIOUS
    <3> QED
      BY <3>1
  <2>3. m - 1 \in 0 .. N /\ m - 1 \notin Bad
    <3>1. m \in 0 .. N
      OBVIOUS
    <3> HIDE DEF Bad
    <3> QED
      BY <3>1, <1>0, <2>1, <2>2
  <2>4. PICK f : Upto(f, m - 1)
    BY <2>3
  <2> DEFINE g == [n \in 0 .. m |-> IF n = m THEN artos_task_create(f[m - 1], prios[m]) ELSE f[n]]
  <2>5. \A n \in 0 .. m - 1 : f[n] = Step(f, n)
    BY <2>4
  <2>6. \A n \in 0 .. m : g[n] = IF n = m THEN artos_task_create(f[m - 1], prios[m]) ELSE f[n]
    OBVIOUS
  <2>7. ASSUME NEW n \in 0 .. m PROVE g[n] = Step(g, n)
    <3>1. CASE n = 0
      BY <3>1, <2>2, <2>3, <2>5, <2>6
    <3>2. CASE n # 0
      <4>1. n - 1 \in 0 .. m - 1 /\ n - 1 \in 0 .. m /\ n - 1 # m
        BY <3>2, <1>0
      <4>2. g[n - 1] = f[n - 1]
        BY <4>1, <2>6
      <4>3. CASE n = m
        BY <4>2, <4>3, <3>2, <2>6
      <4>4. CASE n # m
        <5>1. n \in 0 .. m - 1
          BY <4>4, <1>0
        <5> QED
          BY <5>1, <4>2, <4>4, <3>2, <2>5, <2>6
      <4> QED
        BY <4>3, <4>4
    <3> QED
      BY <3>1, <3>2
  <2>8. g = [n \in 0 .. m |-> g[n]]
    OBVIOUS
  <2> HIDE DEF g
  <2>9. Upto(g, m)
    BY <2>7, <2>8
  <2> QED
    BY <2>1, <2>9
<1>2. PICK f : Upto(f, N) /\ TasksCreated(prios) = f[N]
  <2>1. \E f : f = [n \in 0 .. Len(prios) |-> IF n = 0 THEN rtos_system_init
                                               ELSE artos_task_create(f[n - 1], prios[n])]
    BY <1>0, <1>1
  <2>2. \E f : /\ f = [n \in 0 .. Len(prios) |-> IF n = 0 THEN rtos_system_init
                                                  ELSE artos_task_create(f[n - 1], prios[n])]
               /\ TasksCreated(prios) = f[Len(prios)]
    BY <2>1 DEF TasksCreated
  <2> QED
    BY <2>2
<1>3. /\ f[0] = rtos_system_init
      /\ \A n \in 1 .. N : f[n] = artos_task_create(f[n - 1], prios[n])
  BY <1>0, <1>2
<1>4. MainState(f[0], 0)
  <2>1. Fresh(rtos_system_init)
    BY KernelFacts DEF Fresh, Blocked, rtos_system_init, Tasks
  <2>2. rtos_system_init.cur = NULL /\ rtos_system_init.tsk_cnt = 0
    BY DEF rtos_system_init
  <2> QED
    <3>1. ~(0 > 0)
      OBVIOUS
    <3> QED
      BY <3>1, <2>1, <2>2, <1>3, SystemInit, Zenon DEF MainState
<1>5. ASSUME NEW n \in 1 .. N, MainState(f[n - 1], n - 1)
      PROVE  MainState(f[n], n)
  <2> DEFINE k == f[n - 1]
             r == f[n]
             p == prios[n]
             t == k.tsk_cnt
  <2>1. KInv(k) /\ DelayInv(k, FALSE) /\ Fresh(k) /\ k.cur = NULL /\ k.tsk_cnt = n - 1 /\ p \in Priorities
    BY <1>0, <1>5 DEF MainState
  <2>2. r = artos_task_create(k, p)
    BY <1>3
  <2> HIDE DEF k, r, p
  <2>3. k.created # Slots
    <3>1. k.created = 0 .. k.tsk_cnt - 1
      BY <2>1 DEF KInv, TasksInv
    <3>2. n - 1 \in Slots /\ n - 1 \notin k.created
      BY <3>1, <2>1, <1>0, KernelFacts DEF Slots
    <3> QED
      BY <3>2
  <2>4. CreatedTask(r, k, p)
    BY <2>1, <2>2, <2>3, CreateEffect
  <2>5. /\ KInv(r) /\ DelayInv(r, FALSE) /\ r.cur = NULL /\ r.bitmap # {} /\ r.tsk_cnt = n
        /\ r.event_c = k.event_c
        /\ t \in Slots
        /\ r.priority = [k.priority EXCEPT ![t] = p]
        /\ r.eff = [k.eff EXCEPT ![t] = p]
        /\ r.held = [k.held EXCEPT ![t] = 0]
        /\ r.reason = [k.reason EXCEPT ![t] = "WAIT_NO_REASON"]
        /\ r.state_c = [k.state_c EXCEPT ![t] = p]
    <3>1. n - 1 + 1 = n
      BY <1>0
    <3>2. \A A, x : A \cup {x} # {}
      OBVIOUS
    <3> QED
      BY <3>1, <3>2, <2>1, <2>4, Zenon DEF CreatedTask
  <2>6. /\ k.priority \in [Tasks -> Priorities] /\ k.eff \in [Tasks -> Priorities]
        /\ k.held \in [Tasks -> 0 .. MaxHeld] /\ k.reason \in [Tasks -> WaitReasons]
        /\ k.state_c \in [Slots -> StateLists \cup {NULL}] /\ Slots \subseteq Tasks
    BY <2>1 DEF KInv, KernelType, Tasks
  <2> HIDE DEF t
  <2>7. Fresh(r)
    <3> SUFFICES ASSUME NEW u \in Slots
                 PROVE  /\ r.event_c[u] = NULL /\ ~Blocked(r, u)
                        /\ r.eff[u] = r.priority[u] /\ r.held[u] = 0
                        /\ r.reason[u] = "WAIT_NO_REASON"
      BY DEF Fresh
    <3>1. CASE u = t
      BY <3>1, <2>1, <2>5, <2>6, KernelFacts DEF Fresh, Blocked
    <3>2. CASE u # t
      BY <3>2, <2>1, <2>5, <2>6 DEF Fresh, Blocked
    <3> QED
      BY <3>1, <3>2
  <2> QED
    BY <2>5, <2>7 DEF MainState, r
<1>6. \A n \in 0 .. N : MainState(f[n], n)
  <2> DEFINE Bad == {n \in 0 .. N : ~ MainState(f[n], n)}
  <2> SUFFICES ASSUME Bad # {} PROVE FALSE
    OBVIOUS
  <2>1. PICK n \in Bad : \A x \in Bad : n <= x
    <3>1. Bad \in SUBSET Nat
      BY <1>0
    <3> HIDE DEF Bad
    <3> QED
      BY <3>1, LeastElement
  <2>2. n # 0 /\ n \in 0 .. N
    BY <1>4
  <2>3. n - 1 \in 0 .. N /\ n - 1 \notin Bad /\ n \in 1 .. N
    BY <1>0, <2>1, <2>2
  <2>4. MainState(f[n - 1], n - 1)
    BY <2>3
  <2> QED
    BY <2>3, <2>4, <1>5
<1> QED
  BY <1>0, <1>2, <1>6

(* The started kernel: the first task to run has the highest priority. *)
LEMMA StartedState ==
    ASSUME NEW prios \in Seq(Priorities), Len(prios) \in 1 .. MaxTasks,
           NEW k, k = rtos_scheduler_start(TasksCreated(prios))
    PROVE  /\ KInv(k) /\ DelayInv(k, FALSE) /\ Fresh(k)
           /\ k.cur \in Slots /\ k.state_c[k.cur] = NULL
           /\ \A p \in k.bitmap : p <= k.eff[k.cur]
<1> DEFINE m == TasksCreated(prios)
<1>1. Len(prios) <= MaxTasks /\ Len(prios) > 0
  BY KernelFacts
<1>2. MainState(m, Len(prios))
  BY <1>1, TasksCreatedState
<1> HIDE DEF m
<1>3. KInv(m) /\ DelayInv(m, FALSE) /\ m.cur = NULL /\ m.bitmap # {} /\ Fresh(m)
  BY <1>1, <1>2 DEF MainState
<1>4. Switched(k, m) /\ DelayInv(k, FALSE) /\ k.cur \in Slots
  BY <1>3, StartKeeps DEF m
<1>5. Fresh(k)
  <2>1. \A t \in Slots : ~Blocked(k, t)
    BY <1>3, <1>4 DEF Fresh, Switched, SameWaits, Blocked
  <2> QED
    BY <2>1, <1>3, <1>4 DEF Fresh, Switched, SameWaits
<1> QED
  BY <1>4, <1>5 DEF Switched
-----------------------------------------------------------------------------
(* The calls of the kernel objects that block: a task joins the wait list  *)
(* w, is unblocked by a signal or by the tick handler, and reads the wait  *)
(* reason when it runs again.  While it is in such a call:                 *)
InCall(k, t, w, infinite) ==
    /\ k.event_c[t] \in {NULL, w}
    /\ k.event_c[t] # NULL /\ infinite => k.state_c[t] = SuspendL
    /\ k.event_c[t] = NULL =>
          /\ ~Blocked(k, t)
          /\ k.reason[t] # "WAIT_NO_REASON"
          /\ infinite => k.reason[t] = "WAIT_SIGNALED"

(* It stays in it while nothing changes for the tasks that wait ... *)
LEMMA CallKept ==
    ASSUME NEW k, KInv(k), NEW r, SameWaits(r, k), NEW t \in Slots, NEW w, NEW infinite,
           InCall(k, t, w, infinite)
    PROVE  InCall(r, t, w, infinite)
<1>1. k.event_c[t] # NULL => Blocked(k, t)
  BY DEF KInv, EventInv, Blocked
<1>2. r.event_c = k.event_c /\ r.reason = k.reason
      /\ (Blocked(k, t) \/ Blocked(r, t) => r.state_c[t] = k.state_c[t])
  BY DEF SameWaits
<1> QED
  BY <1>1, <1>2 DEF InCall, Blocked

(* ... while a task is unblocked, for a reason that a task which waits for *)
(* ever expects ...                                                        *)
LEMMA CallUnblocked ==
    ASSUME NEW k, KInv(k), NEW u \in Slots, Blocked(k, u), NEW r,
           NEW reason \in {"WAIT_SIGNALED", "WAIT_TIMED_OUT"}, Unblocked(r, k, u, reason),
           reason = "WAIT_SIGNALED" \/ k.state_c[u] \in DelayLists,
           NEW t \in Slots, NEW w, NEW infinite, InCall(k, t, w, infinite)
    PROVE  InCall(r, t, w, infinite)
<1>1. /\ r.reason = [k.reason EXCEPT ![u] = reason]
      /\ r.state_c = [k.state_c EXCEPT ![u] = k.eff[u]]
      /\ r.event_c = [k.event_c EXCEPT ![u] = NULL]
  BY DEF Unblocked
<1>2. /\ k.reason \in [Tasks -> WaitReasons] /\ k.state_c \in [Slots -> StateLists \cup {NULL}]
      /\ k.event_c \in [Slots -> WaitLists \cup {NULL}] /\ u \in Tasks /\ t \in Tasks
      /\ k.eff[u] \in Priorities
  BY DEF KInv, KernelType, Tasks
<1>3. CASE u = t
  <2>1. r.reason[t] = reason /\ r.event_c[t] = NULL /\ ~Blocked(r, t)
    BY <1>1, <1>2, <1>3, KernelFacts DEF Blocked
  <2>2. infinite => k.state_c[t] = SuspendL
    BY <1>3 DEF InCall
  <2>3. infinite => reason = "WAIT_SIGNALED"
    BY <2>2, <1>3, KernelFacts
  <2> QED
    BY <2>1, <2>3 DEF InCall
<1>4. CASE u # t
  <2>1. /\ r.reason[t] = k.reason[t] /\ r.event_c[t] = k.event_c[t]
        /\ r.state_c[t] = k.state_c[t]
    BY <1>1, <1>2, <1>4
  <2> QED
    BY <2>1 DEF InCall, Blocked
<1> QED
  BY <1>3, <1>4

(* ... and while another task enters such a call.                          *)
LEMMA CallEntered ==
    ASSUME NEW k, KInv(k), k.cur \in Slots, NEW w \in WaitLists, NEW infinite \in BOOLEAN,
           NEW r, BlockedOn(r, k, w, infinite)
    PROVE  /\ InCall(r, k.cur, w, infinite)
           /\ r.event_c[k.cur] = w
           /\ \A t \in Slots : t # k.cur =>
                 /\ r.event_c[t] = k.event_c[t] /\ r.reason[t] = k.reason[t]
                 /\ \A v, i : InCall(k, t, v, i) => InCall(r, t, v, i)
<1>1. /\ r.event_c = [k.event_c EXCEPT ![k.cur] = w] /\ r.reason = k.reason
      /\ infinite => r.state_c[k.cur] = SuspendL
      /\ \A t \in Slots : t # k.cur => r.state_c[t] = k.state_c[t]
  BY KernelFacts DEF BlockedOn
<1>2. k.event_c \in [Slots -> WaitLists \cup {NULL}] /\ w # NULL
  BY KernelFacts DEF KInv, KernelType
<1>3. r.event_c[k.cur] = w /\ \A t \in Slots : t # k.cur => r.event_c[t] = k.event_c[t]
  BY <1>1, <1>2
<1> QED
  BY <1>1, <1>2, <1>3 DEF InCall, Blocked

(* The first task of a wait list is blocked, in that list, and its item    *)
(* has its priority as value.                                              *)
LEMMA FirstWaiter ==
    ASSUME NEW k, KInv(k), NEW w \in WaitLists, k.event_l[w] # <<>>,
           NEW t, t = Head(k.event_l[w])
    PROVE  t \in Slots /\ Blocked(k, t) /\ k.event_c[t] = w /\ k.event_v[t] = k.eff[t]
<1>1. ListsOf(WaitLists, k.event_l, k.event_c)
  BY TypedWaitLists DEF KInv
<1>2. t \in Slots /\ k.event_c[t] = w
  BY <1>1, EmptyList
<1> QED
  BY <1>2, KernelFacts DEF KInv, EventInv, WaitInv, Blocked

(* Nobody waits in an empty wait list, and only there. *)
LEMMA EmptyWaitList ==
    ASSUME NEW k, KInv(k), NEW w \in WaitLists
    PROVE  k.event_l[w] = <<>> <=> \A t \in Slots : k.event_c[t] # w
<1>1. ListsOf(WaitLists, k.event_l, k.event_c)
  BY TypedWaitLists DEF KInv
<1> QED
  BY <1>1, EmptyList

(* Tasks of equal priority wait in the order in which they came: one that  *)
(* waits stays ahead of one that joins or is behind it.                    *)
KeepsOrder(r, k) ==
    \A w \in WaitLists, t, u \in Slots :
        /\ k.event_c[t] = w /\ r.event_c[t] = w
        /\ r.event_c[u] = w /\ k.eff[t] = r.eff[u]
        /\ k.event_c[u] # w \/ Before(k.event_l[w], t, u)
        /\ t # u
        => Before(r.event_l[w], t, u)

LEMMA SameWaitsKeepsOrder ==
    ASSUME NEW k, NEW r, SameWaits(r, k)
    PROVE  KeepsOrder(r, k)
BY DEF SameWaits, KeepsOrder

LEMMA UnblockKeepsOrder ==
    ASSUME NEW k, KInv(k), NEW v \in Slots, NEW reason, NEW r, Unblocked(r, k, v, reason)
    PROVE  KeepsOrder(r, k)
<1> SUFFICES ASSUME NEW w \in WaitLists, NEW t \in Slots, NEW u \in Slots,
                    k.event_c[t] = w, r.event_c[t] = w, r.event_c[u] = w,
                    k.event_c[u] # w \/ Before(k.event_l[w], t, u)
             PROVE  Before(r.event_l[w], t, u)
  BY DEF KeepsOrder
<1>1. /\ r.event_c = [k.event_c EXCEPT ![v] = NULL]
      /\ r.event_l[w] = IF w = k.event_c[v] THEN rtos_list_remove(k.event_l[w], v)
                        ELSE k.event_l[w]
  BY DEF Unblocked
<1>2. k.event_c \in [Slots -> WaitLists \cup {NULL}] /\ w # NULL
  BY KernelFacts DEF KInv, KernelType
<1>3. t # v /\ u # v /\ k.event_c[u] = w /\ Before(k.event_l[w], t, u)
  BY <1>1, <1>2
<1>4. ListsOf(WaitLists, k.event_l, k.event_c)
  BY TypedWaitLists DEF KInv
<1>5. CASE w = k.event_c[v]
  <2>1. k.event_l[w] \in Seq(Slots) /\ In(k.event_l[w], v)
    BY <1>4, <1>5 DEF ListsOf, InExactlyOneList
  <2> QED
    BY <2>1, <1>1, <1>3, <1>5, RemoveOrder
<1>6. CASE w # k.event_c[v]
  BY <1>1, <1>3, <1>6
<1> QED
  BY <1>5, <1>6

LEMMA BlockKeepsOrder ==
    ASSUME NEW k, KInv(k), k.cur \in Slots, k.event_c[k.cur] = NULL, NEW v \in WaitLists,
           NEW infinite \in BOOLEAN, NEW r, BlockedOn(r, k, v, infinite)
    PROVE  KeepsOrder(r, k)
<1> SUFFICES ASSUME NEW w \in WaitLists, NEW t \in Slots, NEW u \in Slots,
                    k.event_c[t] = w, r.event_c[t] = w, r.event_c[u] = w, k.eff[t] = r.eff[u],
                    k.event_c[u] # w \/ Before(k.event_l[w], t, u)
             PROVE  Before(r.event_l[w], t, u)
  BY DEF KeepsOrder
<1>1. /\ r.event_c = [k.event_c EXCEPT ![k.cur] = v] /\ r.eff = k.eff
      /\ \A x \in WaitLists : x # v => r.event_l[x] = k.event_l[x]
      /\ \E i \in 1 .. Len(k.event_l[v]) + 1 : r.event_l[v] = InsertAt(k.event_l[v], i, k.cur)
      /\ \A x \in Slots : In(k.event_l[v], x) /\ k.eff[x] >= k.eff[k.cur] =>
                Before(r.event_l[v], x, k.cur)
  BY KernelFacts DEF BlockedOn
<1>2. k.event_c \in [Slots -> WaitLists \cup {NULL}] /\ w # NULL /\ v # NULL
  BY KernelFacts DEF KInv, KernelType
<1>3. ListsOf(WaitLists, k.event_l, k.event_c)
  BY TypedWaitLists DEF KInv
<1>4. k.event_l[w] \in Seq(Slots) /\ In(k.event_l[w], t)
  BY <1>3 DEF ListsOf, InExactlyOneList
<1>5. CASE u = k.cur
  <2>1. w = v /\ k.eff[t] = k.eff[k.cur]
    BY <1>1, <1>2, <1>5
  <2>2. k.eff[t] >= k.eff[k.cur]
    <3>1. k.eff[t] \in Priorities
      BY DEF KInv, KernelType, Tasks
    <3>2. k.eff[t] \in Int
      BY <3>1, KernelFacts DEF Priorities
    <3> QED
      BY <3>2, <2>1
  <2> QED
    BY <2>1, <2>2, <1>1, <1>4, <1>5
<1>6. CASE u # k.cur
  <2>1. k.event_c[u] = w /\ Before(k.event_l[w], t, u)
    BY <1>1, <1>2, <1>6
  <2>2. CASE w = v
    BY <2>1, <2>2, <1>1, <1>4, InsertOrder
  <2>3. CASE w # v
    BY <2>1, <2>3, <1>1
  <2> QED
    BY <2>2, <2>3
<1> QED
  BY <1>5, <1>6

(* Sets of tasks are finite, and count like sets. *)
LEMMA TaskSetCard ==
    ASSUME NEW T \in SUBSET Slots, NEW t
    PROVE  /\ IsFiniteSet(T) /\ Cardinality(T) \in Nat
           /\ t \notin T => Cardinality(T \cup {t}) = Cardinality(T) + 1
           /\ t \in T => Cardinality(T \ {t}) = Cardinality(T) - 1
<1>1. IsFiniteSet(Slots)
  BY KernelFacts, FS_Interval DEF Slots
<1>2. IsFiniteSet(T)
  BY <1>1, FS_Subset
<1> QED
  BY <1>2, FS_CardinalityType, FS_AddElement, FS_RemoveElement

-----------------------------------------------------------------------------
(* Priority inheritance.  The effective priority of t became new: t moved  *)
(* among the ready lists, or within the wait list it is in.                *)
Reprioritised(r, k, t, new) ==
    /\ KInv(r)
    /\ \A waking \in BOOLEAN : DelayInv(k, waking) => DelayInv(r, waking)
    /\ r.cur = k.cur /\ r.ticks = k.ticks /\ r.created = k.created
    /\ r.priority = k.priority /\ r.held = k.held /\ r.reason = k.reason
    /\ r.eff = [k.eff EXCEPT ![t] = new]
    /\ r.event_c = k.event_c
    /\ \A u \in Slots : IF k.state_c[u] \in Priorities THEN r.state_c[u] \in Priorities
                        ELSE r.state_c[u] = k.state_c[u]

(* A list does not depend on the value of an item that is not in it. *)
LEMMA SortedDownFrame ==
    ASSUME NEW s \in Seq(Slots), NEW val, NEW val2, NEW t, SortedDown(s, val),
           ~In(s, t), \A u \in Slots : u # t => val2[u] = val[u]
    PROVE  SortedDown(s, val2)
<1>1. \A i \in DOMAIN s : s[i] \in Slots /\ s[i] # t
  BY ElementOfSeq, LenProperties DEF In
<1>2. \A i \in DOMAIN s : val2[s[i]] = val[s[i]]
  BY <1>1
<1> QED
  BY <1>2 DEF SortedDown

(* What the three cases of rtos_set_effective_priority share. *)
LEMMA NewPriority ==
    ASSUME NEW k, KInv(k), NEW t \in Slots, NEW new \in Priorities,
           NEW E, E = [k.eff EXCEPT ![t] = new]
    PROVE  /\ E \in [Tasks -> Priorities] /\ E[t] = new
           /\ \A u \in Tasks : u # t => E[u] = k.eff[u]
           /\ E[IDLE] = 0 /\ t \in Tasks /\ t # IDLE
<1>1. k.eff \in [Tasks -> Priorities] /\ k.eff[IDLE] = 0 /\ t \in Tasks /\ t # IDLE /\ IDLE \in Tasks
  BY KernelFacts DEF KInv, KernelType, TasksInv, Tasks
<1> QED
  BY <1>1

(* A ready task moves to the ready list of its new priority. *)
LEMMA SetReadyPriority ==
    ASSUME NEW k, KInv(k), NEW t \in Slots, NEW new \in Priorities,
           k.state_c[t] = k.eff[t], new # k.eff[t], new >= k.priority[t],
           NEW r, r = rtos_set_effective_priority(k, t, new)
    PROVE  Reprioritised(r, k, t, new)
<1> DEFINE old == k.eff[t]
           E == [k.eff EXCEPT ![t] = new]
           k1 == StateRemove(k, t)
           b == IF k1.state_l[old] = <<>> THEN k.bitmap \ {old} ELSE k.bitmap
           k3 == [k1 EXCEPT !.bitmap = b, !.eff = E]
<1>k. k \in KernelType /\ ListsInv(k) /\ EventInv(k) /\ WaitInv(k) /\ TasksInv(k) /\ ~k.failed
  BY DEF KInv
<1>1. /\ E \in [Tasks -> Priorities] /\ E[t] = new
      /\ \A u \in Tasks : u # t => E[u] = k.eff[u]
      /\ E[IDLE] = 0 /\ t \in Tasks /\ t # IDLE
  BY NewPriority
<1>2. /\ old \in Priorities /\ old \in StateLists /\ k.state_c[t] # NULL
      /\ ~Blocked(k, t) /\ k.event_c[t] = NULL
  <2>1. old \in Priorities
    BY <1>1, <1>k DEF KernelType
  <2>2. old \in StateLists /\ k.state_c[t] # NULL /\ ~Blocked(k, t)
    BY <2>1, KernelFacts DEF Blocked
  <2> QED
    BY <2>1, <2>2, <1>k DEF EventInv, Blocked
<1>3. /\ k1 \in KernelType
      /\ InExactlyOneList(k1.state_l, k1.state_c)
      /\ SameScalars(k1, k)
      /\ k1.cur = k.cur /\ k1.reason = k.reason /\ k1.bitmap = k.bitmap
      /\ k1.event_l = k.event_l /\ k1.event_c = k.event_c
      /\ k1.state_c = [k.state_c EXCEPT ![t] = NULL]
      /\ \A l \in StateLists : l # old => k1.state_l[l] = k.state_l[l]
  BY <1>2, <1>k, StateRemoveEffect
<1>4. r = rtos_insert_ready_list(k3, t)
  <2> DEFINE a1 == ClearReadyBit(k1, old)
             a3 == [a1 EXCEPT !.eff[t] = new]
  <2>1. r = rtos_insert_ready_list(a3, t)
    <3>1. ~(new \notin Priorities \/ new < k.priority[t])
      BY <1>k, <1>1, KernelFacts DEF KernelType, Priorities
    <3>2. k.state_c[t] = ReadyL(old) /\ ~(k.event_c[t] # NULL)
      BY <1>2 DEF ReadyL
    <3> QED
      BY <3>1, <3>2, Zenon DEF rtos_set_effective_priority
  <2> HIDE DEF k1
  <2>2. a1 = [k1 EXCEPT !.bitmap = b]
    BY <1>3 DEF ClearReadyBit, ReadyL
  <2>3. a1.eff = k.eff
    BY <2>2, <1>3 DEF KernelType, SameScalars
  <2>4. a3 = [a1 EXCEPT !.eff = E]
    BY <2>3
  <2> HIDE DEF a1, b, E
  <2>5. a3 = k3
    BY <2>2, <2>4, <1>3 DEF KernelType
  <2> QED
    BY <2>1, <2>5
<1> HIDE DEF k1
<1>5. b = {q \in Priorities : k1.state_l[q] # <<>>} /\ b \in SUBSET Priorities
  <2>1. k.bitmap = {q \in Priorities : k.state_l[q] # <<>>} /\ Priorities \subseteq StateLists
    BY <1>k, KernelFacts DEF ListsInv, ReadyL
  <2>2. k.state_l[old] # <<>>
    <3>1. In(k.state_l[old], t)
      BY <1>2, <1>k, TypedLists DEF ListsInv, InExactlyOneList
    <3> QED
      BY <3>1 DEF In
  <2>3. \A q \in Priorities : q \in b <=> k1.state_l[q] # <<>>
    <3> TAKE q \in Priorities
    <3>1. CASE q = old
      BY <3>1, <2>1, <2>2
    <3>2. CASE q # old
      <4>1. k1.state_l[q] = k.state_l[q]
        BY <3>2, <2>1, <1>3
      <4> QED
        BY <4>1, <3>2, <2>1
    <3> QED
      BY <3>1, <3>2
  <2>4. b \in SUBSET Priorities
    BY <2>1
  <2> HIDE DEF b
  <2> QED
    BY <2>3, <2>4
<1> HIDE DEF b, E
<1>6. k3 \in KernelType
  BY <1>1, <1>3, <1>5, ZenonT(60) DEF KernelType
<1>7. /\ k3.eff = E /\ k3.bitmap = b /\ k3.cur = k1.cur /\ k3.reason = k1.reason
      /\ k3.state_l = k1.state_l /\ k3.state_c = k1.state_c
      /\ k3.event_l = k1.event_l /\ k3.event_c = k1.event_c /\ k3.event_v = k1.event_v
      /\ k3.ticks = k1.ticks /\ k3.tsk_cnt = k1.tsk_cnt /\ k3.created = k1.created
      /\ k3.priority = k1.priority /\ k3.held = k1.held /\ k3.state_v = k1.state_v
      /\ k3.cur_delayed = k1.cur_delayed /\ k3.next_delayed = k1.next_delayed
      /\ k3.failed = k1.failed
  BY <1>3 DEF KernelType
<1> HIDE DEF k3
<1>8. k1.state_c[t] = NULL /\ \A u \in Slots : u # t => k1.state_c[u] = k.state_c[u]
  BY <1>3, <1>k, TypedLists
<1>9. ListsInv(k3)
  <2>1. \A u \in Slots : k1.state_c[u] \in Priorities => k1.state_c[u] = E[u]
    <3> SUFFICES ASSUME NEW u \in Slots, k1.state_c[u] \in Priorities PROVE k1.state_c[u] = E[u]
      OBVIOUS
    <3>1. u # t /\ u \in Tasks
      BY <1>8, KernelFacts DEF Tasks
    <3> QED
      BY <3>1, <1>1, <1>8, <1>k DEF ListsInv, ReadyL
  <2> QED
    BY <2>1, <1>3, <1>5, <1>7 DEF ListsInv, ReadyL
<1>10. /\ r \in KernelType /\ ListsInv(r) /\ SameScalars(r, k3)
       /\ r.cur = k3.cur /\ r.reason = k3.reason
       /\ r.event_l = k3.event_l /\ r.event_c = k3.event_c
       /\ r.state_c = [k3.state_c EXCEPT ![t] = k3.eff[t]]
       /\ \A l \in StateLists : l # k3.eff[t] => r.state_l[l] = k3.state_l[l]
  <2>1. k3.state_c[t] = NULL
    BY <1>7, <1>8
  <2> QED
    BY <2>1, <1>4, <1>6, <1>9, InsertReadyList
<1>11. r.state_c[t] = new /\ \A u \in Slots : u # t => r.state_c[u] = k.state_c[u]
  <2>1. k3.state_c \in [Slots -> StateLists \cup {NULL}] /\ k3.eff[t] = new
    BY <1>1, <1>6, <1>7 DEF KernelType
  <2> QED
    BY <2>1, <1>7, <1>8, <1>10
<1>12. /\ r.cur = k.cur /\ r.ticks = k.ticks /\ r.created = k.created /\ r.tsk_cnt = k.tsk_cnt
       /\ r.priority = k.priority /\ r.held = k.held /\ r.reason = k.reason /\ r.eff = E
       /\ r.event_c = k.event_c /\ r.event_l = k.event_l /\ r.event_v = k.event_v
       /\ r.state_v = k.state_v /\ r.failed = k.failed
       /\ r.cur_delayed = k.cur_delayed /\ r.next_delayed = k.next_delayed
  BY <1>3, <1>7, <1>10 DEF SameScalars
<1>13. \A l \in DelayLists : r.state_l[l] = k.state_l[l]
  BY <1>1, <1>2, <1>3, <1>7, <1>10, KernelFacts
<1>14. EventInv(r)
  BY <1>2, <1>11, <1>12, <1>k DEF EventInv
<1>15. WaitInv(r)
  <2>1. \A u \in Slots : r.event_c[u] # NULL => r.event_v[u] = E[u]
    BY <1>1, <1>2, <1>12, <1>k DEF WaitInv, Tasks
  <2> QED
    BY <2>1, <1>12, <1>k DEF WaitInv
<1>16. TasksInv(r)
  <2>1. new # NULL /\ t \in k.created
    BY <1>2, <1>k, KernelFacts DEF TasksInv
  <2> QED
    BY <2>1, <1>1, <1>11, <1>12, <1>k DEF TasksInv
<1>17. KInv(r)
  BY <1>10, <1>12, <1>14, <1>15, <1>16, <1>k DEF KInv
<1>18. ASSUME NEW waking \in BOOLEAN, DelayInv(k, waking) PROVE DelayInv(r, waking)
  <2>1. \A u \in Slots : r.state_c[u] \in DelayLists => r.state_c[u] = k.state_c[u]
    BY <1>11, KernelFacts
  <2> QED
    BY <2>1, <1>12, <1>13, <1>18, <1>k, DelayFrame
<1> QED
  BY <1>2, <1>11, <1>12, <1>17, <1>18 DEF Reprioritised, E

(* A waiting task moves to its new place in the wait list. *)
LEMMA SetWaiterPriority ==
    ASSUME NEW k, KInv(k), NEW t \in Slots, NEW new \in Priorities,
           k.event_c[t] # NULL, new # k.eff[t], new >= k.priority[t],
           NEW r, r = rtos_set_effective_priority(k, t, new)
    PROVE  Reprioritised(r, k, t, new)
<1> DEFINE w == k.event_c[t]
           E == [k.eff EXCEPT ![t] = new]
           V == [k.event_v EXCEPT ![t] = new]
           k2 == EventRemove(k, t)
           s == k2.event_l[w]
           s2 == rtos_list_insert_reversed_sorted(s, t, V)
           L == [k2.event_l EXCEPT ![w] = s2]
           C == [k2.event_c EXCEPT ![t] = w]
<1>k. k \in KernelType /\ ListsInv(k) /\ EventInv(k) /\ WaitInv(k) /\ TasksInv(k) /\ ~k.failed
  BY DEF KInv
<1>1. /\ E \in [Tasks -> Priorities] /\ E[t] = new
      /\ \A u \in Tasks : u # t => E[u] = k.eff[u]
      /\ E[IDLE] = 0 /\ t \in Tasks /\ t # IDLE /\ Slots \subseteq Tasks
  <2>1. Slots \subseteq Tasks
    BY DEF Tasks
  <2>2. /\ E \in [Tasks -> Priorities] /\ E[t] = new
        /\ \A u \in Tasks : u # t => E[u] = k.eff[u]
        /\ E[IDLE] = 0 /\ t \in Tasks /\ t # IDLE
    BY NewPriority
  <2> QED
    BY <2>1, <2>2
<1>2. /\ w \in WaitLists /\ NULL \notin WaitLists /\ Blocked(k, t)
      /\ k.state_c[t] \notin Priorities /\ k.eff[t] \in Priorities
  BY <1>1, <1>k, KernelFacts DEF KernelType, EventInv, Blocked
<1>3. /\ V \in [Slots -> Priorities] /\ V \in [Slots -> Nat] /\ V[t] = new
      /\ \A u \in Slots : u # t => V[u] = k.event_v[u]
  <2>1. k.event_v \in [Slots -> Priorities] /\ Priorities \subseteq Nat
    BY <1>k, KernelFacts DEF KernelType, Priorities
  <2>2. /\ V \in [Slots -> Priorities] /\ V[t] = new
        /\ \A u \in Slots : u # t => V[u] = k.event_v[u]
    BY <2>1
  <2> HIDE DEF V
  <2> QED
    BY <2>1, <2>2
<1>4. /\ k2 \in KernelType
      /\ InExactlyOneList(k2.event_l, k2.event_c)
      /\ SameScalars(k2, k)
      /\ k2.cur = k.cur /\ k2.reason = k.reason /\ k2.bitmap = k.bitmap
      /\ k2.state_l = k.state_l /\ k2.state_c = k.state_c
      /\ k2.event_c = [k.event_c EXCEPT ![t] = NULL]
      /\ \A v \in WaitLists :
            k2.event_l[v] = IF v = w THEN rtos_list_remove(k.event_l[v], t) ELSE k.event_l[v]
  BY <1>k, EventRemoveEffect DEF EventInv
<1>5. r = [k2 EXCEPT !.eff = E, !.event_v = V, !.event_l = L, !.event_c = C]
  <2> DEFINE a3 == [k2 EXCEPT !.eff[t] = new]
             a4 == [a3 EXCEPT !.event_v[t] = new]
             a5 == [a4 EXCEPT !.event_l[w] =
                                  rtos_list_insert_reversed_sorted(@, t, a4.event_v),
                              !.event_c[t] = w]
  <2>1. r = a5
    <3>1. ~(new \notin Priorities \/ new < k.priority[t])
      BY <1>k, <1>1, KernelFacts DEF KernelType, Priorities
    <3>2. k.state_c[t] # ReadyL(k.eff[t])
      BY <1>2 DEF ReadyL
    <3> QED
      BY <3>1, <3>2, Zenon DEF rtos_set_effective_priority
  <2> HIDE DEF k2
  <2>2. k2.eff = k.eff /\ k2.event_v = k.event_v
    BY <1>4 DEF SameScalars
  <2>3. a3 = [k2 EXCEPT !.eff = E]
    BY <2>2
  <2> HIDE DEF E
  <2>4. a3.event_v = k.event_v
    BY <2>2, <2>3, <1>4 DEF KernelType
  <2>5. a4 = [a3 EXCEPT !.event_v = V]
    BY <2>4
  <2> HIDE DEF a3, V
  <2>6. a4 = [k2 EXCEPT !.eff = E, !.event_v = V]
    BY <2>3, <2>5, <1>4 DEF KernelType
  <2>7. a4.event_v = V /\ a4.event_l = k2.event_l /\ a4.event_c = k2.event_c
    BY <2>6, <1>4 DEF KernelType
  <2> HIDE DEF a4
  <2>a. rtos_list_insert_reversed_sorted(a4.event_l[w], t, a4.event_v) = s2
    BY <2>7
  <2> HIDE DEF s2
  <2>8. a5 = [a4 EXCEPT !.event_l = L, !.event_c = C]
    BY <2>7, <2>a
  <2> HIDE DEF a4, L, C
  <2> QED
    BY <2>1, <2>6, <2>8, <1>4 DEF KernelType
<1> HIDE DEF k2, E, V
<1>6. ASSUME NEW v \in WaitLists
      PROVE  k2.event_l[v] \in Seq(Slots) /\ SortedDown(k2.event_l[v], V) /\ ~In(k2.event_l[v], t)
  <2>1. k.event_l[v] \in Seq(Slots) /\ SortedDown(k.event_l[v], k.event_v)
        /\ NoDuplicates(k.event_l[v]) /\ (In(k.event_l[v], t) <=> v = w)
    BY <1>k, TypedWaitLists DEF EventInv, InExactlyOneList, WaitInv
  <2>2. /\ k2.event_l[v] \in Seq(Slots) /\ SortedDown(k2.event_l[v], k.event_v)
        /\ ~In(k2.event_l[v], t)
    <3>1. CASE v = w
      BY <3>1, <2>1, <1>4, RemoveMembers, RemoveOrder
    <3>2. CASE v # w
      BY <3>2, <2>1, <1>4
    <3> QED
      BY <3>1, <3>2
  <2>3. \A u \in Slots : u # t => V[u] = k.event_v[u]
    BY <1>3
  <2> DEFINE x == k2.event_l[v]
             y == k.event_v
  <2>4. x \in Seq(Slots) /\ SortedDown(x, y) /\ ~In(x, t) /\ \A u \in Slots : u # t => V[u] = y[u]
    BY <2>2, <2>3
  <2> HIDE DEF x, y
  <2>5. SortedDown(x, V)
    BY <2>4, SortedDownFrame
  <2> QED
    BY <2>2, <2>5 DEF x
<1>7. PICK i \in 1 .. Len(s) + 1 : s2 = InsertAt(s, i, t)
  BY <1>2, <1>3, <1>6, InsertReversed
<1>8. SortedDown(s2, V)
  BY <1>2, <1>3, <1>6, InsertReversed
<1>9. k2.event_l \in [WaitLists -> Seq(Slots)] /\ k2.event_c \in [Slots -> WaitLists \cup {NULL}]
  BY <1>4 DEF KernelType
<1>10. \A v \in WaitLists : L[v] = IF v = w THEN s2 ELSE k2.event_l[v]
  BY <1>9
<1> HIDE DEF s2
<1>11. k2.event_c[t] = NULL
  BY <1>4, <1>k DEF KernelType
<1>12. ListsOf(WaitLists, L, C)
  <2> DEFINE M == [k2.event_l EXCEPT ![w] = InsertAt(k2.event_l[w], i, t)]
  <2>1. ListsOf(WaitLists, k2.event_l, k2.event_c)
    BY <1>4, <1>9 DEF ListsOf
  <2>2. ListsOf(WaitLists, M, C)
    BY <2>1, <1>2, <1>11, InsertKeepsLists
  <2>3. L = M
    BY <1>7
  <2> QED
    BY <2>2, <2>3
<1>13. C = k.event_c
  BY <1>4, <1>k DEF KernelType
<1> HIDE DEF L, C, w
<1>14. r \in KernelType
  <2>1. L \in [WaitLists -> Seq(Slots)] /\ C \in [Slots -> WaitLists \cup {NULL}]
    BY <1>12 DEF ListsOf
  <2> QED
    BY <2>1, <1>1, <1>3, <1>4, <1>5, ZenonT(60) DEF KernelType
<1>15. /\ r.event_l = L /\ r.event_c = C /\ r.event_v = V /\ r.eff = E
       /\ r.cur = k2.cur /\ r.ticks = k2.ticks /\ r.tsk_cnt = k2.tsk_cnt
       /\ r.created = k2.created /\ r.failed = k2.failed
       /\ r.bitmap = k2.bitmap /\ r.state_l = k2.state_l /\ r.state_c = k2.state_c
       /\ r.state_v = k2.state_v /\ r.priority = k2.priority /\ r.held = k2.held
       /\ r.reason = k2.reason
       /\ r.cur_delayed = k2.cur_delayed /\ r.next_delayed = k2.next_delayed
  BY <1>4, <1>5 DEF KernelType
<1>16. /\ r.cur = k.cur /\ r.ticks = k.ticks /\ r.created = k.created /\ r.tsk_cnt = k.tsk_cnt
       /\ r.priority = k.priority /\ r.held = k.held /\ r.reason = k.reason /\ r.failed = k.failed
       /\ r.state_l = k.state_l /\ r.state_c = k.state_c /\ r.bitmap = k.bitmap
       /\ r.state_v = k.state_v /\ r.event_c = k.event_c
       /\ r.cur_delayed = k.cur_delayed /\ r.next_delayed = k.next_delayed
  BY <1>4, <1>13, <1>15 DEF SameScalars
<1>17. ListsInv(r)
  <2>1. \A u \in Slots : k.state_c[u] \in Priorities => k.state_c[u] = E[u]
    BY <1>1, <1>2, <1>k DEF ListsInv, ReadyL
  <2> QED
    BY <2>1, <1>15, <1>16, <1>k DEF ListsInv, ReadyL
<1>18. EventInv(r)
  BY <1>12, <1>15, <1>16, <1>k DEF EventInv, ListsOf
<1>19. WaitInv(r)
  <2>1. \A v \in WaitLists : SortedDown(L[v], V)
    BY <1>6, <1>8, <1>10
  <2>2. \A u \in Slots : k.event_c[u] # NULL => V[u] = E[u]
    BY <1>1, <1>3, <1>k DEF WaitInv
  <2> QED
    BY <2>1, <2>2, <1>15, <1>16 DEF WaitInv
<1>20. TasksInv(r)
  BY <1>1, <1>15, <1>16, <1>k DEF TasksInv
<1>21. KInv(r)
  BY <1>14, <1>16, <1>17, <1>18, <1>19, <1>20, <1>k DEF KInv
<1>22. \A waking \in BOOLEAN : DelayInv(k, waking) => DelayInv(r, waking)
  BY <1>16 DEF DelayInv
<1>23. \A u \in Slots : IF k.state_c[u] \in Priorities THEN r.state_c[u] \in Priorities
                        ELSE r.state_c[u] = k.state_c[u]
  BY <1>16
<1> QED
  BY <1>15, <1>16, <1>21, <1>22, <1>23 DEF Reprioritised, E

(* A task that is neither ready nor waits for an object just gets it. *)
LEMMA SetOtherPriority ==
    ASSUME NEW k, KInv(k), NEW t \in Slots, NEW new \in Priorities,
           k.state_c[t] # k.eff[t], k.event_c[t] = NULL, new # k.eff[t], new >= k.priority[t],
           NEW r, r = rtos_set_effective_priority(k, t, new)
    PROVE  Reprioritised(r, k, t, new)
<1> DEFINE E == [k.eff EXCEPT ![t] = new]
<1>k. k \in KernelType /\ ListsInv(k) /\ EventInv(k) /\ WaitInv(k) /\ TasksInv(k) /\ ~k.failed
  BY DEF KInv
<1>1. /\ E \in [Tasks -> Priorities] /\ E[t] = new
      /\ \A u \in Tasks : u # t => E[u] = k.eff[u]
      /\ E[IDLE] = 0 /\ t \in Tasks /\ t # IDLE /\ Slots \subseteq Tasks
  <2>1. Slots \subseteq Tasks
    BY DEF Tasks
  <2>2. /\ E \in [Tasks -> Priorities] /\ E[t] = new
        /\ \A u \in Tasks : u # t => E[u] = k.eff[u]
        /\ E[IDLE] = 0 /\ t \in Tasks /\ t # IDLE
    BY NewPriority
  <2> QED
    BY <2>1, <2>2
<1>2. r = [k EXCEPT !.eff = E]
  <2>1. r = [k EXCEPT !.eff[t] = new]
    <3>1. ~(new \notin Priorities \/ new < k.priority[t])
      BY <1>k, <1>1, KernelFacts DEF KernelType, Priorities
    <3>2. k.state_c[t] # ReadyL(k.eff[t]) /\ ~(k.event_c[t] # NULL)
      BY DEF ReadyL
    <3> QED
      BY <3>1, <3>2, Zenon DEF rtos_set_effective_priority
  <2> QED
    BY <2>1
<1> HIDE DEF E
<1>3. r \in KernelType
  BY <1>1, <1>2, <1>k DEF KernelType
<1>4. /\ r.eff = E
      /\ r.cur = k.cur /\ r.ticks = k.ticks /\ r.created = k.created /\ r.tsk_cnt = k.tsk_cnt
      /\ r.priority = k.priority /\ r.held = k.held /\ r.reason = k.reason /\ r.failed = k.failed
      /\ r.state_l = k.state_l /\ r.state_c = k.state_c /\ r.bitmap = k.bitmap
      /\ r.state_v = k.state_v /\ r.event_c = k.event_c /\ r.event_l = k.event_l
      /\ r.event_v = k.event_v
      /\ r.cur_delayed = k.cur_delayed /\ r.next_delayed = k.next_delayed
  BY <1>2, <1>k DEF KernelType
<1>5. ListsInv(r)
  <2>1. \A u \in Slots : k.state_c[u] \in Priorities => k.state_c[u] = E[u]
    BY <1>1, <1>k DEF ListsInv, ReadyL
  <2> QED
    BY <2>1, <1>4, <1>k DEF ListsInv, ReadyL
<1>6. WaitInv(r)
  <2>1. \A u \in Slots : k.event_c[u] # NULL => k.event_v[u] = E[u]
    BY <1>1, <1>k DEF WaitInv
  <2> QED
    BY <2>1, <1>4, <1>k DEF WaitInv
<1>7. EventInv(r) /\ TasksInv(r)
  BY <1>1, <1>4, <1>k DEF EventInv, TasksInv
<1>8. KInv(r)
  BY <1>3, <1>4, <1>5, <1>6, <1>7, <1>k DEF KInv
<1>9. \A waking \in BOOLEAN : DelayInv(k, waking) => DelayInv(r, waking)
  BY <1>4 DEF DelayInv
<1>10. \A u \in Slots : IF k.state_c[u] \in Priorities THEN r.state_c[u] \in Priorities
                        ELSE r.state_c[u] = k.state_c[u]
  BY <1>4
<1> QED
  BY <1>4, <1>8, <1>9, <1>10 DEF Reprioritised, E

(* rtos_set_effective_priority: its assertion holds for a priority that is *)
(* not below the task's own.                                               *)
LEMMA SetPriorityEffect ==
    ASSUME NEW k, KInv(k), NEW t \in Slots, NEW new \in Priorities, new >= k.priority[t],
           NEW r, r = rtos_set_effective_priority(k, t, new)
    PROVE  Reprioritised(r, k, t, new)
<1>1. CASE new = k.eff[t]
  <2>1. k \in KernelType /\ t \in Tasks
    BY DEF KInv, Tasks
  <2>2. r = k
    BY <2>1, <1>1, KernelFacts DEF rtos_set_effective_priority, KernelType, Priorities
  <2>3. [k.eff EXCEPT ![t] = new] = k.eff
    BY <2>1, <1>1 DEF KernelType
  <2>4. \A u \in Slots : IF k.state_c[u] \in Priorities THEN r.state_c[u] \in Priorities
                         ELSE r.state_c[u] = k.state_c[u]
    BY <2>2
  <2> QED
    BY <2>2, <2>3, <2>4 DEF Reprioritised
<1>2. CASE new # k.eff[t] /\ k.state_c[t] = k.eff[t]
  BY <1>2, SetReadyPriority
<1>3. CASE new # k.eff[t] /\ k.event_c[t] # NULL
  BY <1>3, SetWaiterPriority
<1>4. CASE new # k.eff[t] /\ k.state_c[t] # k.eff[t] /\ k.event_c[t] = NULL
  BY <1>4, SetOtherPriority
<1> QED
  BY <1>1, <1>2, <1>3, <1>4

(* A priority that stays what it is. *)
LEMMA SamePriority ==
    ASSUME NEW k, KInv(k), NEW t \in Slots
    PROVE  k.eff[t] \in Priorities /\ Reprioritised(k, k, t, k.eff[t])
<1>1. k.eff \in [Tasks -> Priorities] /\ t \in Tasks
  BY DEF KInv, KernelType, Tasks
<1>2. [k.eff EXCEPT ![t] = k.eff[t]] = k.eff
  BY <1>1
<1> QED
  BY <1>1, <1>2 DEF Reprioritised

(* Tasks in a blocking call stay there when a priority changes. *)
LEMMA CallReprioritised ==
    ASSUME NEW k, KInv(k), NEW t \in Slots, NEW new, NEW r, Reprioritised(r, k, t, new),
           NEW u \in Slots, NEW w, NEW infinite, InCall(k, u, w, infinite)
    PROVE  InCall(r, u, w, infinite)
<1>1. /\ r.event_c = k.event_c /\ r.reason = k.reason
      /\ k.state_c[u] \notin Priorities => r.state_c[u] = k.state_c[u]
      /\ k.state_c[u] \in Priorities => r.state_c[u] \in Priorities
  BY DEF Reprioritised
<1>2. k.event_c[u] # NULL => k.state_c[u] \notin Priorities
  BY KernelFacts DEF KInv, EventInv
<1>3. ~Blocked(k, u) => ~Blocked(r, u)
  BY <1>1, KernelFacts DEF Blocked
<1> QED
  BY <1>1, <1>2, <1>3 DEF InCall

(* The first of the tasks that wait for w has the highest effective        *)
(* priority of them.                                                       *)
LEMMA TopWaiter ==
    ASSUME NEW k, KInv(k), NEW w \in WaitLists, NEW u \in Slots, k.event_c[u] = w
    PROVE  /\ k.event_l[w] # <<>>
           /\ k.eff[Head(k.event_l[w])] >= k.eff[u]
<1> DEFINE s == k.event_l[w]
           h == Head(s)
<1>1. /\ s \in Seq(Slots) /\ SortedDown(s, k.event_v) /\ In(s, u)
      /\ k.event_v \in [Slots -> Nat] /\ WaitInv(k) /\ w # NULL
  BY TypedWaitLists, KernelFacts DEF KInv, EventInv, InExactlyOneList, WaitInv
<1>2. s # <<>>
  BY <1>1 DEF In
<1>3. h \in Slots /\ k.event_c[h] = w
  BY <1>2, FirstWaiter
<1>4. PICK i \in DOMAIN s : s[i] = u
  BY <1>1 DEF In
<1>5. h = s[1] /\ i \in 1 .. Len(s) /\ 1 \in DOMAIN s
  BY <1>1, <1>2, <1>4
<1>6. k.event_v[h] >= k.event_v[u]
  BY <1>1, <1>3, <1>4, <1>5 DEF SortedDown
<1>7. k.event_v[h] = k.eff[h] /\ k.event_v[u] = k.eff[u]
  BY <1>1, <1>3 DEF WaitInv
<1> QED
  BY <1>2, <1>6, <1>7

(* The count of held mutexes of t became n, and nothing else changed. *)
Counted(r, k, t, n) ==
    /\ KInv(r)
    /\ \A waking \in BOOLEAN : DelayInv(k, waking) => DelayInv(r, waking)
    /\ r.cur = k.cur /\ r.created = k.created /\ r.priority = k.priority
    /\ r.eff = k.eff /\ r.reason = k.reason
    /\ r.state_c = k.state_c /\ r.event_c = k.event_c /\ r.event_l = k.event_l
    /\ r.held[t] = n
    /\ \A u \in Slots : u # t => r.held[u] = k.held[u]

LEMMA CountEffect ==
    ASSUME NEW k, KInv(k), NEW t \in Slots, NEW n \in 0 .. MaxHeld,
           NEW r, r = [k EXCEPT !.held[t] = n]
    PROVE  Counted(r, k, t, n)
<1> DEFINE H == [k.held EXCEPT ![t] = n]
<1>1. k \in KernelType /\ t \in Tasks /\ Slots \subseteq Tasks
  BY DEF KInv, Tasks
<1>2. k.held \in [Tasks -> 0 .. MaxHeld]
  BY <1>1 DEF KernelType
<1>3. H \in [Tasks -> 0 .. MaxHeld] /\ H[t] = n /\ \A u \in Slots : u # t => H[u] = k.held[u]
  BY <1>1, <1>2
<1>4. r = [k EXCEPT !.held = H]
  OBVIOUS
<1> HIDE DEF H
<1>5. /\ r \in KernelType /\ r.held = H
      /\ r.cur = k.cur /\ r.ticks = k.ticks /\ r.tsk_cnt = k.tsk_cnt /\ r.created = k.created
      /\ r.priority = k.priority /\ r.eff = k.eff /\ r.reason = k.reason
      /\ r.state_l = k.state_l /\ r.state_c = k.state_c /\ r.state_v = k.state_v
      /\ r.event_l = k.event_l /\ r.event_c = k.event_c /\ r.event_v = k.event_v
      /\ r.bitmap = k.bitmap /\ r.failed = k.failed
      /\ r.cur_delayed = k.cur_delayed /\ r.next_delayed = k.next_delayed
  BY <1>1, <1>3, <1>4 DEF KernelType
<1>6. KInv(r)
  <2>1. ListsInv(k) /\ EventInv(k) /\ WaitInv(k) /\ TasksInv(k) /\ ~k.failed
    BY DEF KInv
  <2>2. ListsInv(r) /\ EventInv(r)
    BY <2>1, <1>5 DEF ListsInv, EventInv
  <2>3. WaitInv(r)
    BY <2>1, <1>5, SMTT(40) DEF WaitInv
  <2>4. TasksInv(r)
    BY <2>1, <1>5, Zenon DEF TasksInv
  <2> QED
    BY <2>1, <2>2, <2>3, <2>4, <1>5 DEF KInv
<1>7. \A waking \in BOOLEAN : DelayInv(k, waking) => DelayInv(r, waking)
  BY <1>5 DEF DelayInv
<1> QED
  BY <1>3, <1>5, <1>6, <1>7 DEF Counted

LEMMA IncrementEffect ==
    ASSUME NEW k, KInv(k), NEW t \in Slots, k.held[t] # MaxHeld,
           NEW r, r = rtos_increment_mutex_count(k, t)
    PROVE  Counted(r, k, t, k.held[t] + 1)
<1>1. k.held[t] \in 0 .. MaxHeld /\ MaxHeld \in Nat
  BY KernelFacts DEF KInv, KernelType, Tasks
<1>2. k.held[t] + 1 \in 0 .. MaxHeld
  BY <1>1
<1>3. r = [k EXCEPT !.held[t] = k.held[t] + 1]
  BY DEF rtos_increment_mutex_count
<1> QED
  BY <1>2, <1>3, CountEffect

LEMMA DecrementEffect ==
    ASSUME NEW k, KInv(k), NEW t \in Slots, k.held[t] # 0,
           NEW r, r = rtos_decrement_mutex_count(k, t)
    PROVE  Counted(r, k, t, k.held[t] - 1)
<1>1. k.held[t] \in 0 .. MaxHeld /\ MaxHeld \in Nat
  BY KernelFacts DEF KInv, KernelType, Tasks
<1>2. k.held[t] - 1 \in 0 .. MaxHeld
  BY <1>1
<1>3. r = [k EXCEPT !.held[t] = k.held[t] - 1]
  BY DEF rtos_decrement_mutex_count
<1> QED
  BY <1>2, <1>3, CountEffect

(* The larger of two priorities. *)
LEMMA MaxOfTwo ==
    ASSUME NEW p \in Priorities, NEW q \in Priorities, NEW m, m = Max({p, q})
    PROVE  m \in Priorities /\ m >= p /\ m >= q /\ (m = p \/ m = q)
<1>1. PriorityCount - 1 \in Nat /\ {p, q} \in SUBSET (0 .. PriorityCount - 1) /\ {p, q} # {}
  BY KernelFacts DEF Priorities
<1>2. m \in {p, q} /\ \A y \in {p, q} : y <= m
  BY <1>1, MaxOfBounded
<1> QED
  BY <1>1, <1>2 DEF Priorities

(* rtos_priority_relinquish_after_unlock: a task that owns no mutex any    *)
(* more returns to its own priority.                                       *)
LEMMA RelinquishEffect ==
    ASSUME NEW k, KInv(k), NEW t \in Slots,
           NEW r, r = rtos_priority_relinquish_after_unlock(k, t),
           NEW new, new = IF k.held[t] # 0 THEN k.eff[t] ELSE k.priority[t]
    PROVE  Reprioritised(r, k, t, new)
<1>1. k.priority[t] \in Priorities /\ k.priority[t] >= k.priority[t]
  <2>1. k.priority[t] \in Priorities
    BY DEF KInv, KernelType, Tasks
  <2> QED
    BY <2>1, KernelFacts DEF Priorities
<1>2. CASE k.held[t] # 0
  <2>1. r = k /\ new = k.eff[t]
    BY <1>2 DEF rtos_priority_relinquish_after_unlock
  <2> QED
    BY <2>1, SamePriority
<1>3. CASE k.held[t] = 0
  <2>1. r = rtos_set_effective_priority(k, t, k.priority[t]) /\ new = k.priority[t]
    BY <1>3 DEF rtos_priority_relinquish_after_unlock
  <2> QED
    BY <2>1, <1>1, SetPriorityEffect
<1> QED
  BY <1>2, <1>3

-----------------------------------------------------------------------------
(* What every specification over the kernel's variables shares. *)

(* A context switch comes before the next instruction of the running       *)
(* task's own code.                                                        *)
SwitchComing(locs) == pend \/ switching \/ pc[kern.cur] \in locs

(* The kernel record, the types of the control state, and: a running task  *)
(* that is in a state list is about to be switched out.                    *)
CoreInv(locs) ==
    /\ KInv(kern)
    /\ pend \in BOOLEAN /\ switching \in BOOLEAN /\ systick \in {"idle", "wake", "check"}
    /\ systick = "wake" => DelayInv(kern, TRUE)
    /\ systick # "wake" => DelayInv(kern, FALSE)
    /\ kern.cur = NULL => ~pend /\ ~switching /\ systick = "idle"
    /\ kern.cur \in Slots /\ kern.state_c[kern.cur] # NULL => SwitchComing(locs)

(* When a task is ready above the running one, a context switch or the     *)
(* test for one at the end of SysTick_Handler comes.  Under the idle task  *)
(* this holds of the tasks whose priority is not in low.                   *)
PreemptInv(locs, low) ==
    /\ kern.cur \in Slots /\ (\E p \in kern.bitmap : p > kern.eff[kern.cur]) =>
           SwitchComing(locs) \/ systick # "idle"
    /\ kern.cur = IDLE /\ ~(kern.bitmap \subseteq low) =>
           pend \/ switching \/ systick # "idle"

(* What an exception may do to the tasks that wait: nothing, or the tick   *)
(* handler wakes one on its tick.                                          *)
TimedOut(t) ==
    /\ systick = "wake"
    /\ kern.state_c[t] \in DelayLists /\ kern.state_v[t] = kern.ticks
    /\ Unblocked(kern', kern, t, "WAIT_TIMED_OUT")

WaitStep == SameWaits(kern', kern) \/ \E t \in Slots : TimedOut(t)

(* Priorities are numbers. *)
LEMMA PriorityFacts ==
    ASSUME NEW k, KInv(k)
    PROVE  /\ k.bitmap \subseteq Priorities
           /\ \A t \in Slots : k.eff[t] \in Priorities
           /\ \A p \in Priorities : p \in Int /\ p >= 0
           /\ k.eff[IDLE] = 0
<1>1. k \in KernelType /\ TasksInv(k)
  BY DEF KInv
<1>2. \A p \in Priorities : p \in Int /\ p >= 0
  BY KernelFacts DEF Priorities
<1>3. k.bitmap \subseteq Priorities /\ k.eff \in [Tasks -> Priorities] /\ Slots \subseteq Tasks
  BY <1>1 DEF KernelType, Tasks
<1> QED
  BY <1>1, <1>2, <1>3 DEF TasksInv

(* SysTick_Handler: the tick is counted ... *)
LEMMA SysTickEnterCore ==
    ASSUME NEW locs, NEW low, CoreInv(locs), SysTickEnter
    PROVE  /\ CoreInv(locs)' /\ SameWaits(kern', kern)
           /\ pc' = pc /\ kern.cur # NULL /\ kern'.cur # NULL
           /\ PreemptInv(locs, low)'
<1>1. /\ kern.cur # NULL /\ systick = "idle" /\ systick' = "wake"
      /\ pend' = pend /\ switching' = switching /\ pc' = pc
      /\ kern' = TickIncrement(kern)
  BY DEF SysTickEnter
<1>2. KInv(kern) /\ DelayInv(kern, FALSE)
  BY <1>1 DEF CoreInv
<1>3. /\ KInv(kern')
      /\ DelayInv(kern', TRUE)
      /\ SameWaits(kern', kern)
      /\ kern'.cur = kern.cur /\ kern'.bitmap = kern.bitmap /\ kern'.state_c = kern.state_c
  BY <1>1, <1>2, TickIncrementEffect
<1>4. CoreInv(locs)'
  BY <1>1, <1>3 DEF CoreInv, SwitchComing
<1>5. PreemptInv(locs, low)'
  BY <1>1 DEF PreemptInv
<1> QED
  BY <1>1, <1>3, <1>4, <1>5

(* ... each task that is due is woken ... *)
LEMMA SysTickWakeCore ==
    ASSUME NEW locs, NEW low, CoreInv(locs), SysTickWake
    PROVE  /\ CoreInv(locs)' /\ WaitStep
           /\ pc' = pc /\ kern.cur # NULL /\ kern'.cur # NULL
           /\ PreemptInv(locs, low)'
<1>1. /\ systick = "wake" /\ systick' = systick /\ MustWake(kern)
      /\ pend' = pend /\ switching' = switching /\ pc' = pc
      /\ kern' = TickWake(kern)
  BY DEF SysTickWake
<1>2. KInv(kern) /\ DelayInv(kern, TRUE) /\ kern.cur # NULL
  BY <1>1 DEF CoreInv
<1>3. /\ DelayInv(kern', TRUE)
      /\ \E t \in Slots : /\ kern.state_c[t] \in DelayLists /\ kern.state_v[t] = kern.ticks
                          /\ Unblocked(kern', kern, t, "WAIT_TIMED_OUT")
  BY <1>1, <1>2, TickWakeEffect
<1>4. PICK t \in Slots : TimedOut(t)
  BY <1>1, <1>3 DEF TimedOut
<1>5. /\ KInv(kern') /\ kern'.cur = kern.cur
      /\ kern'.state_c = [kern.state_c EXCEPT ![t] = kern.eff[t]]
  BY <1>4 DEF TimedOut, Unblocked
<1>6. kern.cur \in Slots /\ kern'.state_c[kern.cur] # NULL => kern.state_c[kern.cur] # NULL
  <2>1. kern.state_c \in [Slots -> StateLists \cup {NULL}] /\ kern.state_c[t] # NULL
    BY <1>2, <1>4, KernelFacts DEF KInv, KernelType, TimedOut
  <2> QED
    BY <2>1, <1>5
<1>7. CoreInv(locs)'
  BY <1>1, <1>2, <1>3, <1>5, <1>6 DEF CoreInv, SwitchComing
<1>8. PreemptInv(locs, low)'
  BY <1>1 DEF PreemptInv
<1> QED
  BY <1>1, <1>2, <1>4, <1>5, <1>7, <1>8 DEF WaitStep

(* Nothing changes for anybody. *)
LEMMA SameKernel ==
    ASSUME kern' = kern
    PROVE  SameWaits(kern', kern)
BY DEF SameWaits

(* ... until none is left ... *)
LEMMA SysTickExitCore ==
    ASSUME NEW locs, NEW low, CoreInv(locs), SysTickExitCritical
    PROVE  /\ CoreInv(locs)' /\ SameWaits(kern', kern)
           /\ pc' = pc /\ kern.cur # NULL /\ kern'.cur # NULL
           /\ PreemptInv(locs, low)'
<1>1. /\ systick = "wake" /\ systick' = "check" /\ ~MustWake(kern)
      /\ pend' = pend /\ switching' = switching /\ pc' = pc /\ kern' = kern
  BY DEF SysTickExitCritical
<1>2. KInv(kern) /\ DelayInv(kern, TRUE) /\ kern.cur # NULL
  BY <1>1 DEF CoreInv
<1>3. DelayInv(kern, FALSE)
  BY <1>1, <1>2, NothingToWake DEF KInv
<1>4. CoreInv(locs)'
  BY <1>1, <1>3 DEF CoreInv, SwitchComing
<1>5. PreemptInv(locs, low)'
  BY <1>1 DEF PreemptInv
<1> QED
  BY <1>1, <1>2, <1>4, <1>5, SameKernel

(* ... and a context switch is requested when a task that is ready has at  *)
(* least the priority of the running one.                                  *)
LEMMA SysTickCheckCore ==
    ASSUME NEW locs, NEW low, CoreInv(locs), SysTickCheck
    PROVE  /\ CoreInv(locs)' /\ SameWaits(kern', kern)
           /\ pc' = pc /\ kern.cur # NULL /\ kern'.cur # NULL
           /\ PreemptInv(locs, low)'
<1>1. /\ systick = "check" /\ systick' = "idle"
      /\ pend' = (pend \/ rtos_check_runnable_task(kern, kern.cur))
      /\ switching' = switching /\ pc' = pc /\ kern' = kern
  BY DEF SysTickCheck
<1>2. KInv(kern) /\ kern.cur # NULL /\ DelayInv(kern, FALSE)
  BY <1>1 DEF CoreInv
<1>3. pend' \in BOOLEAN /\ (pend => pend')
  BY <1>1 DEF CoreInv, rtos_check_runnable_task
<1>4. (\E p \in kern.bitmap : p >= kern.eff[kern.cur]) => pend'
  BY <1>1, <1>2 DEF rtos_check_runnable_task
<1>5. CoreInv(locs)'
  BY <1>1, <1>2, <1>3 DEF CoreInv, SwitchComing
<1>6. /\ kern.bitmap \subseteq Priorities /\ \A p \in Priorities : p \in Int /\ p >= 0
      /\ kern.eff[IDLE] = 0
      /\ kern.cur \in Slots => kern.eff[kern.cur] \in Priorities
  BY <1>2, PriorityFacts
<1>7. kern.cur \in Slots /\ (\E p \in kern.bitmap : p > kern.eff[kern.cur]) => pend'
  BY <1>4, <1>6
<1>8. kern.cur = IDLE /\ kern.bitmap # {} => pend'
  BY <1>4, <1>6
<1>9. PreemptInv(locs, low)'
  BY <1>1, <1>7, <1>8 DEF PreemptInv, SwitchComing
<1> QED
  BY <1>1, <1>2, <1>5, <1>9, SameKernel

(* PendSV_Handler is entered, or an application interrupt yields. *)
LEMMA PendCore ==
    ASSUME NEW locs, NEW low, CoreInv(locs), PendSVEnter \/ artos_yield_from_isr
    PROVE  /\ CoreInv(locs)' /\ SameWaits(kern', kern)
           /\ pc' = pc /\ kern.cur # NULL /\ kern'.cur # NULL
           /\ PreemptInv(locs, low)'
<1>1. /\ kern.cur # NULL /\ systick' = systick /\ pc' = pc /\ kern' = kern
      /\ pend' \in BOOLEAN /\ switching' \in BOOLEAN /\ (pend' \/ switching')
  BY DEF PendSVEnter, artos_yield_from_isr, InterruptEnabled, CoreInv
<1>2. CoreInv(locs)'
  BY <1>1 DEF CoreInv, SwitchComing
<1>3. PreemptInv(locs, low)'
  BY <1>1 DEF PreemptInv, SwitchComing
<1> QED
  BY <1>1, <1>2, <1>3, SameKernel

(* PendSV_Handler switches contexts. *)
LEMMA PendSVSwitchCore ==
    ASSUME NEW locs, NEW low, CoreInv(locs), PendSVSwitch
    PROVE  /\ CoreInv(locs)' /\ SameWaits(kern', kern)
           /\ pc' = pc /\ kern.cur # NULL /\ kern'.cur # NULL
           /\ PreemptInv(locs, low)'
<1>1. /\ switching /\ systick = "idle" /\ systick' = systick /\ switching' = FALSE
      /\ pend' = pend /\ pc' = pc
      /\ kern' = rtos_scheduler_switch_context(kern)
  BY DEF PendSVSwitch
<1>2. KInv(kern) /\ DelayInv(kern, FALSE) /\ kern.cur # NULL
  BY <1>1 DEF CoreInv
<1>3. Switched(kern', kern) /\ DelayInv(kern', FALSE)
  BY <1>1, <1>2, SwitchContextKeeps
<1>4. /\ KInv(kern') /\ SameWaits(kern', kern)
      /\ kern'.cur # NULL
      /\ kern'.cur \in Slots => /\ kern'.state_c[kern'.cur] = NULL
                                /\ \A p \in kern'.bitmap : p <= kern'.eff[kern'.cur]
      /\ kern'.cur = IDLE => kern'.bitmap = {}
  BY <1>3, KernelFacts DEF Switched
<1>5. CoreInv(locs)'
  BY <1>1, <1>3, <1>4 DEF CoreInv
<1>6. /\ kern'.bitmap \subseteq Priorities /\ \A p \in Priorities : p \in Int /\ p >= 0
      /\ kern'.cur \in Slots => kern'.eff[kern'.cur] \in Priorities
  BY <1>4, PriorityFacts
<1>7. PreemptInv(locs, low)'
  BY <1>4, <1>6 DEF PreemptInv
<1> QED
  BY <1>1, <1>2, <1>4, <1>5, <1>7

(* All exceptions of the kernel's own. *)
LEMMA ExceptionStep ==
    ASSUME NEW locs, NEW low, CoreInv(locs), Exceptions
    PROVE  /\ CoreInv(locs)' /\ WaitStep
           /\ pc' = pc /\ kern.cur # NULL /\ kern'.cur # NULL
           /\ PreemptInv(locs, low)'
BY SysTickEnterCore, SysTickWakeCore, SysTickExitCore, SysTickCheckCore, PendCore,
   PendSVSwitchCore DEF Exceptions, SysTick, WaitStep

-----------------------------------------------------------------------------
(* Thread code.  What the code of a running task relies on: it is in no    *)
(* list and, where switches are requested, no ready task is above it.      *)
LEMMA RunningTask ==
    ASSUME NEW locs, CoreInv(locs), NEW t \in Slots, Executes(t), pc[t] \notin locs
    PROVE  /\ KInv(kern) /\ DelayInv(kern, FALSE)
           /\ kern.cur = t /\ kern.state_c[t] = NULL /\ kern.event_c[t] = NULL
           /\ t \in kern.created /\ ~Blocked(kern, t)
<1>1. /\ KInv(kern) /\ DelayInv(kern, FALSE) /\ kern.cur = t /\ kern.state_c[t] = NULL
  BY DEF CoreInv, SwitchComing, Executes
<1> QED
  BY <1>1, KernelFacts DEF KInv, EventInv, TasksInv, Blocked

LEMMA RunningHighest ==
    ASSUME NEW locs, NEW low, CoreInv(locs), PreemptInv(locs, low),
           NEW t \in Slots, Executes(t), pc[t] \notin locs
    PROVE  \A p \in kern.bitmap : p <= kern.eff[t]
<1>1. KInv(kern) /\ kern.cur = t
  BY DEF CoreInv, Executes
<1>2. \A p \in kern.bitmap : ~(p > kern.eff[t])
  BY <1>1 DEF PreemptInv, SwitchComing, Executes
<1> QED
  BY <1>1, <1>2, PriorityFacts

(* A step of a running task that keeps the kernel's invariant, and stops   *)
(* before a request when the task is not ready any more, keeps CoreInv ... *)
LEMMA ThreadStepCore ==
    ASSUME NEW locs, CoreInv(locs), NEW t \in Slots, Executes(t),
           pend' = pend, switching' = switching, systick' = systick,
           KInv(kern'), DelayInv(kern', FALSE), kern'.cur = t,
           kern'.state_c[t] = NULL \/ pc'[t] \in locs
    PROVE  CoreInv(locs)'
<1>1. ~pend /\ ~switching /\ systick = "idle" /\ t # NULL
  BY KernelFacts DEF Executes
<1> QED
  BY <1>1 DEF CoreInv, SwitchComing

(* ... and PreemptInv, when it stops there also if a ready task is above   *)
(* it.                                                                     *)
LEMMA ThreadStepPreempt ==
    ASSUME NEW locs, NEW low, NEW t \in Slots, KInv(kern'), kern'.cur = t,
           pc'[t] \in locs \/ \A p \in kern'.bitmap : p <= kern'.eff[t]
    PROVE  PreemptInv(locs, low)'
<1>1. t # IDLE
  BY KernelFacts
<1>2. /\ kern'.bitmap \subseteq Priorities /\ kern'.eff[t] \in Priorities
      /\ \A p \in Priorities : p \in Int /\ p >= 0
  BY PriorityFacts
<1> QED
  BY <1>1, <1>2 DEF PreemptInv, SwitchComing

(* A thread's own request for a context switch. *)
LEMMA RequestCore ==
    ASSUME NEW locs, NEW low, CoreInv(locs), NEW t \in Slots, NEW loc, NEW next,
           rtos_port_request_context_switch(t, loc, next)
    PROVE  /\ CoreInv(locs)' /\ SameWaits(kern', kern)
           /\ Executes(t) /\ pc[t] = loc /\ pc' = [pc EXCEPT ![t] = next]
           /\ kern' = kern
           /\ PreemptInv(locs, low)'
<1>1. /\ kern' = kern /\ pend' = TRUE /\ switching' = switching /\ systick' = systick
      /\ Executes(t) /\ kern.cur = t /\ systick = "idle" /\ pc[t] = loc
      /\ pc' = [pc EXCEPT ![t] = next]
  BY DEF rtos_port_request_context_switch, At, Executes, GoTo
<1>2. t # NULL
  BY KernelFacts
<1>3. CoreInv(locs)'
  BY <1>1, <1>2 DEF CoreInv, SwitchComing
<1>4. PreemptInv(locs, low)'
  BY <1>1 DEF PreemptInv, SwitchComing
<1> QED
  BY <1>1, <1>3, <1>4, SameKernel

(* An application interrupt, or a running task, unblocks a task.  The      *)
(* caller yields when it has a higher priority; under the idle task        *)
(* priority 0 is not higher.                                               *)
LEMMA InterruptUnblocks ==
    ASSUME NEW locs, CoreInv(locs), InterruptEnabled, NEW t \in Slots, Blocked(kern, t),
           NEW reason, Unblocked(kern', kern, t, reason),
           pend' \in BOOLEAN, pend => pend',
           switching' = switching, systick' = systick, pc' = pc,
           kern.eff[t] > rtos_current_effective_priority(kern) => pend'
    PROVE  /\ CoreInv(locs)'
           /\ PreemptInv(locs, {0}) => PreemptInv(locs, {0})'
<1>1. kern.cur # NULL /\ systick # "wake" /\ KInv(kern) /\ DelayInv(kern, FALSE)
  BY DEF InterruptEnabled, CoreInv
<1>2. /\ KInv(kern') /\ kern'.cur = kern.cur /\ kern'.eff = kern.eff
      /\ kern'.bitmap = kern.bitmap \cup {kern.eff[t]}
      /\ kern'.state_c = [kern.state_c EXCEPT ![t] = kern.eff[t]]
  BY DEF Unblocked, SameScalars
<1>3. DelayInv(kern', FALSE)
  BY <1>1, UnblockDelays
<1>4. kern.cur \in Slots /\ kern'.state_c[kern.cur] # NULL => kern.state_c[kern.cur] # NULL
  <2>1. kern.state_c \in [Slots -> StateLists \cup {NULL}] /\ kern.state_c[t] # NULL
    BY <1>1, KernelFacts DEF KInv, KernelType, Blocked
  <2> QED
    BY <2>1, <1>2
<1>5. CoreInv(locs)'
  BY <1>1, <1>2, <1>3, <1>4 DEF CoreInv, SwitchComing
<1>6. ASSUME PreemptInv(locs, {0}) PROVE PreemptInv(locs, {0})'
  <2>1. /\ kern.bitmap \subseteq Priorities /\ kern.eff[t] \in Priorities
        /\ \A p \in Priorities : p \in Int /\ p >= 0
        /\ kern.eff[IDLE] = 0
    BY <1>1, PriorityFacts
  <2>2. kern.eff[t] > kern.eff[kern.cur] => pend'
    BY <1>1 DEF rtos_current_effective_priority
  <2>3. ASSUME kern.cur \in Slots, NEW p \in kern'.bitmap, p > kern.eff[kern.cur]
        PROVE  pend' \/ switching \/ pc[kern.cur] \in locs \/ systick # "idle"
    <3>1. CASE p = kern.eff[t]
      BY <3>1, <2>2, <2>3
    <3>2. CASE p \in kern.bitmap
      BY <3>2, <2>3, <1>6 DEF PreemptInv, SwitchComing
    <3> QED
      BY <3>1, <3>2, <1>2
  <2>4. ASSUME kern.cur = IDLE, ~(kern'.bitmap \subseteq {0})
        PROVE  pend' \/ switching \/ systick # "idle"
    <3>1. CASE kern.eff[t] = 0
      <4>1. ~(kern.bitmap \subseteq {0})
        BY <3>1, <2>4, <1>2
      <4> QED
        BY <4>1, <2>4, <1>6 DEF PreemptInv
    <3>2. CASE kern.eff[t] # 0
      BY <3>2, <2>1, <2>2, <2>4
    <3> QED
      BY <3>1, <3>2
  <2> QED
    BY <2>3, <2>4, <1>2 DEF PreemptInv, SwitchComing
<1> QED
  BY <1>5, <1>6

(* The same by a running task, at the end of a critical section. *)
LEMMA ThreadUnblocks ==
    ASSUME NEW locs, CoreInv(locs), NEW t \in Slots, Executes(t), pc[t] \notin locs,
           NEW u \in Slots, NEW k, KInv(k), DelayInv(k, FALSE), k.cur = t, k.state_c = kern.state_c,
           k.bitmap = kern.bitmap, k.eff = kern.eff,
           Blocked(k, u), NEW reason, Unblocked(kern', k, u, reason),
           pend' = pend, switching' = switching, systick' = systick,
           k.eff[u] > rtos_current_effective_priority(k) => pc'[t] \in locs
    PROVE  /\ CoreInv(locs)'
           /\ \A low : PreemptInv(locs, low) => PreemptInv(locs, low)'
<1>1. t # u /\ kern.state_c[t] = NULL /\ t # NULL
  <2>1. kern.state_c[t] = NULL /\ ~Blocked(kern, t)
    BY RunningTask
  <2> QED
    BY <2>1, KernelFacts DEF Blocked
<1>2. /\ KInv(kern') /\ kern'.cur = t /\ kern'.eff = kern.eff
      /\ kern'.bitmap = kern.bitmap \cup {kern.eff[u]}
      /\ kern'.state_c = [kern.state_c EXCEPT ![u] = kern.eff[u]]
  BY DEF Unblocked, SameScalars
<1>3. DelayInv(kern', FALSE)
  BY UnblockDelays
<1>4. kern'.state_c[t] = NULL
  BY <1>1, <1>2 DEF KInv, KernelType
<1>5. CoreInv(locs)'
  BY <1>2, <1>3, <1>4, ThreadStepCore
<1>6. ASSUME NEW low, PreemptInv(locs, low) PROVE PreemptInv(locs, low)'
  <2>1. \A p \in kern.bitmap : p <= kern.eff[t]
    BY <1>6, RunningHighest
  <2>2. kern.eff[u] \in Int /\ kern.eff[t] \in Int
    BY <1>2, PriorityFacts
  <2>3. pc'[t] \in locs \/ kern.eff[u] <= kern.eff[t]
    BY <2>2, <1>1 DEF rtos_current_effective_priority
  <2> QED
    BY <2>1, <2>3, <1>2, ThreadStepPreempt
<1> QED
  BY <1>5, <1>6

-----------------------------------------------------------------------------
(* Where a task can be that uses kernel objects: in a take, a lock, an     *)
(* enqueue or a dequeue that has blocked, or where a context switch is     *)
(* requested.  The modules share these sets, so that their invariants hold *)
(* together of a system that has several kinds of objects.                 *)
TakeLocs == {"take_switch", "take_woken"}
LockLocs == {"lock_switch", "lock_woken"}
SendLocs == {"enqueue_switch", "enqueue_woken"}
ReceiveLocs == {"dequeue_switch", "dequeue_woken"}
SwitchLocs == {"switch", "take_switch", "lock_switch", "enqueue_switch", "dequeue_switch"}
Places == {"app", "create", "switch"} \cup TakeLocs \cup LockLocs \cup SendLocs \cup ReceiveLocs

(* The tasks of a wait list are in decreasing order of effective priority. *)
LEMMA WaitListsInOrder ==
    ASSUME NEW k, KInv(k)
    PROVE  /\ InExactlyOneList(k.event_l, k.event_c)
           /\ \A l \in WaitLists : \A i, j \in DOMAIN k.event_l[l] :
                 i < j => k.eff[k.event_l[l][i]] >= k.eff[k.event_l[l][j]]
<1>1. /\ InExactlyOneList(k.event_l, k.event_c) /\ WaitInv(k)
      /\ k \in KernelType /\ EventInv(k)
  BY DEF KInv, EventInv
<1>2. ASSUME NEW l \in WaitLists, NEW i \in DOMAIN k.event_l[l],
             NEW j \in DOMAIN k.event_l[l], i < j
      PROVE  k.eff[k.event_l[l][i]] >= k.eff[k.event_l[l][j]]
  <2>1. k.event_l[l] \in Seq(Slots) /\ SortedDown(k.event_l[l], k.event_v) /\ l # NULL
    BY <1>1, TypedWaitLists, KernelFacts DEF WaitInv
  <2>2. i \in Int /\ j \in Int /\ i <= j
    BY <1>2, <2>1
  <2>3. k.event_v[k.event_l[l][i]] >= k.event_v[k.event_l[l][j]]
    BY <2>1, <2>2 DEF SortedDown
  <2>4. \A h \in DOMAIN k.event_l[l] :
           /\ k.event_l[l][h] \in Slots /\ In(k.event_l[l], k.event_l[l][h])
    BY <2>1 DEF In
  <2>5. \A h \in DOMAIN k.event_l[l] : k.event_c[k.event_l[l][h]] = l
    BY <2>4, <1>1, TypedWaitLists DEF InExactlyOneList
  <2>6. \A h \in DOMAIN k.event_l[l] :
           k.event_v[k.event_l[l][h]] = k.eff[k.event_l[l][h]]
    BY <2>1, <2>4, <2>5, <1>1 DEF WaitInv
  <2> QED
    BY <2>3, <2>6
<1> QED
  BY <1>1, <1>2

(* What a call of an object may do to the tasks in calls of others, which  *)
(* are at locs: nothing; and a task starts to wait for one of the objects, *)
(* or for none.                                                            *)
LeavesOthers(locs, objects) ==
    \A u \in Slots :
        /\ kern'.event_c[u] \in {kern.event_c[u], NULL} \cup objects
        /\ pc[u] \in locs \/ pc'[u] \in locs =>
              /\ pc'[u] = pc[u]
              /\ kern'.event_c[u] = kern.event_c[u] /\ kern'.reason[u] = kern.reason[u]
              /\ \A w, i : InCall(kern, u, w, i) => InCall(kern', u, w, i)

(* A task moves outside locs and does not touch the kernel. *)
LEMMA OnlyMoves ==
    ASSUME NEW locs, NEW objects, kern' = kern, NEW t \in Slots,
           NEW next, pc[t] \notin locs, next \notin locs,
           pc \in [Threads -> Places], pc' = [pc EXCEPT ![t] = next]
    PROVE  LeavesOthers(locs, objects)
BY DEF LeavesOthers, Threads

(* The kernel state in which a running task uses an object: that on entry  *)
(* to its critical section, but for its own wait reason.                   *)
Entry(k, t) ==
    /\ KInv(k) /\ DelayInv(k, FALSE)
    /\ k.cur = t /\ k.ticks = kern.ticks /\ k.eff = kern.eff /\ k.bitmap = kern.bitmap
    /\ k.state_c = kern.state_c /\ k.event_l = kern.event_l /\ k.event_c = kern.event_c
    /\ \A u \in Slots : u # t => k.reason[u] = kern.reason[u]

LEMMA EntryOfTask ==
    ASSUME NEW locs, CoreInv(locs), NEW t \in Slots, Executes(t), pc[t] \notin locs
    PROVE  Entry(kern, t) /\ Entry(rtos_clear_current_wait_reason(kern), t)
<1>1. KInv(kern) /\ DelayInv(kern, FALSE) /\ kern.cur = t
  BY RunningTask
<1> DEFINE r == rtos_clear_current_wait_reason(kern)
<1>2. /\ KInv(r) /\ DelayInv(r, FALSE) /\ SameScalars(r, kern)
      /\ r.cur = kern.cur /\ r.bitmap = kern.bitmap /\ r.state_c = kern.state_c
      /\ r.event_l = kern.event_l /\ r.event_c = kern.event_c
      /\ r.reason = [kern.reason EXCEPT ![kern.cur] = "WAIT_NO_REASON"]
  BY <1>1, ClearReasonEffect
<1> HIDE DEF r
<1>3. \A u \in Slots : u # t => r.reason[u] = kern.reason[u]
  BY <1>1, <1>2 DEF KInv, KernelType, Tasks
<1>4. Entry(r, t)
  BY <1>1, <1>2, <1>3 DEF Entry, SameScalars
<1>5. Entry(kern, t)
  BY <1>1 DEF Entry
<1> QED
  BY <1>4, <1>5 DEF r

(* A call that another task is in is the same in both. *)
LEMMA EntryCalls ==
    ASSUME NEW t \in Slots, NEW k, Entry(k, t), NEW u \in Slots, u # t, NEW w, NEW i,
           InCall(kern, u, w, i)
    PROVE  InCall(k, u, w, i)
BY DEF Entry, InCall, Blocked

-----------------------------------------------------------------------------
(* The scheduler itself: tasks create tasks, yield and wait. *)
Locs == {"switch"}

IInv ==
    /\ TypeOK
    /\ CoreInv(Locs)
    /\ PreemptInv(Locs, {})
    /\ pc[NULL] # "switch"

(* The action of WakesOnItsTick: a delayed task leaves its list only when  *)
(* the tick handler wakes it, on its tick.                                 *)
LeavesOnItsTick ==
    \A t \in Slots :
        kern.state_c[t] \in DelayLists /\ kern'.state_c[t] # kern.state_c[t]
            => kern.ticks = kern.state_v[t] /\ systick = "wake"

(* rtos_system_init establishes the invariant. *)
LEMMA InitInv == Init => IInv
<1> SUFFICES ASSUME Init PROVE IInv
  OBVIOUS
<1>1. KInv(kern) /\ DelayInv(kern, FALSE)
  BY SystemInit DEF Init
<1>2. kern.cur = NULL /\ NULL \notin Slots /\ NULL # IDLE
  BY KernelFacts DEF Init, rtos_system_init
<1>3. CoreInv(Locs) /\ PreemptInv(Locs, {})
  BY <1>1, <1>2 DEF Init, CoreInv, PreemptInv
<1> QED
  BY <1>1, <1>3 DEF Init, IInv, TypeOK, KInv, Threads

(* What changes nothing for the tasks that wait, and the tick handler,     *)
(* respect the wake ticks.                                                 *)
LEMMA WaitStepOnTime ==
    ASSUME WaitStep, KInv(kern)
    PROVE  LeavesOnItsTick
<1>1. CASE SameWaits(kern', kern)
  BY <1>1 DEF SameWaits, Blocked, LeavesOnItsTick
<1>2. ASSUME NEW t \in Slots, TimedOut(t) PROVE LeavesOnItsTick
  <2>1. /\ kern'.state_c = [kern.state_c EXCEPT ![t] = kern.eff[t]]
        /\ kern.state_v[t] = kern.ticks /\ systick = "wake"
    BY <1>2 DEF TimedOut, Unblocked
  <2>2. kern.state_c \in [Slots -> StateLists \cup {NULL}]
    BY DEF KInv, KernelType
  <2> QED
    BY <2>1, <2>2 DEF LeavesOnItsTick
<1> QED
  BY <1>1, <1>2 DEF WaitStep

(* The steps of a thread that leave the kernel record alone. *)
LEMMA CreateCheckInv ==
    ASSUME IInv, NEW t \in Threads, CreateCheck(t)
    PROVE  IInv'
<1>1. /\ kern' = kern /\ pend' = pend /\ switching' = switching /\ systick' = systick
      /\ kern.cur = t /\ ~pend /\ ~switching /\ systick = "idle" /\ pc[t] = "app"
      /\ pc' = [pc EXCEPT ![t] = "create"]
  BY DEF CreateCheck, At, Executes, GoTo
<1>2. pc \in [Threads -> {"app", "create", "switch"}]
  BY DEF IInv, TypeOK
<1>3. /\ pc' \in [Threads -> {"app", "create", "switch"}]
      /\ pc'[t] = "create" /\ (NULL # t => pc'[NULL] = pc[NULL])
  BY <1>1, <1>2 DEF Threads
<1>4. TypeOK'
  BY <1>1, <1>3 DEF IInv, TypeOK
<1>5. CoreInv(Locs)' /\ PreemptInv(Locs, {})'
  BY <1>1, <1>3 DEF IInv, CoreInv, PreemptInv, SwitchComing, Locs
<1> QED
  BY <1>1, <1>3, <1>4, <1>5 DEF IInv

(* A thread's own request for a context switch. *)
LEMMA RequestInv ==
    ASSUME IInv, NEW t \in Threads, Switch(t) \/ artos_yield(t)
    PROVE  IInv'
<1>1. PICK loc \in {"switch", "app"} :
         /\ rtos_port_request_context_switch(t, loc, "app")
         /\ loc = "app" => t # NULL
  BY DEF Switch, artos_yield
<1>2. t \in Slots
  BY <1>1 DEF rtos_port_request_context_switch, At, IInv, Threads
<1>3. CoreInv(Locs)
  BY DEF IInv
<1>4. /\ CoreInv(Locs)' /\ PreemptInv(Locs, {})'
      /\ pc' = [pc EXCEPT ![t] = "app"]
  BY <1>1, <1>2, <1>3, RequestCore
<1>5. pc' \in [Threads -> {"app", "create", "switch"}] /\ pc'[NULL] = pc[NULL]
  BY <1>2, <1>4, KernelFacts DEF IInv, TypeOK, Threads
<1>6. TypeOK'
  BY <1>4, <1>5 DEF CoreInv, KInv, TypeOK
<1> QED
  BY <1>4, <1>5, <1>6 DEF IInv

(* The critical section of artos_task_create. *)
LEMMA CreateInsertInv ==
    ASSUME IInv, NEW t \in Threads, NEW p \in Priorities, CreateInsert(t, p)
    PROVE  IInv' /\ LeavesOnItsTick
<1>1. /\ pend' = pend /\ switching' = switching /\ systick' = systick
      /\ Executes(t) /\ kern.cur = t /\ ~pend /\ ~switching /\ systick = "idle" /\ pc[t] = "create"
  BY DEF CreateInsert, At, Executes
<1>2. pc \in [Threads -> {"app", "create", "switch"}] /\ KInv(kern) /\ DelayInv(kern, FALSE)
  BY <1>1 DEF IInv, TypeOK, CoreInv
<1>3. CoreInv(Locs) /\ PreemptInv(Locs, {}) /\ pc[t] \notin Locs /\ pc[NULL] # "switch"
  BY <1>1 DEF IInv, Locs
<1>4. t \in Slots => kern.state_c[t] = NULL /\ \A q \in kern.bitmap : q <= kern.eff[t]
  BY <1>1, <1>3, RunningTask, RunningHighest
<1>5. t # IDLE /\ (t # NULL => t \in Slots) /\ NULL \notin Slots /\ NULL # IDLE
  BY KernelFacts DEF Threads
<1>6. CASE kern.created = Slots
  <2>1. kern' = kern /\ pc' = [pc EXCEPT ![t] = "app"]
    BY <1>6 DEF CreateInsert, GoTo
  <2>2. /\ pc' \in [Threads -> {"app", "create", "switch"}]
        /\ pc'[t] = "app" /\ pc'[NULL] # "switch"
    BY <2>1, <1>2, <1>3 DEF Threads
  <2>3. TypeOK'
    BY <2>1, <2>2, <1>1 DEF IInv, TypeOK
  <2>4. CoreInv(Locs)' /\ PreemptInv(Locs, {})'
    BY <2>1, <2>2, <1>1, <1>3 DEF CoreInv, PreemptInv, SwitchComing, Locs
  <2> QED
    BY <2>1, <2>2, <2>3, <2>4, <1>1 DEF IInv, LeavesOnItsTick
<1>7. CASE kern.created # Slots
  <2> DEFINE next == IF t # NULL /\ p > kern.eff[t] THEN "switch" ELSE "app"
  <2>1. kern' = artos_task_create(kern, p) /\ pc' = [pc EXCEPT ![t] = next]
    BY <1>7 DEF CreateInsert, GoTo
  <2>2. /\ pc' \in [Threads -> {"app", "create", "switch"}] /\ pc'[t] = next
        /\ pc'[NULL] # "switch"
    BY <2>1, <1>2, <1>3 DEF Threads
  <2> HIDE DEF next
  <2>3. CreatedTask(kern', kern, p)
    BY <2>1, <1>2, <1>7, CreateEffect
  <2>4. /\ KInv(kern') /\ DelayInv(kern', FALSE) /\ kern'.cur = t
        /\ kern'.bitmap = kern.bitmap \cup {p}
        /\ kern.tsk_cnt \in Slots /\ kern.tsk_cnt # t /\ kern.state_c[kern.tsk_cnt] = NULL
        /\ kern'.state_c = [kern.state_c EXCEPT ![kern.tsk_cnt] = p]
        /\ kern'.eff = [kern.eff EXCEPT ![kern.tsk_cnt] = p]
    BY <2>3, <1>1 DEF CreatedTask
  <2>5. \A u \in Slots : kern.state_c[u] # NULL \/ u = t =>
            kern'.state_c[u] = kern.state_c[u] /\ kern'.eff[u] = kern.eff[u]
    BY <2>4, <1>2 DEF KInv, KernelType, Tasks
  <2>6. TypeOK'
    BY <2>2, <2>4, <1>1 DEF IInv, TypeOK, KInv
  <2>7. t \in Slots => pc'[t] \in Locs \/ \A q \in kern'.bitmap : q <= kern'.eff[t]
    <3> SUFFICES ASSUME t \in Slots, ~(p > kern.eff[t])
                 PROVE  \A q \in kern'.bitmap : q <= kern'.eff[t]
      BY <2>2, <1>5 DEF next, Locs
    <3>1. p <= kern.eff[t]
      BY <1>2, PriorityFacts
    <3> QED
      BY <3>1, <2>4, <2>5, <1>4
  <2>8. CoreInv(Locs)'
    <3>1. CASE t \in Slots
      <4>1. kern'.state_c[t] = NULL
        BY <3>1, <2>5, <1>4
      <4> QED
        BY <3>1, <4>1, <2>4, <1>1, <1>3, ThreadStepCore
    <3>2. CASE t = NULL
      BY <3>2, <2>4, <1>1, <1>3, <1>5 DEF CoreInv
    <3> QED
      BY <3>1, <3>2, <1>5
  <2>9. PreemptInv(Locs, {})'
    <3>1. CASE t \in Slots
      BY <3>1, <2>4, <2>7, ThreadStepPreempt
    <3>2. CASE t = NULL
      BY <3>2, <2>4, <1>5 DEF PreemptInv
    <3> QED
      BY <3>1, <3>2, <1>5
  <2>10. LeavesOnItsTick
    BY <2>5, KernelFacts DEF LeavesOnItsTick
  <2> QED
    BY <2>2, <2>6, <2>8, <2>9, <2>10 DEF IInv
<1> QED
  BY <1>6, <1>7

(* artos_start: main leaves for the first task. *)
LEMMA StartInv ==
    ASSUME IInv, artos_start
    PROVE  IInv' /\ LeavesOnItsTick
<1>1. /\ pend' = pend /\ switching' = switching /\ systick' = systick /\ pc' = pc
      /\ kern.cur = NULL /\ ~pend /\ ~switching /\ systick = "idle"
      /\ kern.bitmap # {} /\ kern' = rtos_scheduler_start(kern)
  BY DEF artos_start, At, Executes
<1>2. KInv(kern) /\ DelayInv(kern, FALSE) /\ CoreInv(Locs)
  BY <1>1 DEF IInv, CoreInv
<1>3. Switched(kern', kern) /\ DelayInv(kern', FALSE) /\ kern'.cur \in Slots
  BY <1>1, <1>2, StartKeeps
<1>4. /\ KInv(kern') /\ SameWaits(kern', kern) /\ kern'.state_c[kern'.cur] = NULL
      /\ \A p \in kern'.bitmap : p <= kern'.eff[kern'.cur]
  BY <1>3 DEF Switched
<1>5. kern'.cur # NULL
  BY <1>3, KernelFacts
<1>6. CoreInv(Locs)'
  BY <1>1, <1>2, <1>3, <1>4, <1>5 DEF CoreInv
<1>7. PreemptInv(Locs, {})'
  BY <1>3, <1>4, ThreadStepPreempt
<1>8. TypeOK'
  BY <1>1, <1>4 DEF IInv, TypeOK, KInv
<1>9. LeavesOnItsTick
  BY <1>2, <1>4, WaitStepOnTime DEF WaitStep
<1> QED
  BY <1>1, <1>6, <1>7, <1>8, <1>9 DEF IInv

(* A running task blocks, or goes on, and asks for a context switch. *)
LEMMA DelayInvStep ==
    ASSUME IInv, NEW t \in Slots, At(t, "app"),
           pend' = pend, switching' = switching, systick' = systick,
           GoTo(t, "switch"),
           NEW wake \in Ticks, NEW infinite \in BOOLEAN, ~infinite => wake # kern.ticks,
           \/ kern' = kern
           \/ kern' = rtos_block_current_task(kern, wake, NULL, infinite)
    PROVE  IInv' /\ LeavesOnItsTick /\ kern'.cur = kern.cur
<1>1. Executes(t) /\ pc[t] = "app" /\ pc' = [pc EXCEPT ![t] = "switch"]
  BY DEF At, GoTo
<1>2. CoreInv(Locs) /\ pc[t] \notin Locs /\ pc \in [Threads -> {"app", "create", "switch"}]
  BY <1>1 DEF IInv, TypeOK, Locs
<1>3. KInv(kern) /\ DelayInv(kern, FALSE) /\ kern.cur = t /\ kern.state_c[t] = NULL
  BY <1>1, <1>2, RunningTask
<1>4. pc' \in [Threads -> {"app", "create", "switch"}] /\ pc'[t] \in Locs /\ pc'[NULL] = pc[NULL]
  BY <1>1, <1>2, KernelFacts DEF Threads, Locs
<1>5. /\ KInv(kern') /\ DelayInv(kern', FALSE) /\ kern'.cur = t
      /\ \A u \in Slots : u # t => kern'.state_c[u] = kern.state_c[u]
  <2>1. CASE kern' = kern
    BY <2>1, <1>3
  <2>2. CASE kern' = rtos_block_current_task(kern, wake, NULL, infinite)
    <3>1. kern.cur \in Slots /\ kern.state_c[kern.cur] = NULL
      BY <1>3
    <3>2. BlockedOn(kern', kern, NULL, infinite)
      BY <3>1, <2>2, <1>3, BlockEffect
    <3> QED
      BY <3>2, <1>3 DEF BlockedOn
  <2> QED
    BY <2>1, <2>2
<1>6. CoreInv(Locs)'
  BY <1>1, <1>2, <1>4, <1>5, ThreadStepCore
<1>7. PreemptInv(Locs, {})'
  BY <1>4, <1>5, ThreadStepPreempt
<1>8. TypeOK'
  BY <1>4, <1>5 DEF IInv, TypeOK, KInv
<1>9. LeavesOnItsTick
  BY <1>3, <1>5, KernelFacts DEF LeavesOnItsTick
<1> QED
  BY <1>3, <1>4, <1>5, <1>6, <1>7, <1>8, <1>9 DEF IInv

(* The wake tick of a finite delay is a tick other than the current one,   *)
(* wrap-around included.                                                   *)
LEMMA WakeTick ==
    ASSUME NEW now \in Ticks, NEW n \in Ticks
    PROVE  /\ (now + n) % TickMod \in Ticks
           /\ n # 0 => (now + n) % TickMod # now
           /\ (n - now) % TickMod # 0 => n # now
<1>1. TickMod \in Nat /\ TickMod > 2 /\ now \in 0 .. TickMod - 1 /\ n \in 0 .. TickMod - 1
  BY KernelFacts DEF Ticks
<1>2. (now + n) % TickMod = IF now + n < TickMod THEN now + n ELSE now + n - TickMod
  BY <1>1
<1>3. n = now => (n - now) % TickMod = 0
  BY <1>1
<1> QED
  BY <1>1, <1>2, <1>3 DEF Ticks

(* artos_wait and artos_wait_until. *)
LEMMA WaitCallsInv ==
    ASSUME IInv, NEW t \in Threads, NEW n \in Ticks, artos_wait(t, n) \/ artos_wait_until(t, n)
    PROVE  IInv' /\ LeavesOnItsTick /\ kern'.cur = kern.cur
<1>1. t \in Slots /\ kern.ticks \in Ticks
  BY DEF artos_wait, artos_wait_until, Threads, IInv, TypeOK, KernelType
<1>2. ARTOS_DELAY_INFINITY \in Ticks
  BY KernelFacts DEF ARTOS_DELAY_INFINITY, Ticks
<1>3. /\ At(t, "app") /\ GoTo(t, "switch")
      /\ pend' = pend /\ switching' = switching /\ systick' = systick
  BY DEF artos_wait, artos_wait_until
<1>4. PICK wake \in Ticks, infinite \in BOOLEAN :
         /\ ~infinite => wake # kern.ticks
         /\ \/ kern' = kern
            \/ kern' = rtos_block_current_task(kern, wake, NULL, infinite)
  <2>1. \E wake \in Ticks : wake # kern.ticks
    <3>1. 0 \in Ticks /\ 1 \in Ticks
      BY KernelFacts DEF Ticks
    <3> QED
      BY <3>1
  <2>2. CASE kern' = kern
    BY <2>1, <2>2
  <2>3. CASE artos_wait(t, n) /\ kern' # kern
    <3>1. CASE n = ARTOS_DELAY_INFINITY
      <4>1. kern' = rtos_block_current_task(kern, ARTOS_DELAY_INFINITY, NULL, TRUE)
        BY <2>3, <3>1 DEF artos_wait
      <4> QED
        BY <4>1, <1>2
    <3>2. CASE n # ARTOS_DELAY_INFINITY
      <4>1. n # 0 /\ kern' = rtos_block_current_task(kern, (kern.ticks + n) % TickMod, NULL, FALSE)
        BY <2>3, <3>2 DEF artos_wait
      <4>2. (kern.ticks + n) % TickMod \in Ticks /\ (kern.ticks + n) % TickMod # kern.ticks
        BY <4>1, <1>1, WakeTick
      <4> QED
        BY <4>1, <4>2
    <3> QED
      BY <3>1, <3>2
  <2>4. CASE artos_wait_until(t, n) /\ kern' # kern
    <3>1. /\ (n - kern.ticks) % TickMod # 0
          /\ kern' = rtos_block_current_task(kern, n, NULL, FALSE)
      BY <2>4 DEF artos_wait_until
    <3>2. n # kern.ticks
      BY <3>1, <1>1, WakeTick
    <3> QED
      BY <3>1, <3>2
  <2> QED
    BY <2>2, <2>3, <2>4
<1> QED
  BY <1>1, <1>3, <1>4, DelayInvStep

-----------------------------------------------------------------------------
(* Every step keeps the invariant, and lets a delayed task go on its tick  *)
(* only.                                                                   *)
LEMMA StepInv ==
    ASSUME IInv, [Next]_schedVars
    PROVE  IInv' /\ LeavesOnItsTick
<1>1. CASE UNCHANGED schedVars
  <2>1. kern' = kern /\ pend' = pend /\ switching' = switching /\ systick' = systick /\ pc' = pc
    BY <1>1 DEF schedVars
  <2> QED
    BY <2>1 DEF IInv, TypeOK, CoreInv, PreemptInv, SwitchComing, LeavesOnItsTick
<1>2. ASSUME NEW t \in Threads, CreateCheck(t) PROVE IInv' /\ LeavesOnItsTick
  BY <1>2, CreateCheckInv DEF CreateCheck, LeavesOnItsTick
<1>3. ASSUME NEW t \in Threads, NEW p \in Priorities, CreateInsert(t, p)
      PROVE  IInv' /\ LeavesOnItsTick
  BY <1>3, CreateInsertInv
<1>4. ASSUME NEW t \in Threads, Switch(t) \/ artos_yield(t) PROVE IInv' /\ LeavesOnItsTick
  BY <1>4, RequestInv
     DEF Switch, artos_yield, rtos_port_request_context_switch, LeavesOnItsTick
<1>5. ASSUME NEW t \in Threads, NEW n \in Ticks, artos_wait(t, n) \/ artos_wait_until(t, n)
      PROVE  IInv' /\ LeavesOnItsTick
  BY <1>5, WaitCallsInv
<1>6. ASSUME artos_start PROVE IInv' /\ LeavesOnItsTick
  BY <1>6, StartInv
<1>7. ASSUME Exceptions PROVE IInv' /\ LeavesOnItsTick
  <2>1. CoreInv(Locs) /\ KInv(kern)
    BY DEF IInv, CoreInv
  <2>2. CoreInv(Locs)' /\ WaitStep /\ pc' = pc /\ PreemptInv(Locs, {})'
    BY <1>7, <2>1, ExceptionStep
  <2>3. TypeOK'
    BY <2>2 DEF IInv, TypeOK, CoreInv, KInv
  <2> QED
    BY <2>1, <2>2, <2>3, WaitStepOnTime DEF IInv
<1> QED
  BY <1>1, <1>2, <1>3, <1>4, <1>5, <1>6, <1>7 DEF Next, ThreadStep

(* The invariant holds in every reachable state of the scheduler. *)
THEOREM Invariance == Spec => []IInv
<1>1. Init => IInv
  BY InitInv
<1>2. IInv /\ [Next]_schedVars => IInv'
  BY StepInv
<1> QED
  BY <1>1, <1>2, PTL DEF Spec

(* The kernel record and the control state keep their types: the tick      *)
(* counter, the task count and the list of every item included.            *)
THEOREM TypeCorrect == Spec => []TypeOK
<1>1. IInv => TypeOK
  BY DEF IInv
<1> QED
  BY <1>1, Invariance, PTL

(* No ARTOS_ASSERT of tasks.c or list.c fails. *)
THEOREM AssertionsHold == Spec => []NoAssertFails
<1>1. IInv => NoAssertFails
  BY DEF IInv, CoreInv, KInv, NoAssertFails
<1> QED
  BY <1>1, Invariance, PTL

(* No created task is ever lost: it is in a state list, or it runs. *)
THEOREM TasksKept == Spec => []NoTaskLost
<1>1. IInv => NoTaskLost
  <2> SUFFICES ASSUME IInv, NEW t \in kern.created, InfoState(kern, t) = "RUNNING"
               PROVE  kern.cur = t
    BY DEF NoTaskLost
  <2>1. t \in Slots
    BY DEF IInv, TypeOK, KernelType
  <2>2. kern.state_c[t] = NULL
    BY DEF InfoState
  <2> QED
    BY <2>1, <2>2 DEF IInv, CoreInv, KInv, TasksInv
<1> QED
  BY <1>1, Invariance, PTL

(* The ready bitmap, the ready lists and the effective priorities agree. *)
THEOREM ReadyListsCorrect == Spec => []ReadyListsAgree
<1>1. IInv => ReadyListsAgree
  BY DEF IInv, CoreInv, KInv, ListsInv, ReadyListsAgree
<1> QED
  BY <1>1, Invariance, PTL

(* The delay lists are sorted and split at the current tick, so that the   *)
(* branch of rtos_tick_handler that drops overdue tasks is never taken.    *)
THEOREM DelaysOrdered == Spec => []DelayOrder
<1>1. IInv => DelayOrder
  BY DEF IInv, CoreInv, DelayInv, DelayOrder
<1> QED
  BY <1>1, Invariance, PTL

(* Fixed-priority preemption: no task runs its own code while one of       *)
(* higher priority is ready.                                               *)
THEOREM Preemption == Spec => []HighestPriorityRuns
<1>1. IInv => HighestPriorityRuns
  <2> SUFFICES ASSUME IInv, Settled, kern.cur \in Slots, pc[kern.cur] = "app",
                      NEW p \in kern.bitmap
               PROVE  p <= kern.eff[kern.cur]
    BY DEF HighestPriorityRuns
  <2>1. Executes(kern.cur) /\ pc[kern.cur] \notin Locs
    BY DEF IInv, CoreInv, KInv, Settled, Executes, Locs
  <2> QED
    BY <2>1, RunningHighest DEF IInv
<1> QED
  BY <1>1, Invariance, PTL

(* The idle task runs only while no task is ready. *)
THEOREM IdleLast == Spec => []IdleOnlyWhenNothingReady
<1>1. IInv => IdleOnlyWhenNothingReady
  BY DEF IInv, PreemptInv, Settled, IdleOnlyWhenNothingReady
<1> QED
  BY <1>1, Invariance, PTL

(* A delayed task is woken by the tick handler, on exactly the tick it     *)
(* asked for, whatever the wrap-around of the counter.                     *)
THEOREM WokenOnTime == Spec => WakesOnItsTick
<1>1. IInv /\ [Next]_schedVars => [LeavesOnItsTick]_schedVars
  BY StepInv
<1>2. Spec => [][LeavesOnItsTick]_schedVars
  BY <1>1, Invariance, PTL DEF Spec
<1> QED
  BY <1>2 DEF WakesOnItsTick, LeavesOnItsTick
=============================================================================
