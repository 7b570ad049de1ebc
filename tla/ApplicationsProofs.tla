------------------------- MODULE ApplicationsProofs -------------------------
(***************************************************************************)
(* Proofs about module Applications: rows on the console stay intact, and  *)
(* the button events of the showcase are accounted for.  What a demo's     *)
(* step does to the kernel and the semaphore is SemPart, the invariant of  *)
(* module SemaphoreProofs; what it does to a queue of the showcase is what *)
(* module ListsProofs proves of a ring buffer.                             *)
(***************************************************************************)
EXTENDS Applications, SemaphoreProofs

(* Steps of others than semaphores.  No task starts or ends a take.        *)
TakersStay == \A t \in Slots : pc'[t] \in TakeLocs <=> pc[t] \in TakeLocs

LEMMA OthersStep ==
    ASSUME SemPart, CoreInv(SwitchLocs)', kern'.cur # NULL, pc' \in [Threads -> Places],
           UNCHANGED semVars, NEW objects, Semaphores \cap objects = {},
           LeavesOthers(TakeLocs, objects)
    PROVE  SemPart' /\ TakersStay
<1>1. SemPart'
  BY SemFrame
<1>2. TakersStay
  BY DEF LeavesOthers, TakersStay
<1> QED
  BY <1>1, <1>2

(* Exceptions and requests for a context switch. *)
LEMMA ExceptionKeeps ==
    ASSUME SemPart, SysTick \/ PendSVEnter \/ PendSVSwitch, UNCHANGED semVars
    PROVE  SemPart' /\ TakersStay
<1>1. SemPart'
  BY SemExceptionInv DEF SemKept
<1>2. pc' = pc
  BY ExceptionStep DEF SemPart, Exceptions
<1> QED
  BY <1>1, <1>2 DEF TakersStay

LEMMA RequestKeeps ==
    ASSUME SemPart, NEW t \in Slots, NEW loc \in Places \ TakeLocs, NEW next \in Places \ TakeLocs,
           rtos_port_request_context_switch(t, loc, next), UNCHANGED semVars
    PROVE  SemPart' /\ TakersStay
<1>1. CoreInv(SwitchLocs) /\ kern.cur # NULL /\ pc \in [Threads -> Places] /\ t \in Threads
  BY DEF SemPart, SemTypeOK, Threads
<1>2. /\ CoreInv(SwitchLocs)' /\ kern' = kern
      /\ pc[t] = loc /\ pc' = [pc EXCEPT ![t] = next]
  BY <1>1, RequestCore
<1>3. pc' \in [Threads -> Places]
  BY <1>1, <1>2
<1>4. LeavesOthers(TakeLocs, {})
  BY <1>1, <1>2, OnlyMoves
<1> QED
  BY <1>1, <1>2, <1>3, <1>4, OthersStep

(* A running task moves outside of a take, and blocks for others, or does  *)
(* not; the wait reason it has is its own.                                 *)
LEMMA TaskBlocks ==
    ASSUME SemPart, NEW t \in Slots, Executes(t), pc[t] \notin SwitchLocs, pc[t] \notin TakeLocs,
           NEW loc \in Places \ TakeLocs, pc' = [pc EXCEPT ![t] = loc],
           KInv(kern'), DelayInv(kern', FALSE), kern'.cur = t,
           kern'.state_c[t] = NULL \/ loc \in SwitchLocs,
           kern'.event_c[t] \in {kern.event_c[t], NULL} \cup (WaitLists \ Semaphores),
           \A u \in Slots : u # t =>
              /\ kern'.event_c[u] = kern.event_c[u] /\ kern'.reason[u] = kern.reason[u]
              /\ \A w, i : InCall(kern, u, w, i) => InCall(kern', u, w, i),
           pend' = pend, switching' = switching, systick' = systick, UNCHANGED semVars
    PROVE  SemPart' /\ TakersStay
<1>1. CoreInv(SwitchLocs) /\ pc \in [Threads -> Places] /\ t \in Threads /\ Slots \subseteq Threads
  BY DEF SemPart, SemTypeOK, Threads
<1>2. /\ pc' \in [Threads -> Places] /\ pc'[t] = loc
      /\ \A u \in Slots : u # t => pc'[u] = pc[u]
  BY <1>1
<1>3. CoreInv(SwitchLocs)'
  BY <1>1, <1>2, ThreadStepCore
<1>4. kern'.cur # NULL
  BY KernelFacts
<1>5. LeavesOthers(TakeLocs, WaitLists \ Semaphores)
  BY <1>2 DEF LeavesOthers
<1> QED
  BY <1>2, <1>3, <1>4, <1>5, OthersStep

(* A task released from a list that is not a semaphore's is in no take. *)
LEMMA ReleasedIsElsewhere ==
    ASSUME SemPart, NEW l \in WaitLists \ Semaphores, NEW u \in Slots, kern.event_c[u] = l
    PROVE  pc[u] \notin TakeLocs
<1>1. TakesInv /\ l # NULL
  BY KernelFacts DEF SemPart
<1> QED
  BY <1>1 DEF TakesInv, InCall

(* artos_wait and artos_wait_until. *)
LEMMA WaitEffect ==
    ASSUME SemPart, NEW t \in Slots, NEW n \in Ticks, artos_wait(t, n) \/ artos_wait_until(t, n)
    PROVE  \/ kern' = kern
           \/ \E infinite \in BOOLEAN : BlockedOn(kern', kern, NULL, infinite)
<1>1. /\ Executes(t) /\ pc[t] = "app"
  BY DEF artos_wait, artos_wait_until, At
<1>2. pc[t] \notin SwitchLocs /\ CoreInv(SwitchLocs)
  BY <1>1 DEF SwitchLocs, SemPart
<1>3. /\ KInv(kern) /\ DelayInv(kern, FALSE) /\ kern.cur = t /\ kern.cur \in Slots
      /\ kern.state_c[t] = NULL
  BY <1>1, <1>2, RunningTask
<1>4. kern.ticks \in Ticks /\ ARTOS_DELAY_INFINITY \in Ticks
  BY <1>3, KernelFacts DEF KInv, KernelType, ARTOS_DELAY_INFINITY, Ticks
<1>5. CASE kern' = kern
  BY <1>5
<1>6. CASE kern' = rtos_block_current_task(kern, ARTOS_DELAY_INFINITY, NULL, TRUE)
  <2>1. BlockedOn(kern', kern, NULL, TRUE)
    BY <1>3, <1>4, <1>6, BlockEffect
  <2> QED
    BY <2>1
<1>7. ASSUME NEW w \in Ticks, w # kern.ticks, kern' = rtos_block_current_task(kern, w, NULL, FALSE)
      PROVE  BlockedOn(kern', kern, NULL, FALSE)
  BY <1>3, <1>7, BlockEffect
<1>8. CASE artos_wait(t, n)
  <2>1. n # 0 => (kern.ticks + n) % TickMod \in Ticks /\ (kern.ticks + n) % TickMod # kern.ticks
    BY <1>4, WakeTick
  <2> QED
    BY <2>1, <1>5, <1>6, <1>7, <1>8 DEF artos_wait
<1>9. CASE artos_wait_until(t, n)
  <2>1. (n - kern.ticks) % TickMod # 0 => n # kern.ticks
    BY <1>4, WakeTick
  <2>2. \/ kern' = kern
        \/ /\ kern' = rtos_block_current_task(kern, n, NULL, FALSE)
           /\ (n - kern.ticks) % TickMod # 0
    BY <1>9 DEF artos_wait_until
  <2> QED
    BY <2>1, <2>2, <1>5, <1>7
<1> QED
  BY <1>8, <1>9

LEMMA WaitKeeps ==
    ASSUME SemPart, NEW t \in Slots, NEW n \in Ticks, artos_wait(t, n) \/ artos_wait_until(t, n),
           UNCHANGED semVars
    PROVE  SemPart' /\ TakersStay
<1>1. /\ Executes(t) /\ pc[t] = "app" /\ pc' = [pc EXCEPT ![t] = "switch"]
      /\ pend' = pend /\ switching' = switching /\ systick' = systick
  BY DEF artos_wait, artos_wait_until, At, GoTo
<1>2. /\ pc[t] \notin SwitchLocs /\ pc[t] \notin TakeLocs /\ CoreInv(SwitchLocs)
      /\ "switch" \in Places \ TakeLocs /\ "switch" \in SwitchLocs
  BY <1>1 DEF SwitchLocs, TakeLocs, Places, SemPart
<1>3. KInv(kern) /\ DelayInv(kern, FALSE) /\ kern.cur = t
  BY <1>1, <1>2, RunningTask
<1>4. \/ kern' = kern
      \/ \E infinite \in BOOLEAN : BlockedOn(kern', kern, NULL, infinite)
  BY WaitEffect
<1>5. /\ KInv(kern') /\ DelayInv(kern', FALSE) /\ kern'.cur = t
      /\ kern'.event_c = kern.event_c /\ kern'.reason = kern.reason
      /\ \A u \in Slots : u # t => kern'.state_c[u] = kern.state_c[u]
  BY <1>3, <1>4 DEF BlockedOn
<1>6. \A u \in Slots : u # t => \A w, i : InCall(kern, u, w, i) => InCall(kern', u, w, i)
  BY <1>5 DEF InCall, Blocked
<1>7. kern'.event_c[t] \in {kern.event_c[t], NULL} \cup (WaitLists \ Semaphores)
  BY <1>5
<1> QED
  BY <1>1, <1>2, <1>5, <1>6, <1>7, TaskBlocks

(* The tasks that write a row: they have taken uart_lock. *)
Writes(t) == at[t] = "row" /\ pc[t] \notin TakeLocs

(* The characters of its row that a task has stored. *)
Stored(t) == RowLength - rows[t].left

(* The first n characters of the row of t. *)
RowPart(t, n) == [i \in 1 .. n |-> <<t, i>>]

Statements == {"begin", "led", "publish", "sleep", "dequeue", "take", "row", "delay", "load",
               "release", "on", "off", "work", "yield"}

ConsoleTypeOK ==
    /\ at \in [Slots -> Statements]
    /\ rows \in [Slots -> [left : 0 .. RowLength, polled : BOOLEAN]]

(* The console is one token: it is in the semaphore, or a task writes.     *)
OneWriter ==
    /\ \A t \in Slots : Writes(t) => tokens[uart_lock] = 0
    /\ (\A t \in Slots : ~Writes(t)) => tokens[uart_lock] = 1
    /\ \A t, u \in Slots : Writes(t) /\ Writes(u) => t = u

(* Who waits for it does so without limit and has its row before it.       *)
TakersReady ==
    \A t \in Slots : pc[t] \in TakeLocs =>
        /\ at[t] = "row"
        /\ taking[t] = [sem |-> uart_lock, infinite |-> TRUE]
        /\ rows[t] = [left |-> RowLength, polled |-> FALSE]

(* The wire and the data register hold n characters of the row of t.       *)
OnWire(t, n) ==
    \/ dr = NULL /\ wire = RowPart(t, n)
    \/ /\ n > 0 /\ dr = <<t, n>>
       /\ \/ wire = RowPart(t, n - 1)
          \/ n = 1 /\ \E u \in Slots : wire = RowPart(u, RowLength)

(* They hold what the writer has stored of its row, or the whole row of    *)
(* the last one, or nothing yet.                                           *)
WireInv ==
    /\ \A t \in Slots : Writes(t) =>
          /\ Stored(t) > 0 => OnWire(t, Stored(t))
          /\ rows[t].polled => rows[t].left > 0 /\ dr = NULL
    /\ (\A t \in Slots : Writes(t) => Stored(t) = 0)
          => \E u \in Slots : OnWire(u, 0) \/ OnWire(u, RowLength)

ConsoleInv == ConsoleTypeOK /\ OneWriter /\ TakersReady /\ WireInv

LEMMA ConsoleFacts ==
    /\ RowLength \in Nat /\ RowLength > 0
    /\ uart_lock \in Semaphores
    /\ NULL \notin Slots \X (1 .. RowLength)
BY ConsoleAssumption

Characters(t) == {t} \X Nat

(* The characters of a row. *)
LEMMA RowParts ==
    ASSUME NEW t, NEW n \in Nat
    PROVE  /\ RowPart(t, n) \in Seq(Characters(t)) /\ Len(RowPart(t, n)) = n
           /\ \A i \in 1 .. n : RowPart(t, n)[i] = <<t, i>>
           /\ RowPart(t, 0) = <<>>
           /\ Append(RowPart(t, n), <<t, n + 1>>) = RowPart(t, n + 1)
           /\ <<<<t, 1>>>> = RowPart(t, 1)
<1> DEFINE S == Characters(t)
<1>1. ASSUME NEW m \in Nat
      PROVE  /\ RowPart(t, m) \in Seq(S) /\ Len(RowPart(t, m)) = m
             /\ \A i \in 1 .. m : RowPart(t, m)[i] = <<t, i>>
  <2>1. RowPart(t, m) \in [1 .. m -> S]
    BY DEF RowPart, Characters
  <2>2. RowPart(t, m) \in Seq(S)
    BY <2>1, SeqDef
  <2> QED
    BY <2>1, <2>2, LenProperties DEF RowPart
<1>2. \A m \in Nat : <<t, m>> \in S
  BY DEF Characters
<1> HIDE DEF S
<1>3. RowPart(t, 0) = <<>>
  <2>1. Len(RowPart(t, 0)) = 0 /\ RowPart(t, 0) \in Seq(S)
    BY <1>1
  <2> QED
    BY <2>1, EmptySeq
<1>4. ASSUME NEW m \in Nat PROVE Append(RowPart(t, m), <<t, m + 1>>) = RowPart(t, m + 1)
  <2> DEFINE s == Append(RowPart(t, m), <<t, m + 1>>)
             r == RowPart(t, m + 1)
  <2>1. r \in Seq(S) /\ Len(r) = m + 1 /\ \A i \in 1 .. m + 1 : r[i] = <<t, i>>
    BY <1>1
  <2>2. /\ RowPart(t, m) \in Seq(S) /\ Len(RowPart(t, m)) = m /\ <<t, m + 1>> \in S
        /\ \A i \in 1 .. m : RowPart(t, m)[i] = <<t, i>>
    BY <1>1, <1>2
  <2>3. /\ s \in Seq(S) /\ Len(s) = m + 1
        /\ \A i \in 1 .. m : s[i] = RowPart(t, m)[i]
        /\ s[m + 1] = <<t, m + 1>>
    BY <2>2, AppendProperties
  <2>4. \A i \in 1 .. m + 1 : s[i] = r[i]
    <3> SUFFICES ASSUME NEW i \in 1 .. m + 1 PROVE s[i] = r[i]
      OBVIOUS
    <3>1. i \in 1 .. m \/ i = m + 1
      OBVIOUS
    <3> QED
      BY <3>1, <2>1, <2>2, <2>3
  <2> HIDE DEF s, r
  <2>5. s = r
    BY <2>1, <2>3, <2>4, SeqEqual
  <2> QED
    BY <2>5 DEF s, r
<1>5. <<<<t, 1>>>> = RowPart(t, 1)
  <2> DEFINE c == <<t, 1>>
             s == <<c>>
             r == RowPart(t, 1)
  <2>1. r \in Seq(S) /\ Len(r) = 1 /\ r[1] = c
    <3>1. 1 \in Nat /\ 1 \in 1 .. 1
      OBVIOUS
    <3>2. \A i \in 1 .. 1 : r[i] = <<t, i>>
      BY <3>1, <1>1
    <3> QED
      BY <3>1, <3>2, <1>1
  <2>2. c \in S
    BY <1>2
  <2> HIDE DEF c, r
  <2>3. s \in Seq(S) /\ Len(s) = 1 /\ s[1] = c
    <3>1. s = Append(<<>>, c)
      OBVIOUS
    <3>2. <<>> \in Seq(S) /\ Len(<<>>) = 0
      BY EmptySeq
    <3> QED
      BY <3>1, <3>2, <2>2, AppendProperties
  <2> HIDE DEF s
  <2>4. \A i \in 1 .. 1 : s[i] = r[i]
    BY <2>1, <2>3
  <2>5. s = r
    BY <2>1, <2>3, <2>4, SeqEqual
  <2> QED
    BY <2>5 DEF s, r, c
<1> QED
  BY <1>1, <1>3, <1>4, <1>5 DEF S

(* Part of a row is a prefix of the row. *)
LEMMA PartIsPrefix ==
    ASSUME NEW t \in Slots, NEW n \in 0 .. RowLength
    PROVE  IsPrefix(RowPart(t, n), Row(t))
<1>1. n \in Nat /\ RowLength \in Nat /\ Row(t) = RowPart(t, RowLength) /\ n <= RowLength
  BY ConsoleFacts DEF Row, RowPart
<1> DEFINE S == Characters(t)
           s == RowPart(t, n)
           r == RowPart(t, RowLength)
           p == SubSeq(r, 1, n)
<1>2. /\ s \in Seq(S) /\ Len(s) = n /\ \A i \in 1 .. n : s[i] = <<t, i>>
      /\ r \in Seq(S) /\ Len(r) = RowLength /\ \A i \in 1 .. RowLength : r[i] = <<t, i>>
  BY <1>1, RowParts
<1>3. \A i \in 1 .. n : r[i] \in S /\ r[i] = <<t, i>>
  BY <1>1, <1>2 DEF Characters
<1> HIDE DEF S, s, r
<1>4. p \in Seq(S) /\ Len(p) = n /\ \A i \in 1 .. n : p[i] = r[i]
  <2>1. /\ p \in Seq(S) /\ Len(p) = IF 1 <= n THEN n - 1 + 1 ELSE 0
        /\ \A i \in 1 .. n - 1 + 1 : p[i] = r[1 + i - 1]
    BY <1>1, <1>3, SubSeqProperties
  <2> QED
    BY <2>1, <1>1
<1> HIDE DEF p
<1>5. s = p
  <2>1. \A i \in 1 .. n : s[i] = p[i]
    BY <1>2, <1>3, <1>4
  <2> QED
    BY <2>1, <1>2, <1>4, SeqEqual
<1>6. SubSeq(s, 1, n) = s
  <2>1. SubSeq(s, 1, Len(s)) = s
    BY <1>2, SubSeqFull
  <2> QED
    BY <2>1, <1>2
<1>7. IsPrefix(s, r)
  BY <1>1, <1>2, <1>5, <1>6 DEF IsPrefix, p
<1> QED
  BY <1>1, <1>7 DEF s, r

LEMMA ConsoleTypes ==
    ASSUME ConsoleTypeOK, NEW t \in Slots
    PROVE  /\ at[t] \in Statements
           /\ rows[t] = [left |-> rows[t].left, polled |-> rows[t].polled]
           /\ rows[t].left \in 0 .. RowLength /\ rows[t].polled \in BOOLEAN
           /\ Stored(t) \in 0 .. RowLength
BY ConsoleFacts DEF ConsoleTypeOK, Stored

(* Complete rows: the wire holds part of a row. *)
LEMMA RowsFollow == ConsoleInv => RowsIntact
<1> SUFFICES ASSUME ConsoleInv PROVE RowsIntact
  OBVIOUS
<1>1. ASSUME NEW t \in Slots, NEW n \in 0 .. RowLength, OnWire(t, n)
      PROVE  RowsIntact
  <2>1. CASE wire = RowPart(t, n)
    BY <2>1, PartIsPrefix DEF RowsIntact
  <2>2. CASE n > 0 /\ wire = RowPart(t, n - 1)
    <3>1. n - 1 \in 0 .. RowLength
      BY <2>2, ConsoleFacts
    <3> QED
      BY <2>2, <3>1, PartIsPrefix DEF RowsIntact
  <2>3. CASE \E u \in Slots : wire = RowPart(u, RowLength)
    <3>1. RowLength \in 0 .. RowLength
      BY ConsoleFacts
    <3> QED
      BY <2>3, <3>1, PartIsPrefix DEF RowsIntact
  <2> QED
    BY <1>1, <2>1, <2>2, <2>3 DEF OnWire
<1>2. 0 \in 0 .. RowLength /\ RowLength \in 0 .. RowLength
  BY ConsoleFacts
<1>3. \A t \in Slots : Stored(t) \in 0 .. RowLength
  BY ConsoleTypes DEF ConsoleInv
<1>4. CASE \A t \in Slots : Writes(t) => Stored(t) = 0
  BY <1>1, <1>2, <1>4 DEF ConsoleInv, WireInv
<1>5. ASSUME NEW t \in Slots, Writes(t), Stored(t) # 0 PROVE RowsIntact
  <2>1. Stored(t) > 0
    BY <1>3, <1>5
  <2> QED
    BY <1>1, <1>3, <1>5, <2>1 DEF ConsoleInv, WireInv
<1> QED
  BY <1>4, <1>5

(* A step that has nothing to do with the console: the tasks that move are *)
(* and stay outside the statement that writes.                             *)
LEMMA ConsoleFrame ==
    ASSUME ConsoleInv, TakersStay, UNCHANGED semVars, UNCHANGED consoleVars,
           at' \in [Slots -> Statements],
           \A t \in Slots : at'[t] = at[t] \/ (at[t] # "row" /\ at'[t] # "row")
    PROVE  ConsoleInv'
<1>1. /\ tokens' = tokens /\ taking' = taking /\ rows' = rows /\ dr' = dr /\ wire' = wire
  BY DEF semVars, consoleVars
<1>2. /\ ConsoleTypeOK /\ OneWriter /\ TakersReady /\ WireInv
  BY DEF ConsoleInv
<1>3. \A t \in Slots : /\ pc'[t] \in TakeLocs <=> pc[t] \in TakeLocs
                       /\ pc[t] \in TakeLocs => at[t] = "row" /\ at'[t] = "row"
  BY <1>2 DEF TakersStay, TakersReady
<1>4. \A t \in Slots : Writes(t)' <=> Writes(t)
  BY <1>3 DEF Writes
<1>5. ConsoleTypeOK'
  BY <1>1, <1>2 DEF ConsoleTypeOK
<1>6. OneWriter'
  BY <1>1, <1>2, <1>4 DEF OneWriter
<1>7. TakersReady'
  BY <1>1, <1>2, <1>3 DEF TakersReady
<1>8. /\ \A t : Stored(t)' = Stored(t) 
      /\ \A t, n : OnWire(t, n)' <=> OnWire(t, n)
  BY <1>1 DEF Stored, OnWire
<1>9. WireInv'
  BY <1>1, <1>2, <1>4, <1>8 DEF WireInv
<1> QED
  BY <1>5, <1>6, <1>7, <1>9 DEF ConsoleInv

LEMMA LockTokens ==
    ASSUME SemPart, ConsoleInv
    PROVE  /\ sem[uart_lock].count \in Nat /\ tokens[uart_lock] \in {0, 1}
           /\ tokens \in [Semaphores -> Int]
           /\ sem[uart_lock].count > 0 => \A t \in Slots : ~Writes(t)
           /\ \A t \in Slots : t \in Granted(uart_lock) => \A u \in Slots : ~Writes(u)
<1>1. /\ sem[uart_lock].count \in Nat /\ tokens \in [Semaphores -> Int]
      /\ tokens[uart_lock] = sem[uart_lock].count + Cardinality(Granted(uart_lock))
  BY ConsoleFacts, SemFacts DEF SemPart, SemTypeOK, TokensConserved
<1>2. Granted(uart_lock) \in SUBSET Slots
  BY DEF Granted
<1>3. Cardinality(Granted(uart_lock)) \in Nat
  BY <1>2, TaskSetCard
<1>4. ASSUME NEW t \in Slots, t \in Granted(uart_lock) PROVE Cardinality(Granted(uart_lock)) > 0
  <2> DEFINE R == Granted(uart_lock) \ {t}
  <2>1. R \in SUBSET Slots
    BY <1>2
  <2>2. Cardinality(R) \in Nat
    BY <2>1, TaskSetCard
  <2>3. Cardinality(R) = Cardinality(Granted(uart_lock)) - 1
    BY <1>2, <1>4, TaskSetCard
  <2> QED
    BY <2>2, <2>3, <1>3
<1>5. OneWriter
  BY DEF ConsoleInv
<1>6. tokens[uart_lock] \in {0, 1}
  BY <1>5 DEF OneWriter
<1>7. sem[uart_lock].count > 0 \/ Cardinality(Granted(uart_lock)) > 0 => \A t \in Slots : ~Writes(t)
  BY <1>1, <1>3, <1>5 DEF OneWriter
<1> QED
  BY <1>1, <1>4, <1>6, <1>7

(* One task gets the console: it becomes the writer. *)
LEMMA WriterStarts ==
    ASSUME SemPart, ConsoleInv, NEW t \in Slots, \A u \in Slots : ~Writes(u),
           tokens' = [tokens EXCEPT ![uart_lock] = @ - 1],
           dr' = dr, wire' = wire, at' \in [Slots -> Statements],
           at'[t] = "row", pc'[t] \notin TakeLocs,
           rows' \in [Slots -> [left : 0 .. RowLength, polled : BOOLEAN]],
           rows'[t] = [left |-> RowLength, polled |-> FALSE],
           \A u \in Slots : u # t => /\ at'[u] = at[u] /\ pc'[u] = pc[u] /\ rows'[u] = rows[u]
                                     /\ taking'[u] = taking[u]
    PROVE  ConsoleInv'
<1>1. ConsoleTypeOK /\ OneWriter /\ TakersReady /\ WireInv
  BY DEF ConsoleInv
<1>2. /\ Writes(t)' /\ \A u \in Slots : u # t => ~Writes(u)'
  BY DEF Writes
<1>3. tokens'[uart_lock] = 0
  BY <1>1, LockTokens, ConsoleFacts DEF OneWriter
<1>4. ConsoleTypeOK' /\ OneWriter' /\ TakersReady'
  <2>1. ConsoleTypeOK'
    BY DEF ConsoleTypeOK
  <2>2. OneWriter'
    BY <1>2, <1>3 DEF OneWriter
  <2>3. TakersReady'
    BY <1>1 DEF TakersReady
  <2> QED
    BY <2>1, <2>2, <2>3
<1>5. Stored(t)' = 0
  BY ConsoleFacts DEF Stored
<1>6. \E u \in Slots : OnWire(u, 0) \/ OnWire(u, RowLength)
  BY <1>1 DEF WireInv
<1>7. \A u, n : OnWire(u, n)' <=> OnWire(u, n)
  BY DEF OnWire
<1>8. WireInv'
  BY <1>2, <1>5, <1>6, <1>7 DEF WireInv
<1> QED
  BY <1>4, <1>8 DEF ConsoleInv

LEMMA StatementMoves ==
    ASSUME ConsoleTypeOK, NEW t \in Slots, NEW from, NEW to \in Statements, Statement(t, from, to)
    PROVE  /\ at' \in [Slots -> Statements] /\ at[t] = from /\ at'[t] = to
           /\ \A u \in Slots : u # t => at'[u] = at[u]
           /\ pc[t] = "app" /\ pc[t] \notin TakeLocs /\ Executes(t)
BY DEF ConsoleTypeOK, Statement, At, TakeLocs

LEMMA TakeConsoleKeeps ==
    ASSUME SemPart, ConsoleInv, NEW t \in Slots, NEW from \in Statements \ {"row"},
           TakeConsole(t, from)
    PROVE  SemPart' /\ ConsoleInv'
<1> DEFINE row == [left |-> RowLength, polled |-> FALSE]
<1>1. /\ Statement(t, from, "row") /\ artos_semaphore_take(t, uart_lock, ARTOS_DELAY_INFINITY)
      /\ rows' = [rows EXCEPT ![t] = row]
      /\ dr' = dr /\ wire' = wire
  BY DEF TakeConsole
<1>2. /\ at' \in [Slots -> Statements] /\ at[t] = from /\ at'[t] = "row"
      /\ \A u \in Slots : u # t => at'[u] = at[u]
      /\ pc[t] = "app" /\ pc[t] \notin TakeLocs /\ Executes(t)
  <2>1. "row" \in Statements
    BY DEF Statements
  <2> QED
    BY <1>1, <2>1, StatementMoves DEF ConsoleInv
<1>3. /\ rows' \in [Slots -> [left : 0 .. RowLength, polled : BOOLEAN]]
      /\ rows'[t] = row /\ \A u \in Slots : u # t => rows'[u] = rows[u]
  <2>1. row \in [left : 0 .. RowLength, polled : BOOLEAN]
    BY ConsoleFacts
  <2>2. rows \in [Slots -> [left : 0 .. RowLength, polled : BOOLEAN]]
    BY DEF ConsoleInv, ConsoleTypeOK
  <2> HIDE DEF row
  <2> QED
    BY <1>1, <2>1, <2>2
<1>4. /\ ConsoleTypeOK /\ OneWriter /\ TakersReady /\ WireInv
      /\ uart_lock \in Semaphores
  BY ConsoleFacts DEF ConsoleInv
<1>5. CASE sem[uart_lock].count > 0
  <2>1. /\ sem' = [sem EXCEPT ![uart_lock].count = @ - 1]
        /\ tokens' = [tokens EXCEPT ![uart_lock] = @ - 1]
        /\ UNCHANGED <<schedVars, taking>>
    <3>1. sem[uart_lock].count # 0
      BY <1>5
    <3> QED
      BY <3>1, <1>1 DEF artos_semaphore_take, schedVars
  <2>2. SemPart'
    BY <2>1, <1>4, <1>5, TakeNowInv DEF SemCallKept, SemKept
  <2>3. pc' = pc /\ taking' = taking
    BY <2>1 DEF schedVars
  <2>4. \A u \in Slots : ~Writes(u)
    BY <1>5, LockTokens
  <2>5. ConsoleInv'
    BY <2>1, <2>3, <2>4, <1>1, <1>2, <1>3, WriterStarts
  <2> QED
    BY <2>2, <2>5
<1>6. CASE sem[uart_lock].count = 0
  <2>1. SemPart'
    <3>1. ARTOS_DELAY_INFINITY \in Ticks
      BY KernelFacts DEF ARTOS_DELAY_INFINITY, Ticks
    <3> QED
      BY <3>1, <1>1, <1>4, <1>6, TakeBlockInv DEF SemCallKept, SemKept
  <2> DEFINE arg == [sem |-> uart_lock, infinite |-> TRUE]
  <2>2. /\ taking' = [taking EXCEPT ![t] = arg]
        /\ pc' = [pc EXCEPT ![t] = "take_switch"]
        /\ sem' = sem /\ tokens' = tokens
    <3>1. ~(sem[uart_lock].count > 0)
      BY <1>6
    <3> QED
      BY <3>1, <1>1 DEF artos_semaphore_take, GoTo
  <2>3. /\ pc'[t] = "take_switch" /\ taking'[t] = arg
        /\ \A u \in Slots : u # t => pc'[u] = pc[u] /\ taking'[u] = taking[u]
    <3>1. pc \in [Threads -> Places] /\ t \in Threads /\ DOMAIN taking = Slots
          /\ Slots \subseteq Threads
      BY DEF SemPart, SemTypeOK, Threads
    <3> HIDE DEF arg
    <3> QED
      BY <2>2, <3>1
  <2>4. \A u \in Slots : Writes(u)' <=> Writes(u)
    BY <2>3, <1>2 DEF Writes, TakeLocs
  <2>5. \A u \in Slots : Writes(u) => rows'[u] = rows[u]
    BY <1>2, <1>3 DEF Writes
  <2>6. ConsoleTypeOK' /\ OneWriter'
    BY <2>2, <2>4, <1>2, <1>3, <1>4 DEF ConsoleTypeOK, OneWriter
  <2>7. TakersReady'
    BY <2>3, <1>2, <1>3, <1>4 DEF TakersReady
  <2>8. /\ \A u \in Slots : Writes(u) => Stored(u)' = Stored(u)
        /\ \A u, n : OnWire(u, n)' <=> OnWire(u, n)
    BY <2>5, <1>1 DEF Stored, OnWire
  <2>9. WireInv'
    BY <2>4, <2>5, <2>8, <1>1, <1>4 DEF WireInv
  <2> QED
    BY <2>1, <2>6, <2>7, <2>9 DEF ConsoleInv
<1> QED
  BY <1>5, <1>6, LockTokens

LEMMA TakeReturnKeeps ==
    ASSUME SemPart, ConsoleInv, NEW t \in Slots, TakeReturn(t),
           UNCHANGED <<consoleVars, at>>
    PROVE  SemPart' /\ ConsoleInv'
<1>1. /\ Executes(t) /\ pc[t] = "take_woken"
      /\ tokens' = IF kern.reason[t] = "WAIT_SIGNALED" THEN [tokens EXCEPT ![taking[t].sem] = @ - 1]
                   ELSE tokens
      /\ taking' = [taking EXCEPT ![t] = NotTaking]
      /\ pc' = [pc EXCEPT ![t] = "app"]
      /\ rows' = rows /\ dr' = dr /\ wire' = wire /\ at' = at
  BY DEF TakeReturn, At, GoTo, consoleVars
<1>2. SemPart'
  BY TakeReturnInv DEF SemCallKept, SemKept
<1>3. ConsoleTypeOK /\ TakersReady /\ pc[t] \in TakeLocs
  BY <1>1 DEF ConsoleInv, TakeLocs
<1>4. /\ at[t] = "row" /\ taking[t].sem = uart_lock /\ taking[t].infinite
      /\ rows[t] = [left |-> RowLength, polled |-> FALSE]
  <2>1. taking[t] = [sem |-> uart_lock, infinite |-> TRUE]
    BY <1>3 DEF TakersReady
  <2>2. taking[t].sem = uart_lock /\ taking[t].infinite = TRUE
    BY <2>1
  <2> QED
    BY <2>2, <1>3 DEF TakersReady
<1>5. kern.reason[t] = "WAIT_SIGNALED"
  BY <1>1, <1>4, TakesReturn DEF TakeHasReason
<1>6. kern.event_c[t] = NULL
  <2>1. CoreInv(SwitchLocs) /\ pc[t] \notin SwitchLocs
    BY <1>1 DEF SemPart, SwitchLocs
  <2> QED
    BY <2>1, <1>1, RunningTask
<1>7. t \in Granted(uart_lock)
  BY <1>1, <1>4, <1>5, <1>6 DEF Granted
<1>8. /\ pc'[t] = "app" /\ \A u \in Slots : u # t => pc'[u] = pc[u] /\ taking'[u] = taking[u]
  <2>1. pc \in [Threads -> Places] /\ t \in Threads /\ DOMAIN taking = Slots
        /\ Slots \subseteq Threads
    BY DEF SemPart, SemTypeOK, Threads
  <2> QED
    BY <1>1, <2>1
<1>9. ConsoleInv'
  <2>1. \A u \in Slots : ~Writes(u)
    BY <1>7, LockTokens
  <2>2. tokens' = [tokens EXCEPT ![uart_lock] = @ - 1]
    BY <1>1, <1>4, <1>5
  <2>3. pc'[t] \notin TakeLocs
    BY <1>8 DEF TakeLocs
  <2> QED
    BY <2>1, <2>2, <2>3, <1>1, <1>3, <1>4, <1>8, WriterStarts DEF ConsoleTypeOK
<1> QED
  BY <1>2, <1>9

LEMMA SignalConsoleKeeps ==
    ASSUME SemPart, ConsoleInv, NEW t \in Slots, NEW to \in Statements \ {"row"},
           SignalConsole(t, to)
    PROVE  SemPart' /\ ConsoleInv'
<1>1. /\ Statement(t, "row", to) /\ rows[t].left = 0 /\ artos_semaphore_signal(t, uart_lock)
      /\ rows' = rows /\ dr' = dr /\ wire' = wire
  BY DEF SignalConsole, consoleVars
<1>2. /\ at' \in [Slots -> Statements] /\ at[t] = "row" /\ at'[t] = to
      /\ \A u \in Slots : u # t => at'[u] = at[u]
      /\ pc[t] = "app" /\ pc[t] \notin TakeLocs /\ Executes(t)
  BY <1>1, StatementMoves DEF ConsoleInv
<1>3. /\ ConsoleTypeOK /\ OneWriter /\ TakersReady /\ WireInv
      /\ uart_lock \in Semaphores
  BY ConsoleFacts DEF ConsoleInv
<1>4. SemPart'
  BY <1>1, <1>3, SignalInv DEF SemCallKept, SemKept
<1>5. /\ tokens' = [tokens EXCEPT ![uart_lock] = @ + 1] /\ taking' = taking
      /\ pc' = [pc EXCEPT ![t] = IF WakesHigher(uart_lock) THEN "switch" ELSE "app"]
  BY <1>1 DEF artos_semaphore_signal, GoTo
<1>6. /\ pc'[t] \in {"switch", "app"} /\ \A u \in Slots : u # t => pc'[u] = pc[u]
  <2>1. pc \in [Threads -> Places] /\ t \in Threads /\ Slots \subseteq Threads
    BY DEF SemPart, SemTypeOK, Threads
  <2> QED
    BY <1>5, <2>1
<1>7. /\ Writes(t) /\ ~Writes(t)' /\ \A u \in Slots : ~Writes(u)'
      /\ \A u \in Slots : u # t => ~Writes(u)
  BY <1>2, <1>3, <1>6 DEF Writes, OneWriter
<1>8. tokens'[uart_lock] = 1
  <2>1. tokens[uart_lock] = 0 /\ tokens \in [Semaphores -> Int]
    BY <1>3, <1>7, LockTokens DEF OneWriter
  <2> QED
    BY <2>1, <1>3, <1>5
<1>9. ConsoleTypeOK' /\ OneWriter'
  BY <1>1, <1>2, <1>3, <1>7, <1>8 DEF ConsoleTypeOK, OneWriter
<1>10. TakersReady'
  <2>1. pc'[t] \notin TakeLocs
    BY <1>6 DEF TakeLocs
  <2> QED
    BY <2>1, <1>1, <1>2, <1>3, <1>5, <1>6 DEF TakersReady
<1>11. WireInv'
  <2>1. Stored(t) = RowLength
    BY <1>1, ConsoleFacts DEF Stored
  <2>2. OnWire(t, RowLength)
    BY <2>1, <1>3, <1>7, ConsoleFacts DEF WireInv
  <2>3. OnWire(t, RowLength)'
    BY <2>2, <1>1 DEF OnWire
  <2> QED
    BY <2>3, <1>7 DEF WireInv
<1> QED
  BY <1>4, <1>9, <1>10, <1>11 DEF ConsoleInv

(* The steps of the UART and of board_uart_write_char. *)
LEMMA UartKeepsSem ==
    ASSUME SemPart, UNCHANGED <<schedVars, semVars>>
    PROVE  SemPart' /\ pc' = pc /\ UNCHANGED semVars
<1>1. UNCHANGED semSpecVars /\ pc' = pc /\ UNCHANGED semVars
  BY DEF semSpecVars, schedVars
<1> QED
  BY <1>1, SemUnchanged DEF SemKept

LEMMA PollKeeps ==
    ASSUME SemPart, ConsoleInv, NEW t \in Slots, PollTXE(t)
    PROVE  SemPart' /\ ConsoleInv'
<1> DEFINE row == [left |-> rows[t].left, polled |-> TRUE]
<1>1. /\ Statement(t, "row", "row") /\ rows[t].left # 0 /\ dr = NULL
      /\ rows' = [rows EXCEPT ![t].polled = TRUE] /\ dr' = dr /\ wire' = wire
  BY DEF PollTXE
<1>2. SemPart' /\ pc' = pc /\ UNCHANGED semVars
  BY UartKeepsSem DEF PollTXE
<1>3. /\ ConsoleTypeOK /\ OneWriter /\ TakersReady /\ WireInv
  BY DEF ConsoleInv
<1>4. /\ at' \in [Slots -> Statements] /\ at[t] = "row" /\ at'[t] = "row"
      /\ \A u \in Slots : u # t => at'[u] = at[u]
      /\ pc[t] \notin TakeLocs
  <2>1. "row" \in Statements
    BY DEF Statements
  <2> QED
    BY <2>1, <1>1, <1>3, StatementMoves
<1>5. /\ rows[t].left \in 0 .. RowLength
      /\ rows \in [Slots -> [left : 0 .. RowLength, polled : BOOLEAN]]
  BY <1>3 DEF ConsoleTypeOK
<1>6. /\ rows' \in [Slots -> [left : 0 .. RowLength, polled : BOOLEAN]]
      /\ rows'[t] = row /\ \A u \in Slots : u # t => rows'[u] = rows[u]
  BY <1>1, <1>5
<1>7. \A u \in Slots : /\ at'[u] = at[u] /\ Stored(u)' = Stored(u)
                       /\ Writes(u)' <=> Writes(u)
  BY <1>2, <1>4, <1>6 DEF Writes, Stored
<1>8. \A u, n : OnWire(u, n)' <=> OnWire(u, n)
  BY <1>1 DEF OnWire
<1>9. ConsoleTypeOK' /\ OneWriter'
  BY <1>2, <1>3, <1>4, <1>6, <1>7 DEF ConsoleTypeOK, OneWriter, semVars
<1>10. TakersReady'
  BY <1>2, <1>3, <1>4, <1>6, <1>7 DEF TakersReady, semVars
<1>11. WireInv'
  <2>1. \A u \in Slots : Writes(u) /\ rows'[u].polled => rows'[u].left > 0 /\ dr = NULL
    <3>1. row.left > 0
      BY <1>1, <1>5, ConsoleFacts
    <3> QED
      BY <3>1, <1>1, <1>3, <1>6 DEF WireInv
  <2>2. ASSUME NEW u \in Slots, Writes(u)' PROVE Stored(u)' > 0 => OnWire(u, Stored(u))'
    <3>1. Writes(u) /\ Stored(u)' = Stored(u)
      BY <2>2, <1>7
    <3>2. Stored(u) > 0 => OnWire(u, Stored(u))
      BY <3>1, <1>3 DEF WireInv
    <3> QED
      BY <3>1, <3>2, <1>1 DEF OnWire
  <2>3. ASSUME \A u \in Slots : Writes(u)' => Stored(u)' = 0
        PROVE  \E u \in Slots : OnWire(u, 0)' \/ OnWire(u, RowLength)'
    BY <2>3, <1>3, <1>7, <1>8 DEF WireInv
  <2> QED
    BY <2>1, <2>2, <2>3, <1>1, <1>7 DEF WireInv
<1> QED
  BY <1>2, <1>9, <1>10, <1>11 DEF ConsoleInv

LEMMA StoreKeeps ==
    ASSUME SemPart, ConsoleInv, NEW t \in Slots, StoreDR(t)
    PROVE  SemPart' /\ ConsoleInv'
<1> DEFINE n == Stored(t)
           row == [left |-> rows[t].left - 1, polled |-> FALSE]
<1>1. /\ Statement(t, "row", "row") /\ rows[t].polled
      /\ dr' = Row(t)[RowLength + 1 - rows[t].left] /\ wire' = wire
      /\ rows' = [rows EXCEPT ![t] = row]
  BY DEF StoreDR
<1>2. SemPart' /\ pc' = pc /\ UNCHANGED semVars
  BY UartKeepsSem DEF StoreDR
<1>3. ConsoleTypeOK /\ OneWriter /\ TakersReady /\ WireInv /\ RowLength \in Nat /\ RowLength > 0
  BY ConsoleFacts DEF ConsoleInv
<1>4. /\ at' \in [Slots -> Statements] /\ at[t] = "row" /\ at'[t] = "row"
      /\ \A u \in Slots : u # t => at'[u] = at[u]
      /\ pc[t] \notin TakeLocs
  <2>1. "row" \in Statements
    BY DEF Statements
  <2> QED
    BY <2>1, <1>1, <1>3, StatementMoves
<1>5. Writes(t)
  BY <1>4 DEF Writes
<1>6. /\ rows[t].left \in 0 .. RowLength /\ rows[t].left > 0 /\ dr = NULL
      /\ rows \in [Slots -> [left : 0 .. RowLength, polled : BOOLEAN]]
  BY <1>1, <1>3, <1>5 DEF ConsoleTypeOK, WireInv
<1>7. n \in 0 .. RowLength - 1 /\ RowLength + 1 - rows[t].left = n + 1
  BY <1>3, <1>6 DEF Stored
<1>8. /\ rows' \in [Slots -> [left : 0 .. RowLength, polled : BOOLEAN]]
      /\ rows'[t] = row /\ \A u \in Slots : u # t => rows'[u] = rows[u]
  <2>1. row \in [left : 0 .. RowLength, polled : BOOLEAN]
    BY <1>3, <1>6
  <2> HIDE DEF row
  <2> QED
    BY <2>1, <1>1, <1>6
<1>9. Stored(t)' = n + 1
  BY <1>3, <1>6, <1>8 DEF Stored
<1>10. dr' = <<t, n + 1>>
  <2>1. n + 1 \in 1 .. RowLength
    BY <1>3, <1>7
  <2> HIDE DEF n
  <2> QED
    BY <2>1, <1>1, <1>7 DEF Row
<1>11. \A u \in Slots : u # t => ~Writes(u)
  BY <1>3, <1>5 DEF OneWriter
<1>12. \A u \in Slots : at'[u] = at[u] /\ (Writes(u)' <=> Writes(u))
  BY <1>2, <1>4 DEF Writes
<1>13. n > 0 => wire = RowPart(t, n)
  <2>1. dr # <<t, n>> \/ n = 0
    <3>1. n > 0 => <<t, n>> \in Slots \X (1 .. RowLength)
      BY <1>3, <1>7
    <3> HIDE DEF n
    <3> QED
      BY <3>1, <1>6, <1>7, ConsoleFacts
  <2>2. n > 0 => OnWire(t, n)
    BY <1>3, <1>5 DEF WireInv
  <2> HIDE DEF n
  <2> QED
    BY <2>1, <2>2, <1>6 DEF OnWire
<1>14. n = 0 => wire = RowPart(t, 0) \/ \E u \in Slots : wire = RowPart(u, RowLength)
  <2> SUFFICES ASSUME n = 0
               PROVE  wire = RowPart(t, 0) \/ \E u \in Slots : wire = RowPart(u, RowLength)
    OBVIOUS
  <2>1. PICK u \in Slots : OnWire(u, 0) \/ OnWire(u, RowLength)
    BY <1>3, <1>11 DEF WireInv
  <2>2. dr # <<u, RowLength>>
    <3>1. <<u, RowLength>> \in Slots \X (1 .. RowLength)
      BY <1>3
    <3> QED
      BY <3>1, <1>6, ConsoleFacts
  <2>3. wire = RowPart(u, 0) \/ wire = RowPart(u, RowLength)
    BY <2>1, <2>2 DEF OnWire
  <2>4. RowPart(u, 0) = <<>> /\ RowPart(t, 0) = <<>>
    BY RowParts
  <2> QED
    BY <2>3, <2>4
<1> HIDE DEF n
<1>15. ASSUME NEW m, m = n + 1 PROVE OnWire(t, m)'
  <2>1. m > 0 /\ m - 1 = n /\ (n = 0 => m = 1) /\ (n = 0 \/ n > 0)
    BY <1>3, <1>7, <1>15
  <2>2. wire' = RowPart(t, m - 1) \/ (m = 1 /\ \E u \in Slots : wire' = RowPart(u, RowLength))
    BY <2>1, <1>1, <1>13, <1>14
  <2> QED
    BY <2>1, <2>2, <1>10, <1>15 DEF OnWire
<1>16. ConsoleTypeOK' /\ OneWriter'
  BY <1>2, <1>3, <1>4, <1>8, <1>12 DEF ConsoleTypeOK, OneWriter, semVars
<1>17. TakersReady'
  BY <1>2, <1>3, <1>4, <1>8, <1>12 DEF TakersReady, semVars
<1>18. WireInv'
  <2>1. Writes(t)' /\ ~rows'[t].polled
    BY <1>5, <1>8, <1>12
  <2>2. OnWire(t, Stored(t))'
    BY <1>9, <1>15
  <2>3. \A u \in Slots : Writes(u)' => u = t
    BY <1>11, <1>12
  <2>4. Stored(t)' # 0
    BY <1>3, <1>7, <1>9
  <2> QED
    BY <2>1, <2>2, <2>3, <2>4 DEF WireInv
<1> QED
  BY <1>2, <1>16, <1>17, <1>18 DEF ConsoleInv

(* The UART sends a character: what the wire and the register hold is the  *)
(* same.                                                                   *)
LEMMA CharacterSent ==
    ASSUME NEW t \in Slots, NEW n \in 0 .. RowLength, OnWire(t, n), Transmit
    PROVE  OnWire(t, n)'
<1>1. RowLength \in Nat /\ RowLength > 0 /\ n \in Nat
  BY ConsoleFacts
<1>2. /\ dr # NULL /\ dr' = NULL
      /\ wire' = IF wire # <<>> /\ IsNewline(Last(wire)) THEN <<dr>> ELSE Append(wire, dr)
  BY DEF Transmit
<1>3. /\ n > 0 /\ dr = <<t, n>>
      /\ \/ wire = RowPart(t, n - 1)
         \/ n = 1 /\ \E u \in Slots : wire = RowPart(u, RowLength)
  BY <1>2 DEF OnWire
<1>4. CASE wire = RowPart(t, n - 1)
  <2>1. n - 1 \in Nat /\ (n - 1) + 1 = n
    BY <1>1, <1>3
  <2>2. /\ Len(wire) = n - 1 /\ \A i \in 1 .. n - 1 : wire[i] = <<t, i>>
        /\ Append(wire, <<t, n>>) = RowPart(t, n)
    <3>1. Append(RowPart(t, n - 1), <<t, (n - 1) + 1>>) = RowPart(t, (n - 1) + 1)
      BY <2>1, RowParts
    <3> QED
      BY <2>1, <3>1, <1>4, RowParts
  <2>3. ~(wire # <<>> /\ IsNewline(Last(wire)))
    <3>1. CASE n = 1
      <4>1. wire = RowPart(t, 0)
        BY <3>1, <1>4
      <4>2. wire = <<>>
        BY <4>1, RowParts
      <4> QED
        BY <4>2
    <3>2. CASE n # 1
      <4>1. n - 1 \in 1 .. n - 1
        BY <3>2, <1>1, <1>3
      <4>2. Last(wire) = <<t, n - 1>>
        BY <4>1, <2>2 DEF Last
      <4>3. <<t, n - 1>>[2] = n - 1 /\ n - 1 # RowLength
        BY <1>1, <1>3
      <4> QED
        BY <4>2, <4>3 DEF IsNewline
    <3> QED
      BY <3>1, <3>2
  <2>4. wire' = RowPart(t, n)
    BY <2>2, <2>3, <1>2, <1>3
  <2> QED
    BY <2>4, <1>2 DEF OnWire
<1>5. ASSUME n = 1, NEW u \in Slots, wire = RowPart(u, RowLength)
      PROVE  OnWire(t, n)'
  <2>1. Len(wire) = RowLength /\ wire[RowLength] = <<u, RowLength>>
    <3>1. RowLength \in 1 .. RowLength
      BY <1>1
    <3> QED
      BY <3>1, <1>1, <1>5, RowParts
  <2>2. wire # <<>>
    BY <2>1, <1>1
  <2>3. IsNewline(Last(wire))
    <3>1. Last(wire) = <<u, RowLength>>
      BY <2>1 DEF Last
    <3>2. <<u, RowLength>>[2] = RowLength
      OBVIOUS
    <3> QED
      BY <3>1, <3>2 DEF IsNewline
  <2>4. wire' = <<<<t, 1>>>>
    BY <2>2, <2>3, <1>2, <1>3, <1>5
  <2>5. <<<<t, 1>>>> = RowPart(t, 1)
    BY RowParts
  <2>6. wire' = RowPart(t, n)
    BY <2>4, <2>5, <1>5
  <2> QED
    BY <2>6, <1>2 DEF OnWire
<1> QED
  BY <1>3, <1>4, <1>5

LEMMA TransmitKeeps ==
    ASSUME SemPart, ConsoleInv, Transmit
    PROVE  SemPart' /\ ConsoleInv'
<1>1. /\ dr # NULL /\ dr' = NULL /\ at' = at /\ rows' = rows
  BY DEF Transmit
<1>2. SemPart' /\ pc' = pc /\ UNCHANGED semVars
  BY UartKeepsSem DEF Transmit
<1>3. ConsoleTypeOK /\ OneWriter /\ TakersReady /\ WireInv /\ RowLength \in Nat
  BY ConsoleFacts DEF ConsoleInv
<1>4. \A t \in Slots : (Writes(t)' <=> Writes(t)) /\ Stored(t)' = Stored(t)
  BY <1>1, <1>2 DEF Writes, Stored
<1>5. ConsoleTypeOK' /\ OneWriter' /\ TakersReady'
  BY <1>1, <1>2, <1>3, <1>4 DEF ConsoleTypeOK, OneWriter, TakersReady, semVars
<1>6. \A t \in Slots : \A n \in 0 .. RowLength : OnWire(t, n) => OnWire(t, n)'
  BY CharacterSent
<1>7. ASSUME NEW t \in Slots, Writes(t)'
      PROVE  /\ Stored(t)' > 0 => OnWire(t, Stored(t))'
             /\ ~rows'[t].polled
  <2>1. Writes(t) /\ Stored(t)' = Stored(t) /\ Stored(t) \in 0 .. RowLength
    BY <1>3, <1>4, <1>7, ConsoleTypes
  <2>2. Stored(t) > 0 => OnWire(t, Stored(t))
    BY <2>1, <1>3 DEF WireInv
  <2>3. ~rows[t].polled
    BY <2>1, <1>1, <1>3 DEF WireInv
  <2>4. Stored(t) > 0 => OnWire(t, Stored(t))'
    <3> DEFINE n == Stored(t)
    <3>1. n \in 0 .. RowLength /\ n' = n /\ (n > 0 => OnWire(t, n))
      BY <2>1, <2>2
    <3>2. \A m \in 0 .. RowLength : m = n => (OnWire(t, m) => OnWire(t, m)')
      BY <1>6
    <3> HIDE DEF n
    <3>3. n > 0 => OnWire(t, n)'
      BY <3>1, <3>2 DEF OnWire
    <3> QED
      BY <3>3 DEF n
  <2> QED
    BY <2>1, <2>3, <2>4, <1>1
<1>8. ASSUME \A t \in Slots : Writes(t)' => Stored(t)' = 0
      PROVE  \E u \in Slots : OnWire(u, 0)' \/ OnWire(u, RowLength)'
  <2>1. \E u \in Slots : OnWire(u, 0) \/ OnWire(u, RowLength)
    BY <1>3, <1>4, <1>8 DEF WireInv
  <2>2. 0 \in 0 .. RowLength /\ RowLength \in 0 .. RowLength
    BY <1>3
  <2>3. \A u \in Slots : (OnWire(u, 0) => OnWire(u, 0)') /\ (OnWire(u, RowLength) => OnWire(u, RowLength)')
    BY <1>6, <2>2
  <2> QED
    BY <2>1, <2>3
<1>9. WireInv'
  BY <1>7, <1>8 DEF WireInv
<1> QED
  BY <1>2, <1>5, <1>9 DEF ConsoleInv

(* A statement with a call that does not concern the console, or none. *)
LEMMA StatementKeeps ==
    ASSUME ConsoleInv, TakersStay, UNCHANGED semVars, UNCHANGED consoleVars,
           NEW t \in Slots, NEW from \in Statements \ {"row"}, NEW to \in Statements \ {"row"},
           Statement(t, from, to)
    PROVE  ConsoleInv'
<1>1. /\ at' \in [Slots -> Statements] /\ at[t] = from /\ at'[t] = to
      /\ \A u \in Slots : u # t => at'[u] = at[u]
  BY StatementMoves DEF ConsoleInv
<1>2. \A u \in Slots : at'[u] = at[u] \/ (at[u] # "row" /\ at'[u] # "row")
  BY <1>1
<1> QED
  BY <1>1, <1>2, ConsoleFrame

LEMMA OtherStepKeeps ==
    ASSUME ConsoleInv, TakersStay, UNCHANGED semVars, UNCHANGED <<consoleVars, at>>
    PROVE  ConsoleInv'
<1>1. at' = at /\ UNCHANGED consoleVars
  OBVIOUS
<1>2. at \in [Slots -> Statements]
  BY DEF ConsoleInv, ConsoleTypeOK
<1> QED
  BY <1>1, <1>2, ConsoleFrame

LEMMA NoCallKeeps ==
    ASSUME SemPart, UNCHANGED semSpecVars
    PROVE  SemPart' /\ TakersStay /\ UNCHANGED semVars
<1>1. pc' = pc /\ UNCHANGED semVars
  BY DEF semSpecVars, schedVars
<1> QED
  BY <1>1, SemUnchanged DEF SemKept, TakersStay

(* The steps the two demos have in common. *)
LEMMA SwitchStep ==
    ASSUME SemPart, NEW t \in Slots,
           NEW loc \in {"app", "switch", "dequeue_switch"},
           NEW next \in {"app", "switch", "dequeue_woken"},
           rtos_port_request_context_switch(t, loc, next), UNCHANGED semVars
    PROVE  SemPart' /\ TakersStay
<1>1. loc \in Places \ TakeLocs /\ next \in Places \ TakeLocs
  BY DEF Places, TakeLocs, ReceiveLocs
<1> QED
  BY <1>1, RequestKeeps

LEMMA ConsoleCalls ==
    ASSUME SemPart, ConsoleInv, NEW t \in Slots,
           \/ PollTXE(t) \/ StoreDR(t)
           \/ (TakeSwitch(t) \/ TakeReturn(t)) /\ UNCHANGED <<consoleVars, at>>
    PROVE  SemPart' /\ ConsoleInv'
<1>1. CASE PollTXE(t)
  BY <1>1, PollKeeps
<1>2. CASE StoreDR(t)
  BY <1>2, StoreKeeps
<1>3. CASE TakeReturn(t) /\ UNCHANGED <<consoleVars, at>>
  BY <1>3, TakeReturnKeeps
<1>4. CASE TakeSwitch(t) /\ UNCHANGED <<consoleVars, at>>
  <2>1. UNCHANGED semVars
    BY <1>4 DEF TakeSwitch
  <2>2. SemPart'
    BY <1>4, <2>1, SemSwitchInv DEF SemCallKept, SemKept
  <2>3. CoreInv(SwitchLocs) /\ pc \in [Threads -> Places] /\ t \in Threads
        /\ Slots \subseteq Threads
    BY DEF SemPart, SemTypeOK, Threads
  <2>4. pc[t] = "take_switch" /\ pc' = [pc EXCEPT ![t] = "take_woken"]
    BY <1>4, <2>3, RequestCore DEF TakeSwitch
  <2>5. TakersStay
    BY <2>3, <2>4 DEF TakersStay, TakeLocs
  <2> QED
    BY <2>1, <2>2, <2>5, <1>4, OtherStepKeeps
<1> QED
  BY <1>1, <1>2, <1>3, <1>4

(* Every step of the priority demo keeps the invariant. *)
LEMMA PriorityStep ==
    ASSUME SemPart, ConsoleInv, release_tick \in Ticks, PriorityNext
    PROVE  SemPart' /\ ConsoleInv' /\ release_tick' \in Ticks
<1>1. /\ Period \in Ticks /\ OnTime \in Ticks
      /\ {"begin", "release", "take", "on", "off", "work", "yield"} \subseteq Statements \ {"row"}
      /\ kern.ticks \in Ticks
  BY PriorityDemoAssumption DEF Statements, SemPart, CoreInv, KInv, KernelType
<1>2. (release_tick + Period) % TickMod \in Ticks
  BY <1>1, WakeTick
<1>3. CASE High \in Slots /\ HighBegin
  BY <1>1, <1>3, NoCallKeeps, StatementKeeps DEF HighBegin
<1>4. CASE High \in Slots /\ Release
  BY <1>1, <1>2, <1>4, NoCallKeeps, StatementKeeps DEF Release
<1>5. CASE High \in Slots /\ LedOn
  BY <1>1, <1>5, WaitKeeps, StatementKeeps DEF LedOn, workVars
<1>6. CASE High \in Slots /\ LedOff
  BY <1>1, <1>6, WaitKeeps, StatementKeeps DEF LedOff, workVars
<1>7. ASSUME NEW t \in Slots, TakeConsole(t, "take"), UNCHANGED workVars
      PROVE  SemPart' /\ ConsoleInv' /\ release_tick' \in Ticks
  BY <1>1, <1>7, TakeConsoleKeeps DEF workVars
<1>8. ASSUME NEW t \in Slots, SignalConsole(t, "on") \/ SignalConsole(t, "yield"), UNCHANGED workVars
      PROVE  SemPart' /\ ConsoleInv' /\ release_tick' \in Ticks
  BY <1>1, <1>8, SignalConsoleKeeps DEF workVars
<1>9. ASSUME NEW t \in Slots, Work(t)
      PROVE  SemPart' /\ ConsoleInv' /\ release_tick' \in Ticks
  <2>1. PICK to \in {"take", "yield"} : Statement(t, "work", to)
    BY <1>9 DEF Work
  <2> QED
    BY <2>1, <1>1, <1>9, NoCallKeeps, StatementKeeps DEF Work
<1>10. ASSUME NEW t \in Slots, Yield(t)
       PROVE  SemPart' /\ ConsoleInv' /\ release_tick' \in Ticks
  <2>1. /\ artos_yield(t) /\ UNCHANGED semVars /\ UNCHANGED consoleVars
        /\ Statement(t, "yield", "work") /\ release_tick' = release_tick
    BY <1>10 DEF Yield, workVars
  <2>2. rtos_port_request_context_switch(t, "app", "app")
    BY <2>1 DEF artos_yield
  <2>3. SemPart' /\ TakersStay
    BY <2>1, <2>2, SwitchStep
  <2> QED
    BY <2>1, <2>3, <1>1, StatementKeeps
<1>11. ASSUME NEW t \in Slots,
              \/ (PollTXE(t) \/ StoreDR(t)) /\ UNCHANGED workVars
              \/ (TakeSwitch(t) \/ TakeReturn(t)) /\ UNCHANGED <<consoleVars, at, workVars>>
       PROVE  SemPart' /\ ConsoleInv' /\ release_tick' \in Ticks
  BY <1>11, ConsoleCalls DEF workVars
<1>12. ASSUME NEW t \in Slots, Switch(t), UNCHANGED <<semVars, consoleVars, at, workVars>>
       PROVE  SemPart' /\ ConsoleInv' /\ release_tick' \in Ticks
  <2>1. UNCHANGED semVars /\ UNCHANGED <<consoleVars, at>> /\ release_tick' = release_tick
    BY <1>12 DEF workVars
  <2>2. rtos_port_request_context_switch(t, "switch", "app")
    BY <1>12 DEF Switch
  <2>3. SemPart' /\ TakersStay
    BY <2>1, <2>2, SwitchStep
  <2> QED
    BY <2>1, <2>3, OtherStepKeeps
<1>13. CASE PriorityInterrupt
  BY <1>13, ExceptionKeeps, OtherStepKeeps DEF PriorityInterrupt, workVars
<1>14. CASE Transmit /\ UNCHANGED workVars
  BY <1>14, TransmitKeeps DEF workVars
<1>15. ASSUME NEW t \in Slots, PriorityTaskStep(t)
       PROVE  SemPart' /\ ConsoleInv' /\ release_tick' \in Ticks
  <2>1. CASE t = High /\ high_task
    BY <2>1, <1>3, <1>4, <1>5, <1>6, <1>7, <1>8 DEF high_task
  <2>2. CASE worker_task(t)
    BY <2>2, <1>7, <1>8, <1>9, <1>10 DEF worker_task
  <2> QED
    BY <1>15, <2>1, <2>2, <1>11, <1>12 DEF PriorityTaskStep
<1> QED
  BY <1>13, <1>14, <1>15 DEF PriorityNext

-----------------------------------------------------------------------------
(* What the calls of a queue do in the kernel, l being one of its lists:   *)
(* a task gives up, ...                                                    *)
LEMMA CallGivesUp ==
    ASSUME SemPart, NEW t \in Slots, Executes(t), pc[t] \notin SwitchLocs, pc[t] \notin TakeLocs,
           NEW k, Entry(k, t), kern' = k, pc' = [pc EXCEPT ![t] = "app"],
           pend' = pend, switching' = switching, systick' = systick, UNCHANGED semVars
    PROVE  SemPart' /\ TakersStay
<1>1. kern.state_c[t] = NULL
  BY RunningTask DEF SemPart
<1>2. /\ KInv(k) /\ DelayInv(k, FALSE) /\ k.cur = t /\ k.state_c[t] = NULL
      /\ k.event_c = kern.event_c
      /\ \A u \in Slots : u # t => k.reason[u] = kern.reason[u]
  BY <1>1 DEF Entry
<1>3. "app" \in Places \ TakeLocs
  BY DEF Places, TakeLocs
<1>4. \A u \in Slots : u # t =>
         /\ kern'.event_c[u] = kern.event_c[u] /\ kern'.reason[u] = kern.reason[u]
         /\ \A w, i : InCall(kern, u, w, i) => InCall(kern', u, w, i)
  BY <1>2, EntryCalls
<1>5. kern'.event_c[t] \in {kern.event_c[t], NULL} \cup (WaitLists \ Semaphores)
  BY <1>2
<1> QED
  BY <1>2, <1>3, <1>4, <1>5, TaskBlocks

(* ... blocks, ... *)
LEMMA CallBlocks ==
    ASSUME SemPart, NEW t \in Slots, Executes(t), pc[t] \notin SwitchLocs, pc[t] \notin TakeLocs,
           NEW k, Entry(k, t), NEW l \in WaitLists \ Semaphores,
           NEW wake \in Ticks, NEW infinite \in BOOLEAN, ~infinite => wake # kern.ticks,
           kern' = rtos_block_current_task(k, wake, l, infinite),
           NEW loc \in {"enqueue_switch", "dequeue_switch"}, pc' = [pc EXCEPT ![t] = loc],
           pend' = pend, switching' = switching, systick' = systick, UNCHANGED semVars
    PROVE  SemPart' /\ TakersStay
<1>1. kern.state_c[t] = NULL
  BY RunningTask DEF SemPart
<1>2. /\ KInv(k) /\ DelayInv(k, FALSE) /\ k.cur = t /\ k.cur \in Slots /\ k.state_c[k.cur] = NULL
      /\ k.event_c = kern.event_c /\ k.ticks = kern.ticks
      /\ \A u \in Slots : u # t => k.reason[u] = kern.reason[u]
  BY <1>1 DEF Entry
<1>3. loc \in Places \ TakeLocs /\ loc \in SwitchLocs
  BY DEF Places, TakeLocs, SendLocs, ReceiveLocs, SwitchLocs
<1>4. l \in WaitLists /\ (~infinite => wake # k.ticks)
  BY <1>2
<1>5. BlockedOn(kern', k, l, infinite)
  BY <1>2, <1>4, BlockOnEffect
<1>6. KInv(kern') /\ DelayInv(kern', FALSE) /\ kern'.cur = t
  BY <1>2, <1>5 DEF BlockedOn
<1>7. /\ kern'.event_c[t] = l
      /\ \A u \in Slots : u # t =>
            /\ kern'.event_c[u] = k.event_c[u] /\ kern'.reason[u] = k.reason[u]
            /\ \A v, i : InCall(k, u, v, i) => InCall(kern', u, v, i)
  BY <1>2, <1>4, <1>5, CallEntered
<1>8. \A u \in Slots : u # t =>
         /\ kern'.event_c[u] = kern.event_c[u] /\ kern'.reason[u] = kern.reason[u]
         /\ \A w, i : InCall(kern, u, w, i) => InCall(kern', u, w, i)
  BY <1>2, <1>7, EntryCalls
<1>9. kern'.event_c[t] \in {kern.event_c[t], NULL} \cup (WaitLists \ Semaphores)
  BY <1>7
<1> QED
  BY <1>3, <1>6, <1>8, <1>9, TaskBlocks

(* What a release from l does, in state k, to those that wait.             *)
ReleaseFrom(k, l) ==
    IF k.event_l[l] # <<>> THEN rtos_unblock_task(k, Head(k.event_l[l]), "WAIT_SIGNALED") ELSE k

HigherWaits(k, l) ==
    k.event_l[l] # <<>> /\ k.event_v[Head(k.event_l[l])] > rtos_current_effective_priority(k)

LEMMA ReleaseView ==
    ASSUME NEW k, KInv(k), NEW l \in WaitLists, NEW r, r = ReleaseFrom(k, l)
    PROVE  \/ r = k /\ ~HigherWaits(k, l)
           \/ \E u \in Slots :
                 /\ Blocked(k, u) /\ Unblocked(r, k, u, "WAIT_SIGNALED") /\ k.event_c[u] = l
                 /\ HigherWaits(k, l) <=> (k.eff[u] > rtos_current_effective_priority(k))
<1>1. CASE k.event_l[l] = <<>>
  BY <1>1 DEF ReleaseFrom, HigherWaits
<1>2. CASE k.event_l[l] # <<>>
  <2> DEFINE u == Head(k.event_l[l])
  <2>1. u \in Slots /\ Blocked(k, u) /\ k.event_c[u] = l /\ k.event_v[u] = k.eff[u]
    BY <1>2, FirstWaiter
  <2>2. r = rtos_unblock_task(k, u, "WAIT_SIGNALED")
    BY <1>2 DEF ReleaseFrom
  <2>3. Unblocked(r, k, u, "WAIT_SIGNALED")
    BY <2>1, <2>2, UnblockEffect DEF WaitReasons
  <2>4. HigherWaits(k, l) <=> (k.eff[u] > rtos_current_effective_priority(k))
    BY <2>1, <1>2 DEF HigherWaits
  <2> QED
    BY <2>1, <2>3, <2>4
<1> QED
  BY <1>1, <1>2

LEMMA UnblockedOthers ==
    ASSUME NEW k, KInv(k), NEW u \in Slots, Blocked(k, u), NEW r, Unblocked(r, k, u, "WAIT_SIGNALED")
    PROVE  /\ r.event_c[u] = NULL /\ r.cur = k.cur
           /\ \A v \in Slots : v # u => r.event_c[v] = k.event_c[v] /\ r.reason[v] = k.reason[v]
           /\ \A v \in Slots : \A w, i : InCall(k, v, w, i) => InCall(r, v, w, i)
<1>1. /\ r.event_c = [k.event_c EXCEPT ![u] = NULL] /\ r.cur = k.cur
      /\ r.reason = [k.reason EXCEPT ![u] = "WAIT_SIGNALED"]
  BY DEF Unblocked
<1>2. /\ k.event_c \in [Slots -> WaitLists \cup {NULL}]
      /\ k.reason \in [Tasks -> WaitReasons] /\ Slots \subseteq Tasks
  BY DEF KInv, KernelType, Tasks
<1>3. \A v \in Slots : \A w, i : InCall(k, v, w, i) => InCall(r, v, w, i)
  BY CallUnblocked
<1> QED
  BY <1>1, <1>2, <1>3

(* ... or releases a task. *)
LEMMA CallReleases ==
    ASSUME SemPart, NEW t \in Slots, Executes(t), pc[t] \notin SwitchLocs, pc[t] \notin TakeLocs,
           NEW k, Entry(k, t), NEW l \in WaitLists \ Semaphores, kern' = ReleaseFrom(k, l),
           pc' = [pc EXCEPT ![t] = IF HigherWaits(k, l) THEN "switch" ELSE "app"],
           pend' = pend, switching' = switching, systick' = systick, UNCHANGED semVars
    PROVE  SemPart' /\ TakersStay
<1> DEFINE loc == IF HigherWaits(k, l) THEN "switch" ELSE "app"
<1>1. CoreInv(SwitchLocs) /\ pc \in [Threads -> Places] /\ t \in Threads /\ Slots \subseteq Threads
  BY DEF SemPart, SemTypeOK, Threads
<1>2. kern.state_c[t] = NULL /\ kern.event_c[t] = NULL
  BY <1>1, RunningTask
<1>3. /\ KInv(k) /\ DelayInv(k, FALSE) /\ k.cur = t /\ k.state_c[t] = NULL
      /\ k.eff = kern.eff /\ k.bitmap = kern.bitmap /\ k.state_c = kern.state_c
      /\ k.event_c = kern.event_c
      /\ \A u \in Slots : u # t => k.reason[u] = kern.reason[u]
  BY <1>2 DEF Entry
<1>4. /\ loc \in Places \ TakeLocs
      /\ HigherWaits(k, l) => loc \in SwitchLocs
  BY DEF Places, TakeLocs, SwitchLocs
<1>5. pc' = [pc EXCEPT ![t] = loc]
  OBVIOUS
<1> HIDE DEF loc
<1>6. /\ pc' \in [Threads -> Places] /\ pc'[t] = loc
      /\ \A u \in Slots : u # t => pc'[u] = pc[u]
  BY <1>1, <1>4, <1>5
<1>7. l \in WaitLists
  OBVIOUS
<1>8. CASE kern' = k
  <2>1. \A u \in Slots : u # t =>
           /\ kern'.event_c[u] = kern.event_c[u] /\ kern'.reason[u] = kern.reason[u]
           /\ \A w, i : InCall(kern, u, w, i) => InCall(kern', u, w, i)
    BY <1>3, <1>8, EntryCalls
  <2>2. kern'.event_c[t] \in {kern.event_c[t], NULL} \cup (WaitLists \ Semaphores)
    BY <1>3, <1>8
  <2>3. KInv(kern') /\ DelayInv(kern', FALSE) /\ kern'.cur = t /\ kern'.state_c[t] = NULL
    BY <1>3, <1>8
  <2> QED
    BY <1>4, <1>5, <2>1, <2>2, <2>3, TaskBlocks
<1>9. ASSUME NEW u \in Slots, Blocked(k, u), Unblocked(kern', k, u, "WAIT_SIGNALED"),
             k.event_c[u] = l, HigherWaits(k, l) <=> (k.eff[u] > rtos_current_effective_priority(k))
      PROVE  SemPart' /\ TakersStay
  <2>1. (k.eff[u] > rtos_current_effective_priority(k)) => pc'[t] \in SwitchLocs
    BY <1>4, <1>6, <1>9
  <2>2. CoreInv(SwitchLocs)'
    BY <2>1, <1>1, <1>3, <1>9, ThreadUnblocks
  <2>3. /\ kern'.event_c[u] = NULL /\ kern'.cur = t
        /\ \A v \in Slots : v # u => kern'.event_c[v] = k.event_c[v] /\ kern'.reason[v] = k.reason[v]
        /\ \A v \in Slots : \A w, i : InCall(k, v, w, i) => InCall(kern', v, w, i)
    BY <1>3, <1>9, UnblockedOthers
  <2>4. kern.event_c[u] = l
    BY <1>3, <1>9
  <2>5. pc[u] \notin TakeLocs
    BY <2>4, ReleasedIsElsewhere
  <2>6. u # t
    BY <2>4, <1>2, KernelFacts
  <2>7. ASSUME NEW v \in Slots
        PROVE  /\ kern'.event_c[v] \in {kern.event_c[v], NULL} \cup {}
               /\ pc[v] \in TakeLocs \/ pc'[v] \in TakeLocs =>
                     /\ pc'[v] = pc[v]
                     /\ kern'.event_c[v] = kern.event_c[v] /\ kern'.reason[v] = kern.reason[v]
                     /\ \A w, i : InCall(kern, v, w, i) => InCall(kern', v, w, i)
    <3>1. CASE v = t
      BY <3>1, <2>3, <2>6, <1>3, <1>4, <1>6
    <3>2. CASE v = u
      BY <3>2, <2>3, <2>5, <2>6, <1>6
    <3>3. CASE v # t /\ v # u
      <4>1. \A w, i : InCall(kern, v, w, i) => InCall(k, v, w, i)
        BY <3>3, EntryCalls
      <4> QED
        BY <4>1, <3>3, <2>3, <1>3, <1>6
    <3> QED
      BY <3>1, <3>2, <3>3
  <2>8. LeavesOthers(TakeLocs, {})
    BY <2>7 DEF LeavesOthers
  <2>9. kern'.cur # NULL
    BY <2>3, KernelFacts
  <2> QED
    BY <2>2, <2>8, <2>9, <1>6, OthersStep
<1>10. \/ kern' = k /\ ~HigherWaits(k, l)
       \/ \E u \in Slots :
             /\ Blocked(k, u) /\ Unblocked(kern', k, u, "WAIT_SIGNALED") /\ k.event_c[u] = l
             /\ HigherWaits(k, l) <=> (k.eff[u] > rtos_current_effective_priority(k))
  BY <1>3, <1>7, ReleaseView
<1> QED
  BY <1>8, <1>9, <1>10

(* An interrupt handler releases a task. *)
LEMMA IsrReleases ==
    ASSUME SemPart, InterruptEnabled, NEW l \in WaitLists \ Semaphores,
           kern' = ReleaseFrom(kern, l), pend' = (pend \/ HigherWaits(kern, l)),
           switching' = switching, systick' = systick, pc' = pc, UNCHANGED semVars
    PROVE  SemPart' /\ TakersStay
<1>1. /\ CoreInv(SwitchLocs) /\ pc \in [Threads -> Places] /\ kern.cur # NULL
      /\ KInv(kern) /\ pend \in BOOLEAN /\ l \in WaitLists
  BY DEF SemPart, SemTypeOK, CoreInv
<1>2. pend' \in BOOLEAN /\ (pend => pend') /\ (HigherWaits(kern, l) => pend')
  BY <1>1 DEF HigherWaits
<1>3. CASE kern' = kern /\ ~HigherWaits(kern, l)
  <2>1. pend' = pend
    BY <1>1, <1>3
  <2>2. CoreInv(SwitchLocs)'
    BY <2>1, <1>1, <1>3 DEF CoreInv, SwitchComing
  <2>3. LeavesOthers(TakeLocs, {})
    BY <1>3 DEF LeavesOthers
  <2> QED
    BY <2>2, <2>3, <1>1, <1>3, OthersStep
<1>4. ASSUME NEW u \in Slots, Blocked(kern, u), Unblocked(kern', kern, u, "WAIT_SIGNALED"),
             kern.event_c[u] = l,
             HigherWaits(kern, l) <=> (kern.eff[u] > rtos_current_effective_priority(kern))
      PROVE  SemPart' /\ TakersStay
  <2>1. (kern.eff[u] > rtos_current_effective_priority(kern)) => pend'
    BY <1>2, <1>4
  <2>2. CoreInv(SwitchLocs)'
    <3>1. pend' \in BOOLEAN /\ (pend => pend')
      BY <1>2
    <3>2. CoreInv(SwitchLocs)
      BY <1>1
    <3> QED
      BY <3>1, <3>2, <2>1, <1>4, InterruptUnblocks
  <2>3. /\ kern'.event_c[u] = NULL /\ kern'.cur = kern.cur
        /\ \A v \in Slots : v # u =>
              kern'.event_c[v] = kern.event_c[v] /\ kern'.reason[v] = kern.reason[v]
        /\ \A v \in Slots : \A w, i : InCall(kern, v, w, i) => InCall(kern', v, w, i)
    BY <1>1, <1>4, UnblockedOthers
  <2>4. pc[u] \notin TakeLocs
    BY <1>4, ReleasedIsElsewhere
  <2>5. LeavesOthers(TakeLocs, {})
    BY <2>3, <2>4 DEF LeavesOthers
  <2> QED
    BY <2>2, <2>3, <2>5, <1>1, OthersStep
<1> QED
  BY <1>1, <1>3, <1>4, ReleaseView

-----------------------------------------------------------------------------
(* The operators of the kernel in the two instances of module Queue are    *)
(* those of the kernel itself.                                             *)
LEMMA SharedKernel ==
    /\ \A k, t, r : Shared!rtos_unblock_task(k, t, r) = rtos_unblock_task(k, t, r)
    /\ \A k, n, l, i : Shared!rtos_block_current_task(k, n, l, i) = rtos_block_current_task(k, n, l, i)
    /\ \A k : /\ Shared!rtos_clear_current_wait_reason(k) = rtos_clear_current_wait_reason(k)
              /\ Shared!rtos_current_effective_priority(k) = rtos_current_effective_priority(k)
    /\ Shared!Slots = Slots /\ Shared!Ticks = Ticks /\ Shared!ARTOS_DELAY_INFINITY = ARTOS_DELAY_INFINITY
    /\ Shared!InterruptEnabled = InterruptEnabled
    /\ \A t, loc : (Shared!At(t, loc) <=> At(t, loc)) /\ (Shared!GoTo(t, loc) <=> GoTo(t, loc))
<1>1. ASSUME NEW k, NEW t, NEW r PROVE Shared!rtos_unblock_task(k, t, r) = rtos_unblock_task(k, t, r)
  <2>1. \A j : /\ Shared!StateRemove(j, t) = StateRemove(j, t)
               /\ Shared!EventRemove(j, t) = EventRemove(j, t)
    BY Zenon DEF Shared!StateRemove, StateRemove, Shared!EventRemove, EventRemove, Shared!rtos_list_remove,
       rtos_list_remove, Shared!RemoveAt, RemoveAt, Shared!IndexOf, IndexOf, Shared!Fail, Fail
  <2>2. \A j : Shared!rtos_insert_ready_list(j, t) = rtos_insert_ready_list(j, t)
    BY Zenon DEF Shared!rtos_insert_ready_list, rtos_insert_ready_list, Shared!ReadyL, ReadyL,
       Shared!rtos_list_insert_end, rtos_list_insert_end
  <2>3. Shared!DelayLists = DelayLists /\ Shared!SuspendL = SuspendL /\ Shared!Fail(k) = Fail(k)
    BY Zenon DEF Shared!DelayLists, DelayLists, Shared!DelayedL, DelayedL, Shared!DelayedOverflowL,
       DelayedOverflowL, Shared!SuspendL, SuspendL, Shared!Fail, Fail
  <2> QED
    BY <2>1, <2>2, <2>3, Zenon DEF Shared!rtos_unblock_task, rtos_unblock_task
<1>2. ASSUME NEW k, NEW n, NEW l, NEW i
      PROVE  Shared!rtos_block_current_task(k, n, l, i) = rtos_block_current_task(k, n, l, i)
  BY Zenon DEF Shared!rtos_block_current_task, rtos_block_current_task, Shared!Fail, Fail,
     Shared!rtos_list_insert_end, rtos_list_insert_end, Shared!rtos_list_insert_sorted,
     rtos_list_insert_sorted, Shared!rtos_list_insert_reversed_sorted,
     rtos_list_insert_reversed_sorted, Shared!SortedStop, SortedStop, Shared!ReversedStop, ReversedStop,
     Shared!InsertAt, InsertAt, Shared!SuspendL, SuspendL
<1>3. ASSUME NEW k
      PROVE  /\ Shared!rtos_clear_current_wait_reason(k) = rtos_clear_current_wait_reason(k)
             /\ Shared!rtos_current_effective_priority(k) = rtos_current_effective_priority(k)
  BY Zenon DEF Shared!rtos_clear_current_wait_reason, rtos_clear_current_wait_reason,
     Shared!rtos_current_effective_priority, rtos_current_effective_priority
<1>4. Shared!Slots = Slots /\ Shared!Ticks = Ticks /\ Shared!ARTOS_DELAY_INFINITY = ARTOS_DELAY_INFINITY
  BY Zenon DEF Shared!Slots, Slots, Shared!Ticks, Ticks, Shared!ARTOS_DELAY_INFINITY, ARTOS_DELAY_INFINITY
<1>5. Shared!InterruptEnabled = InterruptEnabled
  BY Zenon DEF Shared!InterruptEnabled, InterruptEnabled
<1>6. ASSUME NEW t, NEW loc
      PROVE  (Shared!At(t, loc) <=> At(t, loc)) /\ (Shared!GoTo(t, loc) <=> GoTo(t, loc))
  BY Zenon DEF Shared!At, At, Shared!Executes, Executes, Shared!GoTo, GoTo
<1> QED
  BY <1>1, <1>2, <1>3, <1>4, <1>5, <1>6

LEMMA ButtonKernel ==
    /\ \A k, t, r : Button!rtos_unblock_task(k, t, r) = rtos_unblock_task(k, t, r)
    /\ \A k, n, l, i : Button!rtos_block_current_task(k, n, l, i) = rtos_block_current_task(k, n, l, i)
    /\ \A k : /\ Button!rtos_clear_current_wait_reason(k) = rtos_clear_current_wait_reason(k)
              /\ Button!rtos_current_effective_priority(k) = rtos_current_effective_priority(k)
    /\ Button!Slots = Slots /\ Button!Ticks = Ticks /\ Button!ARTOS_DELAY_INFINITY = ARTOS_DELAY_INFINITY
    /\ Button!InterruptEnabled = InterruptEnabled
    /\ \A t, loc : (Button!At(t, loc) <=> At(t, loc)) /\ (Button!GoTo(t, loc) <=> GoTo(t, loc))
<1>1. ASSUME NEW k, NEW t, NEW r PROVE Button!rtos_unblock_task(k, t, r) = rtos_unblock_task(k, t, r)
  <2>1. \A j : /\ Button!StateRemove(j, t) = StateRemove(j, t)
               /\ Button!EventRemove(j, t) = EventRemove(j, t)
    BY Zenon DEF Button!StateRemove, StateRemove, Button!EventRemove, EventRemove, Button!rtos_list_remove,
       rtos_list_remove, Button!RemoveAt, RemoveAt, Button!IndexOf, IndexOf, Button!Fail, Fail
  <2>2. \A j : Button!rtos_insert_ready_list(j, t) = rtos_insert_ready_list(j, t)
    BY Zenon DEF Button!rtos_insert_ready_list, rtos_insert_ready_list, Button!ReadyL, ReadyL,
       Button!rtos_list_insert_end, rtos_list_insert_end
  <2>3. Button!DelayLists = DelayLists /\ Button!SuspendL = SuspendL /\ Button!Fail(k) = Fail(k)
    BY Zenon DEF Button!DelayLists, DelayLists, Button!DelayedL, DelayedL, Button!DelayedOverflowL,
       DelayedOverflowL, Button!SuspendL, SuspendL, Button!Fail, Fail
  <2> QED
    BY <2>1, <2>2, <2>3, Zenon DEF Button!rtos_unblock_task, rtos_unblock_task
<1>2. ASSUME NEW k, NEW n, NEW l, NEW i
      PROVE  Button!rtos_block_current_task(k, n, l, i) = rtos_block_current_task(k, n, l, i)
  BY Zenon DEF Button!rtos_block_current_task, rtos_block_current_task, Button!Fail, Fail,
     Button!rtos_list_insert_end, rtos_list_insert_end, Button!rtos_list_insert_sorted,
     rtos_list_insert_sorted, Button!rtos_list_insert_reversed_sorted,
     rtos_list_insert_reversed_sorted, Button!SortedStop, SortedStop, Button!ReversedStop, ReversedStop,
     Button!InsertAt, InsertAt, Button!SuspendL, SuspendL
<1>3. ASSUME NEW k
      PROVE  /\ Button!rtos_clear_current_wait_reason(k) = rtos_clear_current_wait_reason(k)
             /\ Button!rtos_current_effective_priority(k) = rtos_current_effective_priority(k)
  BY Zenon DEF Button!rtos_clear_current_wait_reason, rtos_clear_current_wait_reason,
     Button!rtos_current_effective_priority, rtos_current_effective_priority
<1>4. Button!Slots = Slots /\ Button!Ticks = Ticks /\ Button!ARTOS_DELAY_INFINITY = ARTOS_DELAY_INFINITY
  BY Zenon DEF Button!Slots, Slots, Button!Ticks, Ticks, Button!ARTOS_DELAY_INFINITY, ARTOS_DELAY_INFINITY
<1>5. Button!InterruptEnabled = InterruptEnabled
  BY Zenon DEF Button!InterruptEnabled, InterruptEnabled
<1>6. ASSUME NEW t, NEW loc
      PROVE  (Button!At(t, loc) <=> At(t, loc)) /\ (Button!GoTo(t, loc) <=> GoTo(t, loc))
  BY Zenon DEF Button!At, At, Button!Executes, Executes, Button!GoTo, GoTo
<1> QED
  BY <1>1, <1>2, <1>3, <1>4, <1>5, <1>6

(* The locals of a queue call. *)
Calls == [data : Messages \cup {NULL}, wake_tick : Ticks, infinity : BOOLEAN]

LEMMA ShowcaseFacts ==
    /\ \A l \in {shared_read, shared_write, button_read, button_write} : l \in WaitLists \ Semaphores
    /\ shared_read # shared_write /\ button_read # button_write
    /\ SharedCapacity \in Nat \ {0} /\ ButtonCapacity \in Nat \ {0}
    /\ NULL \notin Messages /\ MaxPresses \in Nat
    /\ LedPeriod \in Ticks /\ HeartbeatInterval \in Ticks /\ ConsumerTimeout \in Ticks
    /\ ConsumerDelays \subseteq Ticks
    /\ 0 \in Ticks /\ ARTOS_DELAY_INFINITY \in Ticks
BY ShowcaseAssumption, KernelFacts DEF Ticks, ARTOS_DELAY_INFINITY

(* What a call of a queue by task t does in the kernel, in state k: it     *)
(* gives up, blocks on list l at loc, or releases a task from list m.      *)
CallEffect(t, k, l, loc, m) ==
    \/ kern' = k /\ pc' = [pc EXCEPT ![t] = "app"]
    \/ /\ \E wake \in Ticks, infinite \in BOOLEAN :
             /\ ~infinite => wake # kern.ticks
             /\ kern' = rtos_block_current_task(k, wake, l, infinite)
       /\ pc' = [pc EXCEPT ![t] = loc]
    \/ /\ kern' = ReleaseFrom(k, m)
       /\ pc' = [pc EXCEPT ![t] = IF HigherWaits(k, m) THEN "switch" ELSE "app"]

(* A task goes on at one of these places, the others stay. *)
Moves(t, locs) == pc'[t] \in locs /\ \A u \in Slots : u # t => pc'[u] = pc[u]

LEMMA CallKeeps ==
    ASSUME SemPart, NEW t \in Slots, Executes(t), pc[t] \notin SwitchLocs, pc[t] \notin TakeLocs,
           NEW k, Entry(k, t), NEW l \in WaitLists \ Semaphores, NEW m \in WaitLists \ Semaphores,
           NEW loc \in {"enqueue_switch", "dequeue_switch"}, CallEffect(t, k, l, loc, m),
           pend' = pend, switching' = switching, systick' = systick, UNCHANGED semVars
    PROVE  SemPart' /\ TakersStay /\ Moves(t, {"app", "switch", loc})
<1>1. pc \in [Threads -> Places] /\ Slots \subseteq Threads
  BY DEF SemPart, SemTypeOK, Threads
<1>2. ASSUME NEW next, pc' = [pc EXCEPT ![t] = next], next \in {"app", "switch", loc}
      PROVE  Moves(t, {"app", "switch", loc})
  BY <1>1, <1>2 DEF Moves
<1>3. CASE kern' = k /\ pc' = [pc EXCEPT ![t] = "app"]
  BY <1>2, <1>3, CallGivesUp
<1>4. ASSUME NEW wake \in Ticks, NEW infinite \in BOOLEAN, ~infinite => wake # kern.ticks,
             kern' = rtos_block_current_task(k, wake, l, infinite), pc' = [pc EXCEPT ![t] = loc]
      PROVE  SemPart' /\ TakersStay /\ Moves(t, {"app", "switch", loc})
  BY <1>2, <1>4, CallBlocks
<1>5. CASE /\ kern' = ReleaseFrom(k, m)
           /\ pc' = [pc EXCEPT ![t] = IF HigherWaits(k, m) THEN "switch" ELSE "app"]
  <2>1. SemPart' /\ TakersStay
    BY <1>5, CallReleases
  <2>2. (IF HigherWaits(k, m) THEN "switch" ELSE "app") \in {"app", "switch", loc}
    OBVIOUS
  <2> QED
    BY <2>1, <2>2, <1>2, <1>5
<1> QED
  BY <1>3, <1>4, <1>5 DEF CallEffect

(* The calls of the shared queue. *)
LEMMA SharedPass ==
    ASSUME kern.ticks \in Ticks, NEW t \in Slots, NEW k, k.ticks = kern.ticks, NEW call \in Calls,
           shared_call \in [Slots -> Calls]
    PROVE  /\ Shared!EnqueuePass(t, k, call) =>
                 /\ CallEffect(t, k, shared_write, "enqueue_switch", shared_read)
                 /\ shared_call' \in [Slots -> Calls]
                 /\ \/ shared' = shared
                    \/ shared.count # SharedCapacity /\ shared' = Shared!Enqueued(call.data) /\ shared_got' = shared_got
           /\ Shared!DequeuePass(t, k, call) =>
                 /\ CallEffect(t, k, shared_read, "dequeue_switch", shared_write)
                 /\ shared_call' \in [Slots -> Calls]
                 /\ \/ shared' = shared
                    \/ /\ shared.count # 0 /\ shared' = Shared!Dequeued
                       /\ shared_got' = shared.storage[shared.read_index]
                       /\ pc' = [pc EXCEPT ![t] = "app"] \/ pc' = [pc EXCEPT ![t] = "switch"]
           /\ Shared!GiveUp(t, k) => /\ CallEffect(t, k, shared_read, "dequeue_switch", shared_write)
                                /\ shared_call' \in [Slots -> Calls]
<1>1. /\ call.wake_tick \in Ticks /\ call.infinity \in BOOLEAN
      /\ Shared!NoCall \in Calls
  BY ShowcaseFacts DEF Calls, Shared!NoCall
<1>2. ASSUME ~Shared!Expired(k, call) PROVE ~call.infinity => call.wake_tick # kern.ticks
  BY <1>1, <1>2, WakeTick DEF Shared!Expired
<1>3. ASSUME Shared!GiveUp(t, k), NEW l, NEW loc, NEW m
      PROVE  CallEffect(t, k, l, loc, m) /\ shared_call' \in [Slots -> Calls]
  BY <1>1, <1>3, SharedKernel DEF Shared!GiveUp, CallEffect, GoTo
<1>4. ASSUME NEW l, NEW loc, NEW m, Shared!Block(t, k, call, l, loc), ~Shared!Expired(k, call)
      PROVE  CallEffect(t, k, l, loc, m) /\ shared_call' \in [Slots -> Calls]
  <2>1. /\ kern' = rtos_block_current_task(k, call.wake_tick, l, call.infinity)
        /\ shared_call' = [shared_call EXCEPT ![t] = call]
        /\ pc' = [pc EXCEPT ![t] = loc]
    BY <1>4, SharedKernel DEF Shared!Block, GoTo
  <2> QED
    BY <2>1, <1>1, <1>2, <1>4 DEF CallEffect
<1>5. ASSUME NEW l, NEW loc, NEW m, Shared!Finish(t, k, m)
      PROVE  /\ CallEffect(t, k, l, loc, m) /\ shared_call' \in [Slots -> Calls]
             /\ pc' = [pc EXCEPT ![t] = "app"] \/ pc' = [pc EXCEPT ![t] = "switch"]
  <2>1. Shared!Release(k, m) = ReleaseFrom(k, m) /\ (Shared!ReleasesHigher(k, m) <=> HigherWaits(k, m))
    BY SharedKernel DEF Shared!Release, ReleaseFrom, Shared!ReleasesHigher, HigherWaits
  <2>2. /\ kern' = ReleaseFrom(k, m)
        /\ shared_call' = [shared_call EXCEPT ![t] = Shared!NoCall]
        /\ pc' = [pc EXCEPT ![t] = IF HigherWaits(k, m) THEN "switch" ELSE "app"]
    BY <2>1, <1>5, SharedKernel DEF Shared!Finish, GoTo
  <2> QED
    BY <2>2, <1>1 DEF CallEffect
<1>6. ASSUME Shared!EnqueuePass(t, k, call)
      PROVE  /\ CallEffect(t, k, shared_write, "enqueue_switch", shared_read)
             /\ shared_call' \in [Slots -> Calls]
             /\ \/ shared' = shared
                \/ shared.count # SharedCapacity /\ shared' = Shared!Enqueued(call.data) /\ shared_got' = shared_got
  BY <1>3, <1>4, <1>5, <1>6 DEF Shared!EnqueuePass
<1>7. ASSUME Shared!DequeuePass(t, k, call)
      PROVE  /\ CallEffect(t, k, shared_read, "dequeue_switch", shared_write)
             /\ shared_call' \in [Slots -> Calls]
             /\ \/ shared' = shared
                \/ /\ shared.count # 0 /\ shared' = Shared!Dequeued
                   /\ shared_got' = shared.storage[shared.read_index]
                   /\ pc' = [pc EXCEPT ![t] = "app"] \/ pc' = [pc EXCEPT ![t] = "switch"]
  BY <1>3, <1>4, <1>5, <1>7 DEF Shared!DequeuePass
<1> QED
  BY <1>3, <1>6, <1>7

(* The calls of the button queue. *)
LEMMA ButtonPass ==
    ASSUME kern.ticks \in Ticks, NEW t \in Slots, NEW k, k.ticks = kern.ticks, NEW call \in Calls,
           button_call \in [Slots -> Calls]
    PROVE  /\ Button!EnqueuePass(t, k, call) =>
                 /\ CallEffect(t, k, button_write, "enqueue_switch", button_read)
                 /\ button_call' \in [Slots -> Calls]
                 /\ \/ button' = button
                    \/ button.count # ButtonCapacity /\ button' = Button!Enqueued(call.data) /\ button_got' = button_got
           /\ Button!DequeuePass(t, k, call) =>
                 /\ CallEffect(t, k, button_read, "dequeue_switch", button_write)
                 /\ button_call' \in [Slots -> Calls]
                 /\ \/ button' = button
                    \/ /\ button.count # 0 /\ button' = Button!Dequeued
                       /\ button_got' = button.storage[button.read_index]
                       /\ pc' = [pc EXCEPT ![t] = "app"] \/ pc' = [pc EXCEPT ![t] = "switch"]
           /\ Button!GiveUp(t, k) => /\ CallEffect(t, k, button_read, "dequeue_switch", button_write)
                                /\ button_call' \in [Slots -> Calls]
<1>1. /\ call.wake_tick \in Ticks /\ call.infinity \in BOOLEAN
      /\ Button!NoCall \in Calls
  BY ShowcaseFacts DEF Calls, Button!NoCall
<1>2. ASSUME ~Button!Expired(k, call) PROVE ~call.infinity => call.wake_tick # kern.ticks
  BY <1>1, <1>2, WakeTick DEF Button!Expired
<1>3. ASSUME Button!GiveUp(t, k), NEW l, NEW loc, NEW m
      PROVE  CallEffect(t, k, l, loc, m) /\ button_call' \in [Slots -> Calls]
  BY <1>1, <1>3, ButtonKernel DEF Button!GiveUp, CallEffect, GoTo
<1>4. ASSUME NEW l, NEW loc, NEW m, Button!Block(t, k, call, l, loc), ~Button!Expired(k, call)
      PROVE  CallEffect(t, k, l, loc, m) /\ button_call' \in [Slots -> Calls]
  <2>1. /\ kern' = rtos_block_current_task(k, call.wake_tick, l, call.infinity)
        /\ button_call' = [button_call EXCEPT ![t] = call]
        /\ pc' = [pc EXCEPT ![t] = loc]
    BY <1>4, ButtonKernel DEF Button!Block, GoTo
  <2> QED
    BY <2>1, <1>1, <1>2, <1>4 DEF CallEffect
<1>5. ASSUME NEW l, NEW loc, NEW m, Button!Finish(t, k, m)
      PROVE  /\ CallEffect(t, k, l, loc, m) /\ button_call' \in [Slots -> Calls]
             /\ pc' = [pc EXCEPT ![t] = "app"] \/ pc' = [pc EXCEPT ![t] = "switch"]
  <2>1. Button!Release(k, m) = ReleaseFrom(k, m) /\ (Button!ReleasesHigher(k, m) <=> HigherWaits(k, m))
    BY ButtonKernel DEF Button!Release, ReleaseFrom, Button!ReleasesHigher, HigherWaits
  <2>2. /\ kern' = ReleaseFrom(k, m)
        /\ button_call' = [button_call EXCEPT ![t] = Button!NoCall]
        /\ pc' = [pc EXCEPT ![t] = IF HigherWaits(k, m) THEN "switch" ELSE "app"]
    BY <2>1, <1>5, ButtonKernel DEF Button!Finish, GoTo
  <2> QED
    BY <2>2, <1>1 DEF CallEffect
<1>6. ASSUME Button!EnqueuePass(t, k, call)
      PROVE  /\ CallEffect(t, k, button_write, "enqueue_switch", button_read)
             /\ button_call' \in [Slots -> Calls]
             /\ \/ button' = button
                \/ button.count # ButtonCapacity /\ button' = Button!Enqueued(call.data) /\ button_got' = button_got
  BY <1>3, <1>4, <1>5, <1>6 DEF Button!EnqueuePass
<1>7. ASSUME Button!DequeuePass(t, k, call)
      PROVE  /\ CallEffect(t, k, button_read, "dequeue_switch", button_write)
             /\ button_call' \in [Slots -> Calls]
             /\ \/ button' = button
                \/ /\ button.count # 0 /\ button' = Button!Dequeued
                   /\ button_got' = button.storage[button.read_index]
                   /\ pc' = [pc EXCEPT ![t] = "app"] \/ pc' = [pc EXCEPT ![t] = "switch"]
  BY <1>3, <1>4, <1>5, <1>7 DEF Button!DequeuePass
<1> QED
  BY <1>3, <1>6, <1>7

(* What a slot of a queue of the showcase holds: a message, or nothing yet. *)
Cells == Messages \cup {NULL}

(* The two queues.  What a ring buffer does is proved in module ListsProofs. *)
LEMMA SharedRing ==
    ASSUME Ring(shared, SharedCapacity, Cells)
    PROVE  /\ Shared!QueueValid /\ Shared!Contents \in Seq(Messages \cup {NULL})
           /\ (Shared!Contents)' = ContentsOf(shared', SharedCapacity)
           /\ \A d \in Messages :
                 shared.count # SharedCapacity /\ shared' = Shared!Enqueued(d) =>
                    Ring(shared', SharedCapacity, Cells) /\ (Shared!Contents)' = Append(Shared!Contents, d)
           /\ shared.count # 0 /\ shared' = Shared!Dequeued =>
                 /\ Ring(shared', SharedCapacity, Cells) /\ shared'.count # shared.count
                 /\ Shared!Contents # <<>> /\ (Shared!Contents)' = Tail(Shared!Contents)
                 /\ shared.storage[shared.read_index] = Head(Shared!Contents)
<1>1. Shared!Contents = ContentsOf(shared, SharedCapacity) /\ (Shared!Contents)' = ContentsOf(shared', SharedCapacity)
  BY DEF Shared!Contents, ContentsOf, Window
<1>2. SharedCapacity \in Nat /\ SharedCapacity > 0
  BY ShowcaseFacts
<1>3. /\ shared.count \in 0 .. SharedCapacity /\ shared.read_index \in 0 .. SharedCapacity - 1
      /\ shared.write_index \in 0 .. SharedCapacity - 1
      /\ shared.storage \in Storage(SharedCapacity, Cells)
  BY <1>2, RingFields
<1>4. Shared!QueueValid
  BY <1>2, <1>3 DEF Shared!QueueValid
<1>5. Shared!Contents \in Seq(Messages \cup {NULL})
  <2>1. Window(shared.storage, shared.read_index, shared.count, SharedCapacity) \in Seq(Cells)
    BY <1>2, <1>3, WindowIsSeq
  <2> QED
    BY <2>1, <1>1 DEF ContentsOf, Cells
<1>6. ASSUME NEW d \in Messages, shared.count # SharedCapacity, shared' = Shared!Enqueued(d)
      PROVE  Ring(shared', SharedCapacity, Cells) /\ (Shared!Contents)' = Append(Shared!Contents, d)
  <2>1. shared' = Filled(shared, d, SharedCapacity)
    BY <1>6, Zenon DEF Shared!Enqueued, Filled, Shared!Advance, NextSlot
  <2>2. d \in Cells
    BY DEF Cells
  <2>3. /\ Ring(Filled(shared, d, SharedCapacity), SharedCapacity, Cells)
        /\ ContentsOf(Filled(shared, d, SharedCapacity), SharedCapacity) = Append(ContentsOf(shared, SharedCapacity), d)
    BY <2>2, <1>2, <1>6, EnqueueRing
  <2> QED
    BY <2>1, <2>3, <1>1
<1>7. ASSUME shared.count # 0, shared' = Shared!Dequeued
      PROVE  /\ Ring(shared', SharedCapacity, Cells) /\ shared'.count # shared.count
             /\ Shared!Contents # <<>> /\ (Shared!Contents)' = Tail(Shared!Contents)
             /\ shared.storage[shared.read_index] = Head(Shared!Contents)
  <2>1. shared' = Drained(shared, SharedCapacity)
    BY <1>7, Zenon DEF Shared!Dequeued, Drained, Shared!Advance, NextSlot
  <2>2. /\ Ring(Drained(shared, SharedCapacity), SharedCapacity, Cells) /\ Drained(shared, SharedCapacity).count = shared.count - 1
        /\ ContentsOf(shared, SharedCapacity) # <<>>
        /\ ContentsOf(Drained(shared, SharedCapacity), SharedCapacity) = Tail(ContentsOf(shared, SharedCapacity))
        /\ shared.storage[shared.read_index] = Head(ContentsOf(shared, SharedCapacity))
    BY <1>2, <1>7, DequeueRing
  <2>3. Drained(shared, SharedCapacity).count # shared.count
    BY <2>2, <1>3
  <2> QED
    BY <2>1, <2>2, <2>3, <1>1
<1> QED
  BY <1>1, <1>4, <1>5, <1>6, <1>7

LEMMA ButtonRing ==
    ASSUME Ring(button, ButtonCapacity, Cells)
    PROVE  /\ Button!QueueValid /\ Button!Contents \in Seq(Messages \cup {NULL})
           /\ (Button!Contents)' = ContentsOf(button', ButtonCapacity)
           /\ \A d \in Messages :
                 button.count # ButtonCapacity /\ button' = Button!Enqueued(d) =>
                    Ring(button', ButtonCapacity, Cells) /\ (Button!Contents)' = Append(Button!Contents, d)
           /\ button.count # 0 /\ button' = Button!Dequeued =>
                 /\ Ring(button', ButtonCapacity, Cells) /\ button'.count # button.count
                 /\ Button!Contents # <<>> /\ (Button!Contents)' = Tail(Button!Contents)
                 /\ button.storage[button.read_index] = Head(Button!Contents)
<1>1. Button!Contents = ContentsOf(button, ButtonCapacity) /\ (Button!Contents)' = ContentsOf(button', ButtonCapacity)
  BY DEF Button!Contents, ContentsOf, Window
<1>2. ButtonCapacity \in Nat /\ ButtonCapacity > 0
  BY ShowcaseFacts
<1>3. /\ button.count \in 0 .. ButtonCapacity /\ button.read_index \in 0 .. ButtonCapacity - 1
      /\ button.write_index \in 0 .. ButtonCapacity - 1
      /\ button.storage \in Storage(ButtonCapacity, Cells)
  BY <1>2, RingFields
<1>4. Button!QueueValid
  BY <1>2, <1>3 DEF Button!QueueValid
<1>5. Button!Contents \in Seq(Messages \cup {NULL})
  <2>1. Window(button.storage, button.read_index, button.count, ButtonCapacity) \in Seq(Cells)
    BY <1>2, <1>3, WindowIsSeq
  <2> QED
    BY <2>1, <1>1 DEF ContentsOf, Cells
<1>6. ASSUME NEW d \in Messages, button.count # ButtonCapacity, button' = Button!Enqueued(d)
      PROVE  Ring(button', ButtonCapacity, Cells) /\ (Button!Contents)' = Append(Button!Contents, d)
  <2>1. button' = Filled(button, d, ButtonCapacity)
    BY <1>6, Zenon DEF Button!Enqueued, Filled, Button!Advance, NextSlot
  <2>2. d \in Cells
    BY DEF Cells
  <2>3. /\ Ring(Filled(button, d, ButtonCapacity), ButtonCapacity, Cells)
        /\ ContentsOf(Filled(button, d, ButtonCapacity), ButtonCapacity) = Append(ContentsOf(button, ButtonCapacity), d)
    BY <2>2, <1>2, <1>6, EnqueueRing
  <2> QED
    BY <2>1, <2>3, <1>1
<1>7. ASSUME button.count # 0, button' = Button!Dequeued
      PROVE  /\ Ring(button', ButtonCapacity, Cells) /\ button'.count # button.count
             /\ Button!Contents # <<>> /\ (Button!Contents)' = Tail(Button!Contents)
             /\ button.storage[button.read_index] = Head(Button!Contents)
  <2>1. button' = Drained(button, ButtonCapacity)
    BY <1>7, Zenon DEF Button!Dequeued, Drained, Button!Advance, NextSlot
  <2>2. /\ Ring(Drained(button, ButtonCapacity), ButtonCapacity, Cells) /\ Drained(button, ButtonCapacity).count = button.count - 1
        /\ ContentsOf(button, ButtonCapacity) # <<>>
        /\ ContentsOf(Drained(button, ButtonCapacity), ButtonCapacity) = Tail(ContentsOf(button, ButtonCapacity))
        /\ button.storage[button.read_index] = Head(ContentsOf(button, ButtonCapacity))
    BY <1>2, <1>7, DequeueRing
  <2>3. Drained(button, ButtonCapacity).count # button.count
    BY <2>2, <1>3
  <2> QED
    BY <2>1, <2>2, <2>3, <1>1
<1> QED
  BY <1>1, <1>4, <1>5, <1>6, <1>7

LEMMA SharedSend ==
    ASSUME SemPart, UNCHANGED semVars, Ring(shared, SharedCapacity, Cells), shared_call \in [Slots -> Calls],
           NEW t \in Slots, NEW d \in Messages, NEW n \in Ticks, Shared!artos_queue_enqueue(t, d, n)
    PROVE  /\ SemPart' /\ TakersStay /\ Moves(t, {"app", "switch", "enqueue_switch"})
           /\ Ring(shared', SharedCapacity, Cells) /\ shared_call' \in [Slots -> Calls]
           /\ (Shared!Contents)' = Shared!Contents \/ (Shared!Contents)' = Append(Shared!Contents, d)
<1> DEFINE call == Shared!Call(d, n)
<1>1. Shared!QueueValid
  BY SharedRing
<1>2. /\ Executes(t) /\ pc[t] = "app" /\ Shared!EnqueuePass(t, kern, call)
      /\ pend' = pend /\ switching' = switching /\ systick' = systick
  BY <1>1, SharedKernel DEF Shared!artos_queue_enqueue, At
<1>3. pc[t] \notin SwitchLocs /\ pc[t] \notin TakeLocs /\ CoreInv(SwitchLocs)
  BY <1>2 DEF SwitchLocs, TakeLocs, SemPart
<1>4. Entry(kern, t)
  BY <1>2, <1>3, EntryOfTask
<1>5. kern.ticks \in Ticks
  BY <1>4 DEF Entry, KInv, KernelType
<1>6. call \in Calls /\ call.data = d
  BY <1>5, WakeTick, ShowcaseFacts, SharedKernel DEF Shared!Call, Calls
<1> HIDE DEF call
<1>7. /\ CallEffect(t, kern, shared_write, "enqueue_switch", shared_read)
      /\ shared_call' \in [Slots -> Calls]
      /\ \/ shared' = shared
         \/ shared.count # SharedCapacity /\ shared' = Shared!Enqueued(call.data)
  BY <1>2, <1>5, <1>6, SharedPass
<1>8. SemPart' /\ TakersStay /\ Moves(t, {"app", "switch", "enqueue_switch"})
  <2>1. shared_write \in WaitLists \ Semaphores /\ shared_read \in WaitLists \ Semaphores
        /\ "enqueue_switch" \in {"enqueue_switch", "dequeue_switch"}
    BY ShowcaseFacts
  <2> QED
    BY <2>1, <1>2, <1>3, <1>4, <1>7, CallKeeps
<1>9. CASE shared' = shared
  BY <1>7, <1>8, <1>9 DEF Shared!Contents
<1>10. CASE shared.count # SharedCapacity /\ shared' = Shared!Enqueued(d)
  BY <1>7, <1>8, <1>10, SharedRing
<1> QED
  BY <1>6, <1>7, <1>9, <1>10

LEMMA SharedReceive ==
    ASSUME SemPart, UNCHANGED semVars, Ring(shared, SharedCapacity, Cells), shared_call \in [Slots -> Calls],
           NEW t \in Slots, NEW n \in Ticks, Shared!artos_queue_dequeue(t, n) \/ Shared!DequeueWoken(t)
    PROVE  /\ SemPart' /\ TakersStay /\ Moves(t, {"app", "switch", "dequeue_switch"})
           /\ Ring(shared', SharedCapacity, Cells) /\ shared_call' \in [Slots -> Calls]
           /\ \/ shared' = shared
              \/ /\ pc'[t] \in {"app", "switch"} /\ shared'.count # shared.count
                 /\ Shared!Contents # <<>> /\ (Shared!Contents)' = Tail(Shared!Contents)
                 /\ shared_got' = Head(Shared!Contents)
<1>1. Shared!QueueValid
  BY SharedRing
<1>2. /\ Executes(t) /\ pc[t] \in {"app", "dequeue_woken"}
      /\ pend' = pend /\ switching' = switching /\ systick' = systick
  BY SharedKernel DEF Shared!artos_queue_dequeue, Shared!DequeueWoken, At
<1>3. /\ pc[t] \notin SwitchLocs /\ pc[t] \notin TakeLocs /\ CoreInv(SwitchLocs)
      /\ pc \in [Threads -> Places] /\ t \in Threads
  BY <1>2 DEF SwitchLocs, TakeLocs, SemPart, SemTypeOK, Threads
<1>4. Entry(kern, t) /\ Entry(rtos_clear_current_wait_reason(kern), t)
  BY <1>2, <1>3, EntryOfTask
<1>5. kern.ticks \in Ticks
  BY <1>4 DEF Entry, KInv, KernelType
<1>6. ASSUME NEW k, NEW call \in Calls, Entry(k, t),
             Shared!DequeuePass(t, k, call) \/ (Shared!GiveUp(t, k) /\ shared' = shared)
      PROVE  /\ SemPart' /\ TakersStay /\ Moves(t, {"app", "switch", "dequeue_switch"})
             /\ Ring(shared', SharedCapacity, Cells) /\ shared_call' \in [Slots -> Calls]
             /\ \/ shared' = shared
                \/ /\ pc'[t] \in {"app", "switch"} /\ shared'.count # shared.count
                   /\ Shared!Contents # <<>> /\ (Shared!Contents)' = Tail(Shared!Contents)
                   /\ shared_got' = Head(Shared!Contents)
  <2>1. k.ticks = kern.ticks
    BY <1>6 DEF Entry
  <2>2. /\ CallEffect(t, k, shared_read, "dequeue_switch", shared_write)
        /\ shared_call' \in [Slots -> Calls]
        /\ \/ shared' = shared
           \/ /\ shared.count # 0 /\ shared' = Shared!Dequeued
              /\ shared_got' = shared.storage[shared.read_index]
              /\ pc' = [pc EXCEPT ![t] = "app"] \/ pc' = [pc EXCEPT ![t] = "switch"]
    BY <2>1, <1>5, <1>6, SharedPass
  <2>3. SemPart' /\ TakersStay /\ Moves(t, {"app", "switch", "dequeue_switch"})
    <3>1. shared_write \in WaitLists \ Semaphores /\ shared_read \in WaitLists \ Semaphores
          /\ "dequeue_switch" \in {"enqueue_switch", "dequeue_switch"}
      BY ShowcaseFacts
    <3> QED
      BY <3>1, <2>2, <1>2, <1>3, <1>6, CallKeeps
  <2>4. CASE shared' = shared
    BY <2>2, <2>3, <2>4
  <2>5. CASE /\ shared.count # 0 /\ shared' = Shared!Dequeued
             /\ shared_got' = shared.storage[shared.read_index]
             /\ pc' = [pc EXCEPT ![t] = "app"] \/ pc' = [pc EXCEPT ![t] = "switch"]
    <3>1. pc'[t] \in {"app", "switch"}
      BY <1>3, <2>5
    <3>2. /\ Ring(shared', SharedCapacity, Cells) /\ shared'.count # shared.count
          /\ Shared!Contents # <<>> /\ (Shared!Contents)' = Tail(Shared!Contents)
          /\ shared.storage[shared.read_index] = Head(Shared!Contents)
      BY <2>5, SharedRing
    <3> QED
      BY <3>1, <3>2, <2>2, <2>3, <2>5
  <2> QED
    BY <2>2, <2>4, <2>5
<1>7. CASE Shared!artos_queue_dequeue(t, n)
  <2>1. Shared!Call(NULL, n) \in Calls
    BY <1>5, WakeTick, ShowcaseFacts, SharedKernel DEF Shared!Call, Calls
  <2>2. Shared!DequeuePass(t, kern, Shared!Call(NULL, n))
    BY <1>1, <1>7 DEF Shared!artos_queue_dequeue
  <2> QED
    BY <2>1, <2>2, <1>4, <1>6
<1>8. CASE Shared!DequeueWoken(t)
  <2> DEFINE k == rtos_clear_current_wait_reason(kern)
  <2>1. shared_call[t] \in Calls
    OBVIOUS
  <2>2. Shared!DequeuePass(t, k, shared_call[t]) \/ (Shared!GiveUp(t, k) /\ shared' = shared)
    BY <1>8, SharedKernel DEF Shared!DequeueWoken
  <2> HIDE DEF k
  <2>3. Entry(k, t)
    BY <1>4 DEF k
  <2> QED
    BY <2>1, <2>2, <2>3, <1>6
<1> QED
  BY <1>7, <1>8

LEMMA SharedIsr ==
    ASSUME SemPart, UNCHANGED semVars, Ring(shared, SharedCapacity, Cells), NEW d \in Messages,
           Shared!artos_queue_enqueue_from_isr(d)
    PROVE  /\ SemPart' /\ TakersStay /\ pc' = pc
           /\ Ring(shared', SharedCapacity, Cells) /\ shared_call' = shared_call
           /\ (Shared!Contents)' = Append(Shared!Contents, d)
<1>1. Shared!QueueValid
  BY SharedRing
<1>2. Shared!Release(kern, shared_read) = ReleaseFrom(kern, shared_read)
      /\ (Shared!ReleasesHigher(kern, shared_read) <=> HigherWaits(kern, shared_read))
  BY SharedKernel DEF Shared!Release, ReleaseFrom, Shared!ReleasesHigher, HigherWaits
<1>3. /\ InterruptEnabled /\ shared.count # SharedCapacity /\ shared' = Shared!Enqueued(d)
      /\ kern' = ReleaseFrom(kern, shared_read)
      /\ switching' = switching /\ systick' = systick /\ pc' = pc /\ shared_call' = shared_call
  BY <1>1, <1>2, SharedKernel DEF Shared!artos_queue_enqueue_from_isr
<1>4. pend' = (pend \/ HigherWaits(kern, shared_read))
  <2>1. pend' = (pend \/ Shared!ReleasesHigher(kern, shared_read))
    BY DEF Shared!artos_queue_enqueue_from_isr
  <2>2. Shared!ReleasesHigher(kern, shared_read) = HigherWaits(kern, shared_read)
    BY SharedKernel DEF Shared!ReleasesHigher, HigherWaits
  <2> QED
    BY <2>1, <2>2, Zenon
<1>5. SemPart' /\ TakersStay
  <2>1. shared_read \in WaitLists \ Semaphores
    BY ShowcaseFacts
  <2> QED
    BY <2>1, <1>3, <1>4, IsrReleases
<1> QED
  BY <1>3, <1>5, SharedRing

LEMMA ButtonReceive ==
    ASSUME SemPart, UNCHANGED semVars, Ring(button, ButtonCapacity, Cells), button_call \in [Slots -> Calls],
           NEW t \in Slots, NEW n \in Ticks, Button!artos_queue_dequeue(t, n) \/ Button!DequeueWoken(t)
    PROVE  /\ SemPart' /\ TakersStay /\ Moves(t, {"app", "switch", "dequeue_switch"})
           /\ Ring(button', ButtonCapacity, Cells) /\ button_call' \in [Slots -> Calls]
           /\ \/ button' = button
              \/ /\ pc'[t] \in {"app", "switch"} /\ button'.count # button.count
                 /\ Button!Contents # <<>> /\ (Button!Contents)' = Tail(Button!Contents)
                 /\ button_got' = Head(Button!Contents)
<1>1. Button!QueueValid
  BY ButtonRing
<1>2. /\ Executes(t) /\ pc[t] \in {"app", "dequeue_woken"}
      /\ pend' = pend /\ switching' = switching /\ systick' = systick
  BY ButtonKernel DEF Button!artos_queue_dequeue, Button!DequeueWoken, At
<1>3. /\ pc[t] \notin SwitchLocs /\ pc[t] \notin TakeLocs /\ CoreInv(SwitchLocs)
      /\ pc \in [Threads -> Places] /\ t \in Threads
  BY <1>2 DEF SwitchLocs, TakeLocs, SemPart, SemTypeOK, Threads
<1>4. Entry(kern, t) /\ Entry(rtos_clear_current_wait_reason(kern), t)
  BY <1>2, <1>3, EntryOfTask
<1>5. kern.ticks \in Ticks
  BY <1>4 DEF Entry, KInv, KernelType
<1>6. ASSUME NEW k, NEW call \in Calls, Entry(k, t),
             Button!DequeuePass(t, k, call) \/ (Button!GiveUp(t, k) /\ button' = button)
      PROVE  /\ SemPart' /\ TakersStay /\ Moves(t, {"app", "switch", "dequeue_switch"})
             /\ Ring(button', ButtonCapacity, Cells) /\ button_call' \in [Slots -> Calls]
             /\ \/ button' = button
                \/ /\ pc'[t] \in {"app", "switch"} /\ button'.count # button.count
                   /\ Button!Contents # <<>> /\ (Button!Contents)' = Tail(Button!Contents)
                   /\ button_got' = Head(Button!Contents)
  <2>1. k.ticks = kern.ticks
    BY <1>6 DEF Entry
  <2>2. /\ CallEffect(t, k, button_read, "dequeue_switch", button_write)
        /\ button_call' \in [Slots -> Calls]
        /\ \/ button' = button
           \/ /\ button.count # 0 /\ button' = Button!Dequeued
              /\ button_got' = button.storage[button.read_index]
              /\ pc' = [pc EXCEPT ![t] = "app"] \/ pc' = [pc EXCEPT ![t] = "switch"]
    BY <2>1, <1>5, <1>6, ButtonPass
  <2>3. SemPart' /\ TakersStay /\ Moves(t, {"app", "switch", "dequeue_switch"})
    <3>1. button_write \in WaitLists \ Semaphores /\ button_read \in WaitLists \ Semaphores
          /\ "dequeue_switch" \in {"enqueue_switch", "dequeue_switch"}
      BY ShowcaseFacts
    <3> QED
      BY <3>1, <2>2, <1>2, <1>3, <1>6, CallKeeps
  <2>4. CASE button' = button
    BY <2>2, <2>3, <2>4
  <2>5. CASE /\ button.count # 0 /\ button' = Button!Dequeued
             /\ button_got' = button.storage[button.read_index]
             /\ pc' = [pc EXCEPT ![t] = "app"] \/ pc' = [pc EXCEPT ![t] = "switch"]
    <3>1. pc'[t] \in {"app", "switch"}
      BY <1>3, <2>5
    <3>2. /\ Ring(button', ButtonCapacity, Cells) /\ button'.count # button.count
          /\ Button!Contents # <<>> /\ (Button!Contents)' = Tail(Button!Contents)
          /\ button.storage[button.read_index] = Head(Button!Contents)
      BY <2>5, ButtonRing
    <3> QED
      BY <3>1, <3>2, <2>2, <2>3, <2>5
  <2> QED
    BY <2>2, <2>4, <2>5
<1>7. CASE Button!artos_queue_dequeue(t, n)
  <2>1. Button!Call(NULL, n) \in Calls
    BY <1>5, WakeTick, ShowcaseFacts, ButtonKernel DEF Button!Call, Calls
  <2>2. Button!DequeuePass(t, kern, Button!Call(NULL, n))
    BY <1>1, <1>7 DEF Button!artos_queue_dequeue
  <2> QED
    BY <2>1, <2>2, <1>4, <1>6
<1>8. CASE Button!DequeueWoken(t)
  <2> DEFINE k == rtos_clear_current_wait_reason(kern)
  <2>1. button_call[t] \in Calls
    OBVIOUS
  <2>2. Button!DequeuePass(t, k, button_call[t]) \/ (Button!GiveUp(t, k) /\ button' = button)
    BY <1>8, ButtonKernel DEF Button!DequeueWoken
  <2> HIDE DEF k
  <2>3. Entry(k, t)
    BY <1>4 DEF k
  <2> QED
    BY <2>1, <2>2, <2>3, <1>6
<1> QED
  BY <1>7, <1>8

LEMMA ButtonIsr ==
    ASSUME SemPart, UNCHANGED semVars, Ring(button, ButtonCapacity, Cells), NEW d \in Messages,
           Button!artos_queue_enqueue_from_isr(d)
    PROVE  /\ SemPart' /\ TakersStay /\ pc' = pc
           /\ Ring(button', ButtonCapacity, Cells) /\ button_call' = button_call
           /\ (Button!Contents)' = Append(Button!Contents, d)
<1>1. Button!QueueValid
  BY ButtonRing
<1>2. Button!Release(kern, button_read) = ReleaseFrom(kern, button_read)
      /\ (Button!ReleasesHigher(kern, button_read) <=> HigherWaits(kern, button_read))
  BY ButtonKernel DEF Button!Release, ReleaseFrom, Button!ReleasesHigher, HigherWaits
<1>3. /\ InterruptEnabled /\ button.count # ButtonCapacity /\ button' = Button!Enqueued(d)
      /\ kern' = ReleaseFrom(kern, button_read)
      /\ switching' = switching /\ systick' = systick /\ pc' = pc /\ button_call' = button_call
  BY <1>1, <1>2, ButtonKernel DEF Button!artos_queue_enqueue_from_isr
<1>4. pend' = (pend \/ HigherWaits(kern, button_read))
  <2>1. pend' = (pend \/ Button!ReleasesHigher(kern, button_read))
    BY DEF Button!artos_queue_enqueue_from_isr
  <2>2. Button!ReleasesHigher(kern, button_read) = HigherWaits(kern, button_read)
    BY ButtonKernel DEF Button!ReleasesHigher, HigherWaits
  <2> QED
    BY <2>1, <2>2, Zenon
<1>5. SemPart' /\ TakersStay
  <2>1. button_read \in WaitLists \ Semaphores
    BY ShowcaseFacts
  <2> QED
    BY <2>1, <1>3, <1>4, IsrReleases
<1> QED
  BY <1>3, <1>5, ButtonRing

-----------------------------------------------------------------------------
(* Counting.  The places of an item in a sequence that grows ... *)
LEMMA OccurrencesAppend ==
    ASSUME NEW S, NEW s \in Seq(S), NEW d \in S, NEW n
    PROVE  /\ Occurrences(s, n) \in Nat
           /\ Occurrences(Append(s, d), n) = Occurrences(s, n) + IF d = n THEN 1 ELSE 0
<1> DEFINE L == Len(s)
           a == Append(s, d)
           P == {i \in DOMAIN s : s[i] = n}
           Q == {i \in DOMAIN a : a[i] = n}
<1>1. L \in Nat /\ DOMAIN s = 1 .. L
  BY LenProperties
<1>2. /\ a \in Seq(S) /\ Len(a) = L + 1
      /\ \A i \in 1 .. L : a[i] = s[i]
      /\ a[L + 1] = d
  BY AppendProperties
<1>3. DOMAIN a = 1 .. L + 1
  BY <1>2, LenProperties
<1>4. IsFiniteSet(P) /\ Cardinality(P) \in Nat
  <2>1. IsFiniteSet(1 .. L)
    BY <1>1, FS_Interval
  <2>2. P \in SUBSET (1 .. L)
    BY <1>1
  <2> HIDE DEF P, L
  <2> QED
    BY <2>1, <2>2, FS_Subset, FS_CardinalityType
<1>5. Q = IF d = n THEN P \cup {L + 1} ELSE P
  <2> HIDE DEF L, a
  <2>1. 1 .. L + 1 = (1 .. L) \cup {L + 1}
    BY <1>1
  <2> QED
    BY <2>1, <1>1, <1>2, <1>3
<1>6. L + 1 \notin P
  BY <1>1
<1>7. Occurrences(s, n) = Cardinality(P) /\ Occurrences(a, n) = Cardinality(Q)
  BY DEF Occurrences
<1> HIDE DEF L, a, P, Q
<1>8. Cardinality(P \cup {L + 1}) = Cardinality(P) + 1
  BY <1>4, <1>6, FS_AddElement
<1>9. Occurrences(a, n) = Occurrences(s, n) + IF d = n THEN 1 ELSE 0
  BY <1>4, <1>5, <1>7, <1>8
<1> QED
  BY <1>4, <1>7, <1>9 DEF a

(* ... and shrinks. *)
LEMMA OccurrencesTail ==
    ASSUME NEW S, NEW s \in Seq(S), s # <<>>, NEW n
    PROVE  Occurrences(Tail(s), n) = Occurrences(s, n) - IF Head(s) = n THEN 1 ELSE 0
<1> DEFINE L == Len(s)
           t == Tail(s)
           P == {i \in DOMAIN s : s[i] = n}
           R == P \ {1}
           Q == {i \in DOMAIN t : t[i] = n}
           f == [i \in Q |-> i + 1]
<1>1. /\ L \in Nat /\ L > 0 /\ DOMAIN s = 1 .. L
      /\ Head(s) = s[1] /\ t \in Seq(S) /\ Len(t) = L - 1
      /\ \A i \in 1 .. L - 1 : t[i] = s[i + 1]
  BY LenProperties, HeadTailProperties, EmptySeq
<1>2. DOMAIN t = 1 .. L - 1
  BY <1>1, LenProperties
<1>3. IsFiniteSet(P) /\ Cardinality(P) \in Nat /\ IsFiniteSet(Q)
  <2>1. IsFiniteSet(1 .. L) /\ IsFiniteSet(1 .. L - 1)
    BY <1>1, FS_Interval
  <2>2. P \in SUBSET (1 .. L) /\ Q \in SUBSET (1 .. L - 1)
    BY <1>1, <1>2
  <2> HIDE DEF P, Q, L
  <2> QED
    BY <2>1, <2>2, FS_Subset, FS_CardinalityType
<1>4. ExistsBijection(Q, R)
  <2> HIDE DEF L, t
  <2>1. \A i \in Q : i \in 1 .. L - 1 /\ s[i + 1] = n
    BY <1>1, <1>2
  <2>2. \A j \in R : j \in 2 .. L /\ s[j] = n
    BY <1>1
  <2>3. f \in [Q -> R]
    BY <2>1, <1>1
  <2>4. f \in Injection(Q, R)
    BY <2>1, <2>3 DEF Injection, IsInjective
  <2>5. \A j \in R : j - 1 \in Q /\ f[j - 1] = j
    BY <2>2, <1>1, <1>2
  <2>6. f \in Surjection(Q, R)
    BY <2>3, <2>5 DEF Surjection
  <2> QED
    BY <2>4, <2>6 DEF ExistsBijection, Bijection
<1>5. 1 \in P <=> Head(s) = n
  BY <1>1
<1>6. Occurrences(s, n) = Cardinality(P) /\ Occurrences(t, n) = Cardinality(Q)
  BY DEF Occurrences
<1> HIDE DEF L, t, P, Q, f
<1>7. Cardinality(R) = IF 1 \in P THEN Cardinality(P) - 1 ELSE Cardinality(P)
  BY <1>3, FS_RemoveElement
<1>8. Cardinality(R) = Cardinality(Q)
  BY <1>3, <1>4, FS_Bijection
<1>9. Occurrences(t, n) = Occurrences(s, n) - IF Head(s) = n THEN 1 ELSE 0
  BY <1>3, <1>5, <1>6, <1>7, <1>8
<1> QED
  BY <1>9 DEF t

(* The loggers that hold an item, when at most task t takes or leaves one. *)
LEMMA HoldersStep ==
    ASSUME NEW t \in Slots, NEW r, NEW n, role' = role,
           \A u \in Slots : u # t => local'[u].message = local[u].message
    PROVE  /\ Holders(r, n) \in Nat /\ Holders(r, n)' \in Nat
           /\ \/ role[t] # r
              \/ (local'[t].message = n) <=> (local[t].message = n)
              => Holders(r, n)' = Holders(r, n)
           /\ role[t] = r /\ local[t].message # n /\ local'[t].message = n
              => Holders(r, n)' = Holders(r, n) + 1
           /\ role[t] = r /\ local[t].message = n /\ local'[t].message # n
              => Holders(r, n)' = Holders(r, n) - 1
<1> DEFINE P == {u \in Slots : Is(u, r) /\ local[u].message = n}
           Q == {u \in Slots : Is(u, r)' /\ local'[u].message = n}
<1>1. P \in SUBSET Slots /\ Q \in SUBSET Slots
  OBVIOUS
<1>2. Holders(r, n) = Cardinality(P) /\ Holders(r, n)' = Cardinality(Q)
  BY DEF Holders
<1>3. /\ \/ role[t] # r
         \/ (local'[t].message = n) <=> (local[t].message = n)
         => Q = P
      /\ role[t] = r /\ local[t].message # n /\ local'[t].message = n
         => Q = P \cup {t} /\ t \notin P
      /\ role[t] = r /\ local[t].message = n /\ local'[t].message # n
         => Q = P \ {t} /\ t \in P
  BY DEF Is
<1> HIDE DEF P, Q
<1>4. /\ Cardinality(P) \in Nat /\ Cardinality(Q) \in Nat
      /\ t \notin P => Cardinality(P \cup {t}) = Cardinality(P) + 1
      /\ t \in P => Cardinality(P \ {t}) = Cardinality(P) - 1
  BY <1>1, TaskSetCard
<1> QED
  BY <1>2, <1>3, <1>4

-----------------------------------------------------------------------------
(* The showcase.  The statements of each task function. *)
StatementsOf(r) ==
    IF r = "led_task" THEN {"begin", "led"}
    ELSE IF r = "heartbeat_task" THEN {"begin", "publish", "sleep"}
    ELSE IF r = "load_task" THEN {"load"}
    ELSE {"dequeue", "take", "row", "delay"}

QueueNames == {"shared", "button"}

(* The events that were copied to queue q, or dropped, so far. *)
Copied(q) ==
    1 .. (IF isr = "button" \/ (q = "shared" /\ isr = "shared") THEN button_sequence - 1
          ELSE button_sequence)

Printer(q) == IF q = "shared" THEN "logger_task" ELSE "button_logger_task"

Sent(q) == IF q = "shared" THEN Shared!Contents ELSE Button!Contents

ShowcaseTypes ==
    /\ Ring(shared, SharedCapacity, Cells) /\ shared_call \in [Slots -> Calls]
    /\ Ring(button, ButtonCapacity, Cells) /\ button_call \in [Slots -> Calls]
    /\ role \in [Slots -> DOMAIN FirstStatement]
    /\ local \in [Slots -> [message : Messages \cup {NULL}, next_tick : Ticks, pulse : Nat \ {0}]]
    /\ printed \in [QueueNames -> [ButtonEvents -> Nat]]
    /\ dropped \in [QueueNames -> SUBSET ButtonEvents]

(* A task is in its own function, and a logger that is about to receive a  *)
(* message, or waits for one, has none in its hands.                       *)
LoggersInv ==
    \A t \in Slots :
        /\ at[t] \in StatementsOf(role[t])
        /\ pc[t] \in ReceiveLocs => at[t] = "take" /\ local[t].message = NULL
        /\ at[t] \in {"dequeue", "delay"} => local[t].message = NULL

IsrInv ==
    /\ isr \in {"idle", "button", "shared"}
    /\ button_sequence \in 0 .. MaxPresses
    /\ isr # "idle" => button_sequence > 0

(* Where event n of queue q is. *)
Accounted(q, n) ==
    Occurrences(Sent(q), n) + Holders(Printer(q), n) + printed[q][n]
        = IF n \in Copied(q) \ dropped[q] THEN 1 ELSE 0

EventsInv ==
    /\ LoggersInv
    /\ IsrInv
    /\ \A q \in QueueNames : /\ dropped[q] \subseteq Copied(q)
                             /\ \A n \in ButtonEvents : Accounted(q, n)

(* Every event is accounted for. *)
LEMMA EventsFollow ==
    ASSUME ShowcaseTypes, EventsInv
    PROVE  EventsAccountedFor
<1> SUFFICES ASSUME isr = "idle", NEW n \in 1 .. button_sequence
             PROVE  /\ Occurrences(Shared!Contents, n) + Holders("logger_task", n)
                       + printed["shared"][n] = IF n \in dropped["shared"] THEN 0 ELSE 1
                    /\ Occurrences(Button!Contents, n) + Holders("button_logger_task", n)
                       + printed["button"][n] = IF n \in dropped["button"] THEN 0 ELSE 1
  BY DEF EventsAccountedFor
<1>1. n \in ButtonEvents
  BY ShowcaseFacts DEF EventsInv, IsrInv, ButtonEvents
<1>2. Accounted("shared", n) /\ Accounted("button", n)
  BY <1>1 DEF EventsInv, QueueNames
<1>3. n \in Copied("shared") /\ n \in Copied("button")
  BY DEF Copied
<1> QED
  BY <1>2, <1>3 DEF Accounted, Sent, Printer

(* Steps that leave the events where they are. *)
LEMMA EventsKept ==
    ASSUME EventsInv, role' = role, UNCHANGED isrVars, UNCHANGED histVars,
           \A u \in Slots : local'[u].message = local[u].message,
           \A q \in QueueNames, n \in ButtonEvents : Occurrences(Sent(q), n)' = Occurrences(Sent(q), n),
           \A u \in Slots :
              /\ at'[u] \in StatementsOf(role[u])
              /\ pc'[u] \in ReceiveLocs => pc[u] \in ReceiveLocs /\ at'[u] = at[u]
              /\ at'[u] \in {"dequeue", "delay"} => at[u] \in {"dequeue", "delay"}
    PROVE  EventsInv'
<1>1. isr' = isr /\ button_sequence' = button_sequence /\ printed' = printed /\ dropped' = dropped
  BY DEF isrVars, histVars
<1>2. LoggersInv'
  BY DEF EventsInv, LoggersInv
<1>3. IsrInv'
  BY <1>1 DEF EventsInv, IsrInv
<1>4. ASSUME NEW q \in QueueNames
      PROVE  dropped'[q] \subseteq Copied(q)' /\ \A n \in ButtonEvents : Accounted(q, n)'
  <2>1. Copied(q)' = Copied(q)
    BY <1>1 DEF Copied
  <2>2. ASSUME NEW n \in ButtonEvents PROVE Accounted(q, n)'
    <3>1. 0 \in Slots
      BY KernelFacts DEF Slots
    <3>2. ASSUME NEW r PROVE Holders(r, n)' = Holders(r, n)
      BY <3>1, HoldersStep
    <3>3. Holders(Printer(q), n)' = Holders(Printer(q), n)
      BY <3>2 DEF Printer
    <3>4. Accounted(q, n) /\ Occurrences(Sent(q), n)' = Occurrences(Sent(q), n)
      BY DEF EventsInv
    <3> QED
      BY <3>3, <3>4, <2>1, <1>1 DEF Accounted
  <2> QED
    BY <2>1, <2>2, <1>1 DEF EventsInv
<1> QED
  BY <1>2, <1>3, <1>4 DEF EventsInv

(* A task goes from one of its statements to another, or stays in one. *)
Allowed(t, to) ==
    /\ to \in StatementsOf(role[t])
    /\ to \in {"dequeue", "delay"} => at[t] \in {"dequeue", "delay"}

LEMMA QuietStep ==
    ASSUME SemPart, ConsoleTypeOK, EventsInv, role' = role, UNCHANGED isrVars, UNCHANGED histVars,
           \A u \in Slots : local'[u].message = local[u].message,
           \A q \in QueueNames, n \in ButtonEvents : Occurrences(Sent(q), n)' = Occurrences(Sent(q), n),
           NEW t \in Slots,
           pc' = pc \/ \E loc \in Places \ ReceiveLocs : pc' = [pc EXCEPT ![t] = loc],
           at' = at \/ \E from, to \in Statements : Statement(t, from, to) /\ Allowed(t, to)
    PROVE  EventsInv'
<1>1. pc \in [Threads -> Places] /\ Slots \subseteq Threads /\ at \in [Slots -> Statements]
      /\ LoggersInv
  BY DEF SemPart, SemTypeOK, Threads, ConsoleTypeOK, EventsInv
<1>2. \A u \in Slots : pc'[u] \in ReceiveLocs => pc[u] \in ReceiveLocs
  BY <1>1
<1>3. \A u \in Slots :
         /\ at'[u] \in StatementsOf(role[u])
         /\ pc'[u] \in ReceiveLocs => pc[u] \in ReceiveLocs /\ at'[u] = at[u]
         /\ at'[u] \in {"dequeue", "delay"} => at[u] \in {"dequeue", "delay"}
  <2>1. CASE at' = at
    BY <2>1, <1>1, <1>2 DEF LoggersInv
  <2>2. ASSUME NEW from \in Statements, NEW to \in Statements, Statement(t, from, to), Allowed(t, to)
        PROVE  \A u \in Slots :
                  /\ at'[u] \in StatementsOf(role[u])
                  /\ pc'[u] \in ReceiveLocs => pc[u] \in ReceiveLocs /\ at'[u] = at[u]
                  /\ at'[u] \in {"dequeue", "delay"} => at[u] \in {"dequeue", "delay"}
    <3>1. /\ at'[t] = to /\ pc[t] = "app" /\ \A u \in Slots : u # t => at'[u] = at[u]
      BY <2>2, <1>1 DEF Statement, At
    <3>2. pc[t] \notin ReceiveLocs
      BY <3>1 DEF ReceiveLocs
    <3> QED
      BY <3>1, <3>2, <2>2, <1>1, <1>2 DEF LoggersInv, Allowed
  <2> QED
    BY <2>1, <2>2
<1> QED
  BY <1>3, EventsKept

(* What holds in the showcase. *)
ShowInv == SemPart /\ ConsoleInv /\ ShowcaseTypes /\ EventsInv

(* The items in a queue after a step. *)
LEMMA SentStep ==
    ASSUME NEW n, NEW s
    PROVE  /\ (Shared!Contents)' = s => Occurrences(Sent("shared"), n)' = Occurrences(s, n)
           /\ (Button!Contents)' = s => Occurrences(Sent("button"), n)' = Occurrences(s, n)
           /\ Occurrences(Sent("shared"), n) = Occurrences(Shared!Contents, n)
           /\ Occurrences(Sent("button"), n) = Occurrences(Button!Contents, n)
<1>1. Occurrences(Sent("shared"), n)' = Occurrences(Shared!Contents, n)'
  BY DEF Sent, Occurrences
<1>2. Occurrences(Sent("button"), n)' = Occurrences(Button!Contents, n)'
  BY DEF Sent, Occurrences
<1>3. (Shared!Contents)' = s => Occurrences(Shared!Contents, n)' = Occurrences(s, n)
  BY DEF Occurrences
<1>4. (Button!Contents)' = s => Occurrences(Button!Contents, n)' = Occurrences(s, n)
  BY DEF Occurrences
<1>5. Sent("shared") = Shared!Contents /\ Sent("button") = Button!Contents
  BY DEF Sent
<1> QED
  BY <1>1, <1>2, <1>3, <1>4, <1>5

LEMMA SharedStays ==
    ASSUME ShowcaseTypes, shared' = shared
    PROVE  /\ Ring(shared', SharedCapacity, Cells) /\ (Shared!Contents)' = Shared!Contents
           /\ \A n : Occurrences(Sent("shared"), n)' = Occurrences(Sent("shared"), n)
<1>1. Ring(shared, SharedCapacity, Cells)
  BY DEF ShowcaseTypes
<1>2. (Shared!Contents)' = Shared!Contents
  BY DEF Shared!Contents
<1>3. Ring(shared', SharedCapacity, Cells)
  BY <1>1
<1> QED
  BY <1>2, <1>3, SentStep

LEMMA ButtonStays ==
    ASSUME ShowcaseTypes, button' = button
    PROVE  /\ Ring(button', ButtonCapacity, Cells) /\ (Button!Contents)' = Button!Contents
           /\ \A n : Occurrences(Sent("button"), n)' = Occurrences(Sent("button"), n)
<1>1. Ring(button, ButtonCapacity, Cells)
  BY DEF ShowcaseTypes
<1>2. (Button!Contents)' = Button!Contents
  BY DEF Button!Contents
<1>3. Ring(button', ButtonCapacity, Cells)
  BY <1>1
<1> QED
  BY <1>2, <1>3, SentStep

LEMMA QueuesStay ==
    ASSUME ShowcaseTypes, UNCHANGED queueVars
    PROVE  /\ Ring(shared', SharedCapacity, Cells) /\ shared_call' \in [Slots -> Calls]
           /\ Ring(button', ButtonCapacity, Cells) /\ button_call' \in [Slots -> Calls]
           /\ \A q \in QueueNames, n \in ButtonEvents :
                 Occurrences(Sent(q), n)' = Occurrences(Sent(q), n)
<1>1. shared' = shared /\ shared_call' = shared_call /\ button' = button /\ button_call' = button_call
  BY DEF queueVars, sharedVars, buttonVars
<1>2. \A q \in QueueNames : q = "shared" \/ q = "button"
  BY DEF QueueNames
<1>3. shared_call' \in [Slots -> Calls] /\ button_call' \in [Slots -> Calls]
  BY <1>1 DEF ShowcaseTypes
<1>4. ASSUME NEW q \in QueueNames, NEW n \in ButtonEvents
      PROVE  Occurrences(Sent(q), n)' = Occurrences(Sent(q), n)
  <2>1. CASE q = "shared"
    BY <2>1, <1>1, SharedStays
  <2>2. CASE q = "button"
    BY <2>2, <1>1, ButtonStays
  <2> QED
    BY <2>1, <2>2, <1>2
<1> QED
  BY <1>1, <1>3, <1>4, SharedStays, ButtonStays

(* Steps in which the demo has no part. *)
LEMMA DemoStays ==
    ASSUME ShowcaseTypes, UNCHANGED demoVars
    PROVE  /\ ShowcaseTypes' /\ role' = role /\ local' = local
           /\ UNCHANGED isrVars /\ UNCHANGED histVars /\ UNCHANGED queueVars
           /\ \A q \in QueueNames, n \in ButtonEvents :
                 Occurrences(Sent(q), n)' = Occurrences(Sent(q), n)
<1>1. /\ role' = role /\ local' = local
      /\ UNCHANGED isrVars /\ UNCHANGED histVars /\ UNCHANGED queueVars
  BY DEF demoVars
<1>2. printed' = printed /\ dropped' = dropped
  BY <1>1 DEF histVars
<1> QED
  BY <1>1, <1>2, QueuesStay DEF ShowcaseTypes

(* A task step that leaves the histories and the messages alone. *)
LEMMA QuietTask ==
    ASSUME ShowInv, SemPart', ConsoleInv', NEW t \in Slots,
           UNCHANGED demoVars,
           pc' = pc \/ \E loc \in Places \ ReceiveLocs : pc' = [pc EXCEPT ![t] = loc],
           at' = at \/ \E from, to \in Statements : Statement(t, from, to) /\ Allowed(t, to)
    PROVE  ShowInv'
<1>1. ConsoleTypeOK /\ SemPart /\ EventsInv /\ ShowcaseTypes
  BY DEF ShowInv, ConsoleInv
<1>2. /\ ShowcaseTypes' /\ role' = role /\ local' = local
      /\ UNCHANGED isrVars /\ UNCHANGED histVars
      /\ \A q \in QueueNames, n \in ButtonEvents :
            Occurrences(Sent(q), n)' = Occurrences(Sent(q), n)
  BY <1>1, DemoStays
<1>3. EventsInv'
  BY <1>1, <1>2, QuietStep
<1> QED
  BY <1>2, <1>3 DEF ShowInv

LocalsOf(x) == x \in [Slots -> [message : Messages \cup {NULL}, next_tick : Ticks, pulse : Nat \ {0}]]

SameMessages == \A u \in Slots : local'[u].message = local[u].message

(* The same, of a task that keeps the time in its locals. *)
LEMMA ClockTask ==
    ASSUME ShowInv, SemPart', TakersStay, UNCHANGED semVars, UNCHANGED consoleVars, NEW t \in Slots,
           role' = role, UNCHANGED queueVars, UNCHANGED isrVars, UNCHANGED histVars,
           LocalsOf(local'), SameMessages,
           pc' = pc \/ \E loc \in Places \ ReceiveLocs : pc' = [pc EXCEPT ![t] = loc],
           NEW from \in Statements \ {"row"}, NEW to \in Statements \ {"row"},
           Statement(t, from, to), to \in StatementsOf(role[t]), to \notin {"dequeue", "delay"}
    PROVE  ShowInv'
<1>1. ConsoleInv /\ ConsoleTypeOK /\ SemPart /\ EventsInv /\ ShowcaseTypes
  BY DEF ShowInv, ConsoleInv
<1>2. ConsoleInv'
  BY <1>1, StatementKeeps
<1>3. /\ Ring(shared', SharedCapacity, Cells) /\ shared_call' \in [Slots -> Calls]
      /\ Ring(button', ButtonCapacity, Cells) /\ button_call' \in [Slots -> Calls]
      /\ \A q \in QueueNames, n \in ButtonEvents :
            Occurrences(Sent(q), n)' = Occurrences(Sent(q), n)
  BY <1>1, QueuesStay
<1>4. /\ local' \in [Slots -> [message : Messages \cup {NULL}, next_tick : Ticks, pulse : Nat \ {0}]]
      /\ \A u \in Slots : local'[u].message = local[u].message
  BY DEF LocalsOf, SameMessages
<1>5. ShowcaseTypes'
  <2>1. printed' = printed /\ dropped' = dropped
    BY DEF histVars
  <2> QED
    BY <1>1, <1>3, <1>4, <2>1 DEF ShowcaseTypes
<1>6. \E f, g \in Statements : Statement(t, f, g) /\ Allowed(t, g)
  BY DEF Allowed
<1>7. EventsInv'
  BY <1>1, <1>3, <1>4, <1>6, QuietStep
<1> QED
  BY <1>2, <1>5, <1>7 DEF ShowInv

LEMMA ClockLocals ==
    ASSUME ShowcaseTypes, NEW t \in Slots, NEW x \in Ticks, NEW y \in Nat \ {0},
           \/ local' = [local EXCEPT ![t].next_tick = x]
           \/ local' = [local EXCEPT ![t].pulse = y]
           \/ local' = [local EXCEPT ![t].pulse = y, ![t].next_tick = x]
    PROVE  LocalsOf(local') /\ SameMessages
<1>1. local \in [Slots -> [message : Messages \cup {NULL}, next_tick : Ticks, pulse : Nat \ {0}]]
  BY DEF ShowcaseTypes
<1> HIDE DEF Messages, Ticks
<1>2. CASE local' = [local EXCEPT ![t].next_tick = x]
  BY <1>1, <1>2 DEF LocalsOf, SameMessages
<1>3. CASE local' = [local EXCEPT ![t].pulse = y]
  BY <1>1, <1>3 DEF LocalsOf, SameMessages
<1>4. CASE local' = [local EXCEPT ![t].pulse = y, ![t].next_tick = x]
  <2> DEFINE f == [local EXCEPT ![t].pulse = y]
  <2>1. LocalsOf(f) /\ \A u \in Slots : f[u].message = local[u].message
    BY <1>1 DEF LocalsOf
  <2>2. local' = [f EXCEPT ![t].next_tick = x]
    BY <1>1, <1>4
  <2> HIDE DEF f
  <2>3. LocalsOf(local') /\ \A u \in Slots : local'[u].message = f[u].message
    BY <2>1, <2>2 DEF LocalsOf
  <2> QED
    BY <2>1, <2>3 DEF SameMessages
<1> QED
  BY <1>2, <1>3, <1>4

LEMMA BeginKeeps ==
    ASSUME ShowInv, NEW t \in Slots, Begin(t)
    PROVE  ShowInv'
<1>1. SemPart /\ ShowcaseTypes /\ kern.ticks \in Ticks
  BY DEF ShowInv, SemPart, CoreInv, KInv, KernelType
<1> DEFINE to == IF Is(t, "led_task") THEN "led" ELSE "publish"
<1>2. Statement(t, "begin", to) /\ local' = [local EXCEPT ![t].next_tick = kern.ticks]
      /\ UNCHANGED semSpecVars /\ UNCHANGED consoleVars /\ role' = role
      /\ UNCHANGED queueVars /\ UNCHANGED isrVars /\ UNCHANGED histVars
  BY DEF Begin
<1>3. to \in StatementsOf(role[t]) /\ to \notin {"dequeue", "delay"}
      /\ "begin" \in Statements \ {"row"} /\ to \in Statements \ {"row"}
  <2>1. at[t] = "begin" /\ at[t] \in StatementsOf(role[t])
    BY <1>2 DEF Statement, ShowInv, EventsInv, LoggersInv
  <2>2. role[t] \in {"led_task", "heartbeat_task"}
    BY <2>1 DEF StatementsOf
  <2> QED
    BY <2>2 DEF Is, StatementsOf, Statements
<1>4. SemPart' /\ TakersStay /\ UNCHANGED semVars /\ pc' = pc
  BY <1>1, <1>2, NoCallKeeps DEF semSpecVars, schedVars
<1> HIDE DEF to
<1>5. LocalsOf(local') /\ SameMessages
  <2>1. 1 \in Nat \ {0}
    OBVIOUS
  <2> QED
    BY <2>1, <1>1, <1>2, ClockLocals
<1> QED
  BY <1>1, <1>2, <1>3, <1>4, <1>5, ClockTask

LEMMA WaitMoves ==
    ASSUME NEW t \in Slots, NEW n \in Ticks, artos_wait(t, n) \/ artos_wait_until(t, n)
    PROVE  pc' = pc \/ \E loc \in Places \ ReceiveLocs : pc' = [pc EXCEPT ![t] = loc]
<1>1. pc' = [pc EXCEPT ![t] = "switch"]
  BY DEF artos_wait, artos_wait_until, GoTo
<1> QED
  BY <1>1 DEF Places, ReceiveLocs

LEMMA LedKeeps ==
    ASSUME ShowInv, NEW t \in Slots, led_task(t)
    PROVE  ShowInv'
<1> DEFINE p == local[t].pulse
           next == (local[t].next_tick + LedPeriod) % TickMod
<1>1. SemPart /\ ShowcaseTypes /\ p \in Nat \ {0} /\ local[t].next_tick \in Ticks
  BY DEF ShowInv, ShowcaseTypes
<1>2. next \in Ticks /\ LedWaits \in Seq(Ticks) /\ 0 \in Ticks
  BY <1>1, WakeTick, ShowcaseFacts, ShowcaseAssumption
<1>3. /\ Statement(t, "led", "led") /\ UNCHANGED semVars /\ UNCHANGED consoleVars /\ role' = role
      /\ UNCHANGED queueVars /\ UNCHANGED isrVars /\ UNCHANGED histVars
      /\ "led" \in StatementsOf(role[t]) /\ "led" \in Statements \ {"row"}
  BY DEF led_task, Is, StatementsOf, Statements
<1>4. \/ /\ p <= Len(LedWaits) /\ artos_wait(t, LedWaits[p])
         /\ local' = [local EXCEPT ![t].pulse = p + 1]
      \/ /\ artos_wait_until(t, next)
         /\ local' = [local EXCEPT ![t].pulse = 1, ![t].next_tick = next]
  BY DEF led_task
<1>5. p <= Len(LedWaits) => LedWaits[p] \in Ticks
  BY <1>1, <1>2
<1>6. \E n \in Ticks : artos_wait(t, n) \/ artos_wait_until(t, n)
  BY <1>2, <1>4, <1>5
<1>7. /\ SemPart' /\ TakersStay
      /\ pc' = pc \/ \E loc \in Places \ ReceiveLocs : pc' = [pc EXCEPT ![t] = loc]
  BY <1>1, <1>3, <1>6, WaitKeeps, WaitMoves
<1>8. LocalsOf(local') /\ SameMessages
  <2>1. 1 \in Nat \ {0} /\ p + 1 \in Nat \ {0}
    BY <1>1
  <2> HIDE DEF p, next
  <2>2. CASE local' = [local EXCEPT ![t].pulse = p + 1]
    BY <2>1, <2>2, <1>1, <1>2, ClockLocals
  <2>3. CASE local' = [local EXCEPT ![t].pulse = 1, ![t].next_tick = next]
    BY <2>1, <2>3, <1>1, <1>2, ClockLocals
  <2> QED
    BY <2>2, <2>3, <1>4
<1> QED
  BY <1>3, <1>7, <1>8, ClockTask

LEMMA SleepKeeps ==
    ASSUME ShowInv, NEW t \in Slots, Sleep(t)
    PROVE  ShowInv'
<1> DEFINE next == (local[t].next_tick + HeartbeatInterval) % TickMod
<1>1. SemPart /\ ShowcaseTypes /\ local[t].next_tick \in Ticks
  BY DEF ShowInv, ShowcaseTypes
<1>2. next \in Ticks /\ 1 \in Nat \ {0}
  BY <1>1, WakeTick, ShowcaseFacts
<1>3. /\ Statement(t, "sleep", "publish") /\ artos_wait_until(t, next)
      /\ local' = [local EXCEPT ![t].next_tick = next]
      /\ UNCHANGED semVars /\ UNCHANGED consoleVars /\ role' = role
      /\ UNCHANGED queueVars /\ UNCHANGED isrVars /\ UNCHANGED histVars
  BY DEF Sleep
<1>4. "publish" \in StatementsOf(role[t]) /\ {"sleep", "publish"} \subseteq Statements \ {"row"}
  <2>1. at[t] = "sleep" /\ at[t] \in StatementsOf(role[t])
    BY <1>3 DEF Statement, ShowInv, EventsInv, LoggersInv
  <2> QED
    BY <2>1 DEF StatementsOf, Statements
<1> HIDE DEF next
<1>5. /\ SemPart' /\ TakersStay
      /\ pc' = pc \/ \E loc \in Places \ ReceiveLocs : pc' = [pc EXCEPT ![t] = loc]
  BY <1>1, <1>2, <1>3, WaitKeeps, WaitMoves
<1>6. LocalsOf(local') /\ SameMessages
  BY <1>1, <1>2, <1>3, ClockLocals
<1> QED
  BY <1>3, <1>4, <1>5, <1>6, ClockTask

LEMMA DelayKeeps ==
    ASSUME ShowInv, NEW t \in Slots, LoggerDelay(t)
    PROVE  ShowInv'
<1>1. PICK n \in ConsumerDelays : artos_wait(t, n)
  BY DEF LoggerDelay
<1>2. n \in Ticks
  BY ShowcaseFacts
<1>3. /\ Statement(t, "delay", "dequeue") /\ UNCHANGED semVars /\ UNCHANGED consoleVars
      /\ UNCHANGED demoVars /\ {"delay", "dequeue"} \subseteq Statements \ {"row"}
  BY DEF LoggerDelay, Statements
<1>4. Allowed(t, "dequeue")
  <2>1. at[t] = "delay" /\ at[t] \in StatementsOf(role[t])
    BY <1>3 DEF Statement, ShowInv, EventsInv, LoggersInv
  <2> QED
    BY <2>1 DEF StatementsOf, Allowed
<1>5. /\ SemPart' /\ TakersStay
      /\ pc' = pc \/ \E loc \in Places \ ReceiveLocs : pc' = [pc EXCEPT ![t] = loc]
  BY <1>1, <1>2, <1>3, WaitKeeps, WaitMoves DEF ShowInv
<1>6. ConsoleInv'
  BY <1>3, <1>5, StatementKeeps DEF ShowInv
<1>7. \E f, g \in Statements : Statement(t, f, g) /\ Allowed(t, g)
  BY <1>3, <1>4
<1> QED
  BY <1>3, <1>5, <1>6, <1>7, QuietTask

LEMMA LoadKeeps ==
    ASSUME ShowInv, NEW t \in Slots, load_task(t)
    PROVE  ShowInv'
<1>1. /\ Statement(t, "load", "load") /\ UNCHANGED semVars /\ UNCHANGED consoleVars
      /\ UNCHANGED demoVars /\ "load" \in Statements \ {"row"} /\ Is(t, "load_task")
      /\ rtos_port_request_context_switch(t, "app", "app")
  BY DEF load_task, Statements, artos_yield
<1>2. Allowed(t, "load")
  BY <1>1 DEF Is, StatementsOf, Allowed
<1>3. SemPart' /\ TakersStay
  BY <1>1, SwitchStep DEF ShowInv
<1>4. \E loc \in Places \ ReceiveLocs : pc' = [pc EXCEPT ![t] = loc]
  BY <1>1 DEF rtos_port_request_context_switch, GoTo, Places, ReceiveLocs
<1>5. ConsoleInv'
  BY <1>1, <1>3, StatementKeeps DEF ShowInv
<1>6. \E f, g \in Statements : Statement(t, f, g) /\ Allowed(t, g)
  BY <1>1, <1>2
<1> QED
  BY <1>1, <1>3, <1>4, <1>5, <1>6, QuietTask

LEMMA TakeUartKeeps ==
    ASSUME ShowInv, NEW t \in Slots, TakeUart(t)
    PROVE  ShowInv'
<1>1. /\ TakeConsole(t, "take") /\ Statement(t, "take", "row") /\ UNCHANGED demoVars
      /\ artos_semaphore_take(t, uart_lock, ARTOS_DELAY_INFINITY)
      /\ "take" \in Statements \ {"row"} /\ "row" \in Statements
  BY DEF TakeUart, TakeConsole, Statements
<1>2. SemPart' /\ ConsoleInv'
  BY <1>1, TakeConsoleKeeps DEF ShowInv
<1>3. Allowed(t, "row")
  <2>1. at[t] = "take" /\ at[t] \in StatementsOf(role[t])
    BY <1>1 DEF Statement, ShowInv, EventsInv, LoggersInv
  <2> QED
    BY <2>1 DEF StatementsOf, Allowed
<1>4. pc' = pc \/ \E loc \in Places \ ReceiveLocs : pc' = [pc EXCEPT ![t] = loc]
  <2>1. pc' = pc \/ pc' = [pc EXCEPT ![t] = "app"] \/ pc' = [pc EXCEPT ![t] = "take_switch"]
    BY <1>1 DEF artos_semaphore_take, GoTo, schedVars
  <2> QED
    BY <2>1 DEF Places, TakeLocs, ReceiveLocs
<1>5. \E f, g \in Statements : Statement(t, f, g) /\ Allowed(t, g)
  BY <1>1, <1>3
<1> QED
  BY <1>1, <1>2, <1>4, <1>5, QuietTask

(* The steps of the UART, and of takes. *)
LEMMA ConsoleCallsKeep ==
    ASSUME ShowInv, NEW t \in Slots, UNCHANGED demoVars,
           \/ PollTXE(t) \/ StoreDR(t)
           \/ (TakeSwitch(t) \/ TakeReturn(t)) /\ UNCHANGED <<consoleVars, at>>
    PROVE  ShowInv'
<1>1. SemPart' /\ ConsoleInv'
  BY ConsoleCalls DEF ShowInv
<1>2. pc' = pc \/ \E loc \in Places \ ReceiveLocs : pc' = [pc EXCEPT ![t] = loc]
  <2>1. pc' = pc \/ pc' = [pc EXCEPT ![t] = "app"] \/ pc' = [pc EXCEPT ![t] = "take_woken"]
    BY DEF PollTXE, StoreDR, TakeSwitch, TakeReturn, rtos_port_request_context_switch, GoTo, schedVars
  <2> QED
    BY <2>1 DEF Places, TakeLocs, ReceiveLocs
<1>3. at' = at
  <2>1. CASE UNCHANGED <<consoleVars, at>>
    BY <2>1
  <2>2. CASE PollTXE(t) \/ StoreDR(t)
    <3>1. Statement(t, "row", "row") /\ at \in [Slots -> Statements]
      BY <2>2 DEF PollTXE, StoreDR, ShowInv, ConsoleInv, ConsoleTypeOK
    <3> QED
      BY <3>1 DEF Statement
  <2> QED
    BY <2>1, <2>2
<1> QED
  BY <1>1, <1>2, <1>3, QuietTask

(* The kernel's own steps: those of exceptions and requests for a switch. *)
LEMMA KernelStepKeeps ==
    ASSUME ShowInv, SemPart', TakersStay, UNCHANGED semVars, UNCHANGED <<consoleVars, at>>,
           UNCHANGED demoVars, \A u \in Slots : pc'[u] \in ReceiveLocs => pc[u] \in ReceiveLocs
    PROVE  ShowInv'
<1>1. ConsoleInv /\ SemPart /\ EventsInv /\ ShowcaseTypes /\ LoggersInv /\ at' = at
  BY DEF ShowInv, EventsInv
<1>2. ConsoleInv'
  BY <1>1, OtherStepKeeps
<1>3. /\ ShowcaseTypes' /\ role' = role /\ local' = local
      /\ UNCHANGED isrVars /\ UNCHANGED histVars
      /\ \A q \in QueueNames, n \in ButtonEvents :
            Occurrences(Sent(q), n)' = Occurrences(Sent(q), n)
  BY <1>1, DemoStays
<1>4. EventsInv'
  BY <1>1, <1>3, EventsKept DEF LoggersInv
<1> QED
  BY <1>2, <1>3, <1>4 DEF ShowInv

LEMMA SwitchStepKeeps ==
    ASSUME ShowInv, NEW t \in Slots,
           \/ Switch(t)
           \/ rtos_port_request_context_switch(t, "dequeue_switch", "dequeue_woken"),
           UNCHANGED <<semVars, consoleVars, at, demoVars>>
    PROVE  ShowInv'
<1>1. UNCHANGED semVars /\ UNCHANGED <<consoleVars, at>> /\ UNCHANGED demoVars
  OBVIOUS
<1>2. SemPart /\ pc \in [Threads -> Places] /\ t \in Threads /\ Slots \subseteq Threads
  BY DEF ShowInv, SemPart, SemTypeOK, Threads
<1>3. CASE Switch(t)
  <2>1. SemPart' /\ TakersStay
    BY <1>1, <1>2, <1>3, SwitchStep DEF Switch
  <2>2. pc' = [pc EXCEPT ![t] = "app"]
    BY <1>3 DEF Switch, rtos_port_request_context_switch, GoTo
  <2>3. \A u \in Slots : pc'[u] \in ReceiveLocs => pc[u] \in ReceiveLocs
    BY <2>2, <1>2 DEF ReceiveLocs
  <2> QED
    BY <2>1, <2>3, <1>1, KernelStepKeeps
<1>4. CASE rtos_port_request_context_switch(t, "dequeue_switch", "dequeue_woken")
  <2>1. SemPart' /\ TakersStay
    BY <1>1, <1>2, <1>4, SwitchStep
  <2>2. pc' = [pc EXCEPT ![t] = "dequeue_woken"] /\ pc[t] = "dequeue_switch"
    BY <1>4 DEF rtos_port_request_context_switch, GoTo, At
  <2>3. \A u \in Slots : pc'[u] \in ReceiveLocs => pc[u] \in ReceiveLocs
    BY <2>2, <1>2 DEF ReceiveLocs
  <2> QED
    BY <2>1, <2>3, <1>1, KernelStepKeeps
<1>5. Switch(t) \/ rtos_port_request_context_switch(t, "dequeue_switch", "dequeue_woken")
  OBVIOUS
<1> QED
  BY <1>3, <1>4, <1>5

LEMMA ExceptionStepKeeps ==
    ASSUME ShowInv, SysTick \/ PendSVEnter \/ PendSVSwitch,
           UNCHANGED <<semVars, consoleVars, at, demoVars>>
    PROVE  ShowInv'
<1>1. UNCHANGED semVars /\ UNCHANGED <<consoleVars, at>> /\ UNCHANGED demoVars
  OBVIOUS
<1>2. pc' = pc
  BY DEF SysTick, SysTickEnter, SysTickWake, SysTickExitCritical, SysTickCheck, PendSVEnter,
         PendSVSwitch
<1>3. SemPart' /\ TakersStay
  BY <1>1, ExceptionKeeps DEF ShowInv
<1> QED
  BY <1>1, <1>2, <1>3, KernelStepKeeps

LEMMA TransmitStepKeeps ==
    ASSUME ShowInv, Transmit, UNCHANGED demoVars
    PROVE  ShowInv'
<1>1. ConsoleInv /\ SemPart /\ EventsInv /\ ShowcaseTypes /\ LoggersInv
  BY DEF ShowInv, EventsInv
<1>2. SemPart' /\ ConsoleInv'
  BY <1>1, TransmitKeeps
<1>3. /\ ShowcaseTypes' /\ role' = role /\ local' = local
      /\ UNCHANGED isrVars /\ UNCHANGED histVars
      /\ \A q \in QueueNames, n \in ButtonEvents :
            Occurrences(Sent(q), n)' = Occurrences(Sent(q), n)
  BY <1>1, DemoStays
<1>4. pc' = pc /\ at' = at
  BY DEF Transmit, schedVars
<1>5. EventsInv'
  BY <1>1, <1>3, <1>4, EventsKept DEF LoggersInv
<1> QED
  BY <1>2, <1>3, <1>5 DEF ShowInv

(* heartbeat_task sends no button event. *)
LEMMA PublishKeeps ==
    ASSUME ShowInv, NEW t \in Slots, Publish(t)
    PROVE  ShowInv'
<1>1. /\ Statement(t, "publish", "sleep") /\ Shared!artos_queue_enqueue(t, Heartbeat, 0)
      /\ UNCHANGED semVars /\ UNCHANGED consoleVars /\ role' = role /\ button' = button
      /\ button_call' = button_call /\ local' = local
      /\ UNCHANGED isrVars /\ UNCHANGED histVars
      /\ {"publish", "sleep"} \subseteq Statements \ {"row"}
  BY DEF Publish, buttonVars, Statements
<1>2. ConsoleInv /\ ConsoleTypeOK /\ SemPart /\ EventsInv /\ ShowcaseTypes
      /\ Ring(shared, SharedCapacity, Cells) /\ shared_call \in [Slots -> Calls]
  BY DEF ShowInv, ConsoleInv, ShowcaseTypes
<1>3. Heartbeat \in Messages /\ 0 \in Ticks
  BY ShowcaseFacts DEF Messages
<1>4. /\ SemPart' /\ TakersStay /\ Moves(t, {"app", "switch", "enqueue_switch"})
      /\ Ring(shared', SharedCapacity, Cells) /\ shared_call' \in [Slots -> Calls]
      /\ \/ (Shared!Contents)' = Shared!Contents
         \/ (Shared!Contents)' = Append(Shared!Contents, Heartbeat)
  BY <1>1, <1>2, <1>3, SharedSend
<1>5. ConsoleInv'
  BY <1>1, <1>2, <1>4, StatementKeeps
<1>6. ShowcaseTypes'
  BY <1>1, <1>2, <1>4, ButtonStays DEF ShowcaseTypes, histVars
<1>7. ASSUME NEW q \in QueueNames, NEW n \in ButtonEvents
      PROVE  Occurrences(Sent(q), n)' = Occurrences(Sent(q), n)
  <2>1. CASE q = "button"
    BY <2>1, <1>1, <1>2, ButtonStays
  <2>2. CASE q = "shared"
    <3>1. Shared!Contents \in Seq(Messages \cup {NULL}) /\ Heartbeat \in Messages \cup {NULL}
      BY <1>2, <1>3, SharedRing
    <3>2. Heartbeat # n
      BY DEF Heartbeat, ButtonEvents
    <3>3. Occurrences(Append(Shared!Contents, Heartbeat), n) = Occurrences(Shared!Contents, n)
      BY <3>1, <3>2, OccurrencesAppend
    <3> QED
      BY <3>3, <2>2, <1>4, SentStep
  <2> QED
    BY <2>1, <2>2 DEF QueueNames
<1>8. \A u \in Slots :
         /\ at'[u] \in StatementsOf(role[u])
         /\ pc'[u] \in ReceiveLocs => pc[u] \in ReceiveLocs /\ at'[u] = at[u]
         /\ at'[u] \in {"dequeue", "delay"} => at[u] \in {"dequeue", "delay"}
  <2>1. /\ LoggersInv /\ at[t] = "publish" /\ at'[t] = "sleep"
        /\ \A u \in Slots : u # t => at'[u] = at[u] /\ pc'[u] = pc[u]
        /\ pc'[t] \in {"app", "switch", "enqueue_switch"}
    BY <1>1, <1>2, <1>4, StatementMoves DEF EventsInv, Moves
  <2>2. "sleep" \in StatementsOf(role[t])
    BY <2>1 DEF LoggersInv, StatementsOf
  <2> QED
    BY <2>1, <2>2 DEF LoggersInv, ReceiveLocs
<1>9. EventsInv'
  BY <1>1, <1>2, <1>7, <1>8, EventsKept
<1> QED
  BY <1>4, <1>5, <1>6, <1>9 DEF ShowInv

LEMMA MessagesNotNull ==
    ASSUME NEW n \in ButtonEvents
    PROVE  n # NULL /\ n \in Messages
BY ShowcaseFacts DEF Messages

(* Only the queue of a logger changes by what the logger does. *)
LEMMA HoldersOthers ==
    ASSUME role' = role, NEW t \in Slots, NEW q \in QueueNames, role[t] = Printer(q),
           \A u \in Slots : u # t => local'[u].message = local[u].message,
           NEW p \in QueueNames, p # q, NEW n
    PROVE  Holders(Printer(p), n)' = Holders(Printer(p), n)
<1>1. role[t] # Printer(p)
  BY DEF QueueNames, Printer
<1> DEFINE r == Printer(p)
<1>2. r \in {"logger_task", "button_logger_task"}
  BY DEF Printer
<1>3. CASE r = "logger_task"
  BY <1>1, <1>3, HoldersStep DEF Printer
<1>4. CASE r = "button_logger_task"
  BY <1>1, <1>4, HoldersStep DEF Printer
<1> QED
  BY <1>2, <1>3, <1>4

(* A logger receives: an item goes from its queue to its hands. *)
LEMMA ReceivedEvents ==
    ASSUME EventsInv, role' = role, UNCHANGED isrVars, UNCHANGED histVars,
           NEW t \in Slots, NEW q \in QueueNames, role[t] = Printer(q), local[t].message = NULL,
           NEW m, local'[t].message = m,
           \A u \in Slots : u # t => /\ local'[u].message = local[u].message
                                     /\ at'[u] = at[u] /\ pc'[u] = pc[u],
           at'[t] = "take", pc'[t] \in ReceiveLocs => m = NULL,
           \A n \in ButtonEvents :
              Occurrences(Sent(q), n)' = Occurrences(Sent(q), n) - IF m = n THEN 1 ELSE 0,
           \A p \in QueueNames \ {q}, n \in ButtonEvents :
              Occurrences(Sent(p), n)' = Occurrences(Sent(p), n),
           \A p \in QueueNames, n \in ButtonEvents : Occurrences(Sent(p), n) \in Nat,
           printed \in [QueueNames -> [ButtonEvents -> Nat]]
    PROVE  EventsInv'
<1>1. isr' = isr /\ button_sequence' = button_sequence /\ printed' = printed /\ dropped' = dropped
  BY DEF isrVars, histVars
<1>2. LoggersInv'
  <2>1. "take" \in StatementsOf(role[t])
    BY DEF Printer, StatementsOf
  <2> QED
    BY <2>1 DEF EventsInv, LoggersInv
<1>3. IsrInv'
  BY <1>1 DEF EventsInv, IsrInv
<1>4. ASSUME NEW p \in QueueNames
      PROVE  dropped'[p] \subseteq Copied(p)' /\ \A n \in ButtonEvents : Accounted(p, n)'
  <2>1. Copied(p)' = Copied(p)
    BY <1>1 DEF Copied
  <2>2. ASSUME NEW n \in ButtonEvents PROVE Accounted(p, n)'
    <3>1. Accounted(p, n) /\ Occurrences(Sent(p), n) \in Nat /\ printed[p][n] \in Nat
      BY DEF EventsInv
    <3>2. CASE p # q
      <4>1. Holders(Printer(p), n)' = Holders(Printer(p), n)
        BY <3>2, HoldersOthers
      <4> QED
        BY <4>1, <3>1, <3>2, <2>1, <1>1 DEF Accounted
    <3>3. CASE p = q
      <4>1. n # NULL
        BY MessagesNotNull
      <4>2. /\ Holders(role[t], n) \in Nat
            /\ Holders(role[t], n)' = Holders(role[t], n) + IF m = n THEN 1 ELSE 0
        <5>1. role[t]' = role[t]
          OBVIOUS
        <5>2. CASE role[t] = "logger_task"
          <6>1. /\ Holders("logger_task", n) \in Nat
                /\ Holders("logger_task", n)' = Holders("logger_task", n) + IF m = n THEN 1 ELSE 0
            BY <4>1, <5>2, HoldersStep
          <6> QED
            BY <6>1, <5>1, <5>2 DEF Holders
        <5>3. CASE role[t] = "button_logger_task"
          <6>1. /\ Holders("button_logger_task", n) \in Nat
                /\ Holders("button_logger_task", n)'
                      = Holders("button_logger_task", n) + IF m = n THEN 1 ELSE 0
            BY <4>1, <5>3, HoldersStep
          <6> QED
            BY <6>1, <5>1, <5>3 DEF Holders
        <5> QED
          BY <5>2, <5>3 DEF Printer
      <4>3. /\ Holders(Printer(p), n) \in Nat
            /\ Holders(Printer(p), n)' = Holders(Printer(p), n) + IF m = n THEN 1 ELSE 0
        BY <4>2, <3>3 DEF Holders
      <4>4. Occurrences(Sent(p), n)' = Occurrences(Sent(p), n) - IF m = n THEN 1 ELSE 0
        BY <3>3
      <4>5. Occurrences(Sent(p), n)' + Holders(Printer(p), n)' + printed[p][n]
            = Occurrences(Sent(p), n) + Holders(Printer(p), n) + printed[p][n]
        BY <3>1, <4>3, <4>4
      <4> QED
        BY <4>5, <3>1, <2>1, <1>1 DEF Accounted
    <3> QED
      BY <3>2, <3>3
  <2> QED
    BY <2>1, <2>2, <1>1 DEF EventsInv
<1> QED
  BY <1>2, <1>3, <1>4 DEF EventsInv

LEMMA LoggerDequeueKeeps ==
    ASSUME ShowInv, NEW t \in Slots, LoggerDequeue(t)
    PROVE  ShowInv'
<1> DEFINE m == IF shared'.count # shared.count THEN shared_got' ELSE NULL
<1>1. /\ UNCHANGED semVars /\ UNCHANGED consoleVars /\ role' = role /\ button' = button
      /\ button_call' = button_call /\ UNCHANGED isrVars /\ UNCHANGED histVars
      /\ role[t] = "logger_task" /\ "shared" \in QueueNames /\ role[t] = Printer("shared")
  BY DEF LoggerDequeue, buttonVars, Is, QueueNames, Printer
<1>2. ConsoleInv /\ ConsoleTypeOK /\ SemPart /\ EventsInv /\ LoggersInv /\ ShowcaseTypes
      /\ Ring(shared, SharedCapacity, Cells) /\ shared_call \in [Slots -> Calls] /\ Shared!Contents \in Seq(Messages \cup {NULL})
      /\ Button!Contents \in Seq(Messages \cup {NULL})
      /\ pc \in [Threads -> Places] /\ t \in Threads /\ Slots \subseteq Threads
  BY SharedRing, ButtonRing
     DEF ShowInv, ConsoleInv, ShowcaseTypes, EventsInv, SemPart, SemTypeOK, Threads
<1>3. ConsumerTimeout \in Ticks
  BY ShowcaseFacts
<1>4. \/ /\ Statement(t, "dequeue", "take")
         /\ Shared!artos_queue_dequeue(t, ConsumerTimeout)
      \/ Shared!DequeueWoken(t) /\ at' = at
  BY DEF LoggerDequeue
<1>5. /\ SemPart' /\ TakersStay /\ Moves(t, {"app", "switch", "dequeue_switch"})
      /\ Ring(shared', SharedCapacity, Cells) /\ shared_call' \in [Slots -> Calls]
      /\ \/ shared' = shared
         \/ /\ pc'[t] \in {"app", "switch"} /\ shared'.count # shared.count
            /\ Shared!Contents # <<>> /\ (Shared!Contents)' = Tail(Shared!Contents)
            /\ shared_got' = Head(Shared!Contents)
  <2>1. Shared!artos_queue_dequeue(t, ConsumerTimeout) \/ Shared!DequeueWoken(t)
    BY <1>4
  <2> QED
    BY <2>1, <1>1, <1>2, <1>3, SharedReceive
(* It had no message, and then goes on to take the console. *)
<1>6. /\ ConsoleInv' /\ local[t].message = NULL /\ at'[t] = "take"
      /\ \A u \in Slots : u # t => at'[u] = at[u]
  <2>1. CASE Statement(t, "dequeue", "take")
    <3>1. {"dequeue", "take"} \subseteq Statements \ {"row"}
      BY DEF Statements
    <3>2. ConsoleInv'
      BY <2>1, <3>1, <1>1, <1>2, <1>5, StatementKeeps
    <3>3. at[t] = "dequeue" /\ at'[t] = "take" /\ \A u \in Slots : u # t => at'[u] = at[u]
      BY <2>1, <3>1, <1>2, StatementMoves
    <3> QED
      BY <3>2, <3>3, <1>2 DEF LoggersInv
  <2>2. CASE Shared!DequeueWoken(t) /\ at' = at
    <3>1. UNCHANGED <<consoleVars, at>>
      BY <2>2, <1>1
    <3>2. ConsoleInv'
      BY <3>1, <1>1, <1>2, <1>5, OtherStepKeeps
    <3>3. pc[t] \in ReceiveLocs
      BY <2>2, SharedKernel DEF Shared!DequeueWoken, At, ReceiveLocs
    <3> QED
      BY <2>2, <3>2, <3>3, <1>2 DEF LoggersInv
  <2> QED
    BY <2>1, <2>2, <1>4
<1>7. /\ m \in Messages \cup {NULL} /\ local' = [local EXCEPT ![t].message = m]
      /\ pc'[t] \in ReceiveLocs => m = NULL
      /\ \/ (Shared!Contents)' = Shared!Contents /\ m = NULL
         \/ /\ Shared!Contents # <<>> /\ (Shared!Contents)' = Tail(Shared!Contents)
            /\ m = Head(Shared!Contents)
  <2>1. local' = [local EXCEPT ![t].message = m]
    BY DEF LoggerDequeue, Receive
  <2>2. CASE shared' = shared
    BY <2>1, <2>2, <1>2, SharedStays
  <2>3. CASE /\ pc'[t] \in {"app", "switch"} /\ shared'.count # shared.count
             /\ Shared!Contents # <<>> /\ (Shared!Contents)' = Tail(Shared!Contents)
             /\ shared_got' = Head(Shared!Contents)
    <3>1. Head(Shared!Contents) \in Messages \cup {NULL}
      BY <2>3, <1>2
    <3>2. pc'[t] \notin ReceiveLocs
      BY <2>3 DEF ReceiveLocs
    <3> QED
      BY <2>1, <2>3, <3>1, <3>2
  <2> QED
    BY <2>2, <2>3, <1>5
<1> HIDE DEF m
<1>8. /\ local' \in [Slots -> [message : Messages \cup {NULL}, next_tick : Ticks, pulse : Nat \ {0}]]
      /\ local'[t].message = m /\ \A u \in Slots : u # t => local'[u] = local[u]
  <2>1. local \in [Slots -> [message : Messages \cup {NULL}, next_tick : Ticks, pulse : Nat \ {0}]]
    BY <1>2 DEF ShowcaseTypes
  <2> HIDE DEF Messages, Ticks
  <2> QED
    BY <2>1, <1>7
<1>9. ShowcaseTypes'
  <2>1. printed' = printed /\ dropped' = dropped
    BY <1>1 DEF histVars
  <2> QED
    BY <2>1, <1>1, <1>2, <1>5, <1>8, ButtonStays DEF ShowcaseTypes
<1>10. \A p \in QueueNames, n \in ButtonEvents : Occurrences(Sent(p), n) \in Nat
  <2>1. ASSUME NEW p \in QueueNames, NEW n \in ButtonEvents PROVE Occurrences(Sent(p), n) \in Nat
    <3>1. Sent(p) \in Seq(Messages \cup {NULL}) /\ NULL \in Messages \cup {NULL}
      BY <1>2 DEF Sent
    <3> QED
      BY <3>1, OccurrencesAppend
  <2> QED
    BY <2>1
<1>11. ASSUME NEW n \in ButtonEvents
       PROVE  Occurrences(Sent("shared"), n)' = Occurrences(Sent("shared"), n) - IF m = n THEN 1 ELSE 0
  <2>1. n # NULL /\ Occurrences(Sent("shared"), n) \in Nat
    BY <1>1, <1>10, MessagesNotNull
  <2>2. CASE (Shared!Contents)' = Shared!Contents /\ m = NULL
    BY <2>1, <2>2, SentStep
  <2>3. CASE /\ Shared!Contents # <<>> /\ (Shared!Contents)' = Tail(Shared!Contents)
             /\ m = Head(Shared!Contents)
    <3>1. Occurrences(Tail(Shared!Contents), n)
             = Occurrences(Shared!Contents, n) - IF Head(Shared!Contents) = n THEN 1 ELSE 0
      BY <2>3, <1>2, OccurrencesTail
    <3> QED
      BY <2>3, <3>1, SentStep
  <2> QED
    BY <2>2, <2>3, <1>7
<1>12. \A p \in QueueNames \ {"shared"}, n \in ButtonEvents :
          Occurrences(Sent(p), n)' = Occurrences(Sent(p), n)
  BY <1>1, <1>2, ButtonStays DEF QueueNames
<1>13. EventsInv'
  <2>1. \A u \in Slots : u # t => /\ local'[u].message = local[u].message
                                   /\ at'[u] = at[u] /\ pc'[u] = pc[u]
    BY <1>5, <1>6, <1>8 DEF Moves
  <2>2. printed \in [QueueNames -> [ButtonEvents -> Nat]]
    BY <1>2 DEF ShowcaseTypes
  <2>3. /\ EventsInv /\ role' = role /\ UNCHANGED isrVars /\ UNCHANGED histVars
        /\ "shared" \in QueueNames /\ role[t] = Printer("shared") /\ local[t].message = NULL
        /\ local'[t].message = m /\ at'[t] = "take"
        /\ pc'[t] \in ReceiveLocs => m = NULL
    BY <1>1, <1>2, <1>6, <1>7, <1>8
  <2>4. \A n \in ButtonEvents :
           Occurrences(Sent("shared"), n)' = Occurrences(Sent("shared"), n) - IF m = n THEN 1 ELSE 0
    BY <1>11
  <2> QED
    BY <2>1, <2>2, <2>3, <2>4, <1>10, <1>12, ReceivedEvents, SMTT(40)
<1> QED
  BY <1>5, <1>6, <1>9, <1>13 DEF ShowInv

LEMMA ButtonDequeueKeeps ==
    ASSUME ShowInv, NEW t \in Slots, ButtonDequeue(t)
    PROVE  ShowInv'
<1> DEFINE m == IF button'.count # button.count THEN button_got' ELSE NULL
<1>1. /\ UNCHANGED semVars /\ UNCHANGED consoleVars /\ role' = role /\ shared' = shared
      /\ shared_call' = shared_call /\ UNCHANGED isrVars /\ UNCHANGED histVars
      /\ role[t] = "button_logger_task" /\ "button" \in QueueNames /\ role[t] = Printer("button")
  BY DEF ButtonDequeue, sharedVars, Is, QueueNames, Printer
<1>2. ConsoleInv /\ ConsoleTypeOK /\ SemPart /\ EventsInv /\ LoggersInv /\ ShowcaseTypes
      /\ Ring(button, ButtonCapacity, Cells) /\ button_call \in [Slots -> Calls] /\ Button!Contents \in Seq(Messages \cup {NULL})
      /\ Shared!Contents \in Seq(Messages \cup {NULL})
      /\ pc \in [Threads -> Places] /\ t \in Threads /\ Slots \subseteq Threads
  BY SharedRing, ButtonRing
     DEF ShowInv, ConsoleInv, ShowcaseTypes, EventsInv, SemPart, SemTypeOK, Threads
<1>3. ARTOS_DELAY_INFINITY \in Ticks
  BY ShowcaseFacts
<1>4. \/ /\ Statement(t, "dequeue", "take")
         /\ Button!artos_queue_dequeue(t, ARTOS_DELAY_INFINITY)
      \/ Button!DequeueWoken(t) /\ at' = at
  BY DEF ButtonDequeue
<1>5. /\ SemPart' /\ TakersStay /\ Moves(t, {"app", "switch", "dequeue_switch"})
      /\ Ring(button', ButtonCapacity, Cells) /\ button_call' \in [Slots -> Calls]
      /\ \/ button' = button
         \/ /\ pc'[t] \in {"app", "switch"} /\ button'.count # button.count
            /\ Button!Contents # <<>> /\ (Button!Contents)' = Tail(Button!Contents)
            /\ button_got' = Head(Button!Contents)
  <2>1. Button!artos_queue_dequeue(t, ARTOS_DELAY_INFINITY) \/ Button!DequeueWoken(t)
    BY <1>4
  <2> QED
    BY <2>1, <1>1, <1>2, <1>3, ButtonReceive
(* It had no message, and then goes on to take the console. *)
<1>6. /\ ConsoleInv' /\ local[t].message = NULL /\ at'[t] = "take"
      /\ \A u \in Slots : u # t => at'[u] = at[u]
  <2>1. CASE Statement(t, "dequeue", "take")
    <3>1. {"dequeue", "take"} \subseteq Statements \ {"row"}
      BY DEF Statements
    <3>2. ConsoleInv'
      BY <2>1, <3>1, <1>1, <1>2, <1>5, StatementKeeps
    <3>3. at[t] = "dequeue" /\ at'[t] = "take" /\ \A u \in Slots : u # t => at'[u] = at[u]
      BY <2>1, <3>1, <1>2, StatementMoves
    <3> QED
      BY <3>2, <3>3, <1>2 DEF LoggersInv
  <2>2. CASE Button!DequeueWoken(t) /\ at' = at
    <3>1. UNCHANGED <<consoleVars, at>>
      BY <2>2, <1>1
    <3>2. ConsoleInv'
      BY <3>1, <1>1, <1>2, <1>5, OtherStepKeeps
    <3>3. pc[t] \in ReceiveLocs
      BY <2>2, ButtonKernel DEF Button!DequeueWoken, At, ReceiveLocs
    <3> QED
      BY <2>2, <3>2, <3>3, <1>2 DEF LoggersInv
  <2> QED
    BY <2>1, <2>2, <1>4
<1>7. /\ m \in Messages \cup {NULL} /\ local' = [local EXCEPT ![t].message = m]
      /\ pc'[t] \in ReceiveLocs => m = NULL
      /\ \/ (Button!Contents)' = Button!Contents /\ m = NULL
         \/ /\ Button!Contents # <<>> /\ (Button!Contents)' = Tail(Button!Contents)
            /\ m = Head(Button!Contents)
  <2>1. local' = [local EXCEPT ![t].message = m]
    BY DEF ButtonDequeue, Receive
  <2>2. CASE button' = button
    BY <2>1, <2>2, <1>2, ButtonStays
  <2>3. CASE /\ pc'[t] \in {"app", "switch"} /\ button'.count # button.count
             /\ Button!Contents # <<>> /\ (Button!Contents)' = Tail(Button!Contents)
             /\ button_got' = Head(Button!Contents)
    <3>1. Head(Button!Contents) \in Messages \cup {NULL}
      BY <2>3, <1>2
    <3>2. pc'[t] \notin ReceiveLocs
      BY <2>3 DEF ReceiveLocs
    <3> QED
      BY <2>1, <2>3, <3>1, <3>2
  <2> QED
    BY <2>2, <2>3, <1>5
<1> HIDE DEF m
<1>8. /\ local' \in [Slots -> [message : Messages \cup {NULL}, next_tick : Ticks, pulse : Nat \ {0}]]
      /\ local'[t].message = m /\ \A u \in Slots : u # t => local'[u] = local[u]
  <2>1. local \in [Slots -> [message : Messages \cup {NULL}, next_tick : Ticks, pulse : Nat \ {0}]]
    BY <1>2 DEF ShowcaseTypes
  <2> HIDE DEF Messages, Ticks
  <2> QED
    BY <2>1, <1>7
<1>9. ShowcaseTypes'
  <2>1. printed' = printed /\ dropped' = dropped
    BY <1>1 DEF histVars
  <2> QED
    BY <2>1, <1>1, <1>2, <1>5, <1>8, SharedStays DEF ShowcaseTypes
<1>10. \A p \in QueueNames, n \in ButtonEvents : Occurrences(Sent(p), n) \in Nat
  <2>1. ASSUME NEW p \in QueueNames, NEW n \in ButtonEvents PROVE Occurrences(Sent(p), n) \in Nat
    <3>1. Sent(p) \in Seq(Messages \cup {NULL}) /\ NULL \in Messages \cup {NULL}
      BY <1>2 DEF Sent
    <3> QED
      BY <3>1, OccurrencesAppend
  <2> QED
    BY <2>1
<1>11. ASSUME NEW n \in ButtonEvents
       PROVE  Occurrences(Sent("button"), n)' = Occurrences(Sent("button"), n) - IF m = n THEN 1 ELSE 0
  <2>1. n # NULL /\ Occurrences(Sent("button"), n) \in Nat
    BY <1>1, <1>10, MessagesNotNull
  <2>2. CASE (Button!Contents)' = Button!Contents /\ m = NULL
    BY <2>1, <2>2, SentStep
  <2>3. CASE /\ Button!Contents # <<>> /\ (Button!Contents)' = Tail(Button!Contents)
             /\ m = Head(Button!Contents)
    <3>1. Occurrences(Tail(Button!Contents), n)
             = Occurrences(Button!Contents, n) - IF Head(Button!Contents) = n THEN 1 ELSE 0
      BY <2>3, <1>2, OccurrencesTail
    <3> QED
      BY <2>3, <3>1, SentStep
  <2> QED
    BY <2>2, <2>3, <1>7
<1>12. \A p \in QueueNames \ {"button"}, n \in ButtonEvents :
          Occurrences(Sent(p), n)' = Occurrences(Sent(p), n)
  BY <1>1, <1>2, SharedStays DEF QueueNames
<1>13. EventsInv'
  <2>1. \A u \in Slots : u # t => /\ local'[u].message = local[u].message
                                   /\ at'[u] = at[u] /\ pc'[u] = pc[u]
    BY <1>5, <1>6, <1>8 DEF Moves
  <2>2. printed \in [QueueNames -> [ButtonEvents -> Nat]]
    BY <1>2 DEF ShowcaseTypes
  <2>3. /\ EventsInv /\ role' = role /\ UNCHANGED isrVars /\ UNCHANGED histVars
        /\ "button" \in QueueNames /\ role[t] = Printer("button") /\ local[t].message = NULL
        /\ local'[t].message = m /\ at'[t] = "take"
        /\ pc'[t] \in ReceiveLocs => m = NULL
    BY <1>1, <1>2, <1>6, <1>7, <1>8
  <2>4. \A n \in ButtonEvents :
           Occurrences(Sent("button"), n)' = Occurrences(Sent("button"), n) - IF m = n THEN 1 ELSE 0
    BY <1>11
  <2> QED
    BY <2>1, <2>2, <2>3, <2>4, <1>10, <1>12, ReceivedEvents, SMTT(40)
<1> QED
  BY <1>5, <1>6, <1>9, <1>13 DEF ShowInv

(* A row is printed: its event goes from the hands of a logger to the      *)
(* history.                                                                *)
LEMMA RowDoneKeeps ==
    ASSUME ShowInv, NEW t \in Slots, RowDone(t)
    PROVE  ShowInv'
<1> DEFINE n == local[t].message
           q == IF Is(t, "button_logger_task") THEN "button" ELSE "shared"
           to == IF Is(t, "button_logger_task") \/ n = NULL THEN "dequeue" ELSE "delay"
<1>1. /\ SignalConsole(t, to) /\ Statement(t, "row", to) /\ artos_semaphore_signal(t, uart_lock)
      /\ printed' = IF n \in ButtonEvents THEN [printed EXCEPT ![q][n] = @ + 1] ELSE printed
      /\ local' = [local EXCEPT ![t].message = NULL]
      /\ role' = role /\ UNCHANGED queueVars /\ UNCHANGED isrVars /\ dropped' = dropped
  BY DEF RowDone, SignalConsole
<1>2. /\ ConsoleInv /\ ConsoleTypeOK /\ SemPart /\ EventsInv /\ LoggersInv /\ ShowcaseTypes
      /\ local \in [Slots -> [message : Messages \cup {NULL}, next_tick : Ticks, pulse : Nat \ {0}]]
      /\ printed \in [QueueNames -> [ButtonEvents -> Nat]]
      /\ pc \in [Threads -> Places] /\ t \in Threads /\ Slots \subseteq Threads
  BY DEF ShowInv, ConsoleInv, ShowcaseTypes, EventsInv, SemPart, SemTypeOK, Threads
<1>3. /\ to \in {"dequeue", "delay"} /\ to \in Statements \ {"row"} /\ q \in QueueNames
  BY DEF Statements, QueueNames
<1>4. /\ at[t] = "row" /\ at'[t] = to /\ \A u \in Slots : u # t => at'[u] = at[u]
  BY <1>1, <1>2, <1>3, StatementMoves
<1>5. role[t] = Printer(q) /\ role[t] \in {"logger_task", "button_logger_task"}
  <2>1. at[t] \in StatementsOf(role[t]) /\ role[t] \in DOMAIN FirstStatement
    BY <1>2 DEF LoggersInv, ShowcaseTypes
  <2>2. role[t] \notin {"led_task", "heartbeat_task", "load_task"}
    BY <2>1, <1>4 DEF StatementsOf
  <2>3. role[t] \in {"logger_task", "button_logger_task"}
    BY <2>1, <2>2 DEF FirstStatement
  <2> QED
    BY <2>3 DEF Printer, Is
<1>6. SemPart' /\ ConsoleInv'
  BY <1>1, <1>2, <1>3, SignalConsoleKeeps
<1>7. /\ pc'[t] \in {"app", "switch"} /\ \A u \in Slots : u # t => pc'[u] = pc[u]
  <2>1. pc' = [pc EXCEPT ![t] = IF WakesHigher(uart_lock) THEN "switch" ELSE "app"]
    BY <1>1 DEF artos_semaphore_signal, GoTo
  <2> QED
    BY <2>1, <1>2
<1>8. /\ local' \in [Slots -> [message : Messages \cup {NULL}, next_tick : Ticks, pulse : Nat \ {0}]]
      /\ local'[t].message = NULL /\ \A u \in Slots : u # t => local'[u] = local[u]
  <2> HIDE DEF Messages, Ticks, q, to
  <2> QED
    BY <1>1, <1>2
<1> HIDE DEF n, q, to
<1>9. /\ printed' \in [QueueNames -> [ButtonEvents -> Nat]]
      /\ \A p \in QueueNames, i \in ButtonEvents :
            printed'[p][i] = printed[p][i] + IF p = q /\ i = n THEN 1 ELSE 0
  <2>1. CASE n \in ButtonEvents
    <3> DEFINE f == [printed[q] EXCEPT ![n] = @ + 1]
    <3>1. /\ f \in [ButtonEvents -> Nat]
          /\ \A i \in ButtonEvents : f[i] = printed[q][i] + IF i = n THEN 1 ELSE 0
      BY <2>1, <1>2, <1>3
    <3>2. printed' = [printed EXCEPT ![q] = f]
      BY <2>1, <1>1, <1>2, <1>3
    <3> HIDE DEF f
    <3>3. /\ printed' \in [QueueNames -> [ButtonEvents -> Nat]]
          /\ \A p \in QueueNames : printed'[p] = IF p = q THEN f ELSE printed[p]
      BY <3>1, <3>2, <1>2, <1>3
    <3>4. ASSUME NEW p \in QueueNames, NEW i \in ButtonEvents
          PROVE  printed'[p][i] = printed[p][i] + IF p = q /\ i = n THEN 1 ELSE 0
      <4>1. printed[p][i] \in Nat
        BY <1>2
      <4> QED
        BY <4>1, <3>1, <3>3
    <3> QED
      BY <3>3, <3>4
  <2>2. CASE n \notin ButtonEvents
    <3>1. printed' = printed
      BY <2>2, <1>1
    <3>2. \A p \in QueueNames, i \in ButtonEvents : printed[p][i] \in Nat /\ i # n
      BY <2>2, <1>2
    <3> QED
      BY <3>1, <3>2, <1>2
  <2> QED
    BY <2>1, <2>2
<1>10. /\ Ring(shared', SharedCapacity, Cells) /\ shared_call' \in [Slots -> Calls]
       /\ Ring(button', ButtonCapacity, Cells) /\ button_call' \in [Slots -> Calls]
       /\ \A p \in QueueNames, i \in ButtonEvents :
             Occurrences(Sent(p), i)' = Occurrences(Sent(p), i)
  BY <1>1, <1>2, QueuesStay
<1>11. ShowcaseTypes'
  BY <1>1, <1>2, <1>8, <1>9, <1>10 DEF ShowcaseTypes
<1>12. \A p \in QueueNames, i \in ButtonEvents : Occurrences(Sent(p), i) \in Nat
  <2>1. ASSUME NEW p \in QueueNames, NEW i \in ButtonEvents PROVE Occurrences(Sent(p), i) \in Nat
    <3>1. Sent(p) \in Seq(Messages \cup {NULL}) /\ NULL \in Messages \cup {NULL}
      BY <1>2, SharedRing, ButtonRing DEF Sent, ShowcaseTypes
    <3> QED
      BY <3>1, OccurrencesAppend
  <2> QED
    BY <2>1
<1>13. LoggersInv'
  <2>1. to \in StatementsOf(role[t]) /\ pc'[t] \notin ReceiveLocs
    BY <1>3, <1>5, <1>7 DEF StatementsOf, ReceiveLocs
  <2> QED
    BY <2>1, <1>1, <1>2, <1>4, <1>7, <1>8 DEF LoggersInv
<1>14. isr' = isr /\ button_sequence' = button_sequence
  BY <1>1 DEF isrVars
<1>15. IsrInv'
  BY <1>2, <1>14 DEF EventsInv, IsrInv
<1>16. ASSUME NEW p \in QueueNames, NEW i \in ButtonEvents
       PROVE  /\ Holders(Printer(p), i) \in Nat
              /\ Holders(Printer(p), i)' = Holders(Printer(p), i) - IF p = q /\ i = n THEN 1 ELSE 0
  <2>1. i # NULL /\ \A u \in Slots : u # t => local'[u].message = local[u].message
    BY <1>8, MessagesNotNull
  <2>2. CASE p = q
    <3>1. Holders(Printer(p), i) \in Nat
      BY <1>1, <2>1, HoldersStep
    <3>2. CASE role[t] = "logger_task"
      <4>1. Printer(p) = "logger_task" /\ p = "shared"
        BY <2>2, <1>5, <3>2 DEF Printer
      <4>2. Holders("logger_task", i)' = Holders("logger_task", i) - IF i = n THEN 1 ELSE 0
        BY <1>1, <1>8, <2>1, <3>2, HoldersStep DEF n
      <4> QED
        <5>1. Printer(p)' = "logger_task" /\ Holders("logger_task", i) \in Nat
          BY <3>1, <4>1 DEF Printer
        <5>2. Holders(Printer(p), i)' = Holders("logger_task", i)'
          BY <4>1 DEF Printer
        <5> QED
          BY <3>1, <4>1, <4>2, <5>1, <5>2, <2>2
    <3>3. CASE role[t] = "button_logger_task"
      <4>1. Printer(p) = "button_logger_task" /\ p = "button"
        BY <2>2, <1>5, <3>3 DEF Printer, QueueNames
      <4>2. Holders("button_logger_task", i)'
               = Holders("button_logger_task", i) - IF i = n THEN 1 ELSE 0
        BY <1>1, <1>8, <2>1, <3>3, HoldersStep DEF n
      <4> QED
        BY <3>1, <4>1, <4>2, <2>2 DEF Printer
    <3> QED
      BY <3>2, <3>3, <1>5
  <2>3. CASE p # q
    <3>1. Holders(Printer(p), i) \in Nat
      BY <1>1, <2>1, HoldersStep
    <3>2. Holders(Printer(p), i)' = Holders(Printer(p), i)
      BY <1>1, <1>3, <1>5, <2>1, <2>3, HoldersOthers
    <3> QED
      BY <3>1, <3>2, <2>3
  <2> QED
    BY <2>2, <2>3
<1>17. ASSUME NEW p \in QueueNames
       PROVE  dropped'[p] \subseteq Copied(p)' /\ \A i \in ButtonEvents : Accounted(p, i)'
  <2>1. Copied(p)' = Copied(p)
    BY <1>14 DEF Copied
  <2>2. ASSUME NEW i \in ButtonEvents PROVE Accounted(p, i)'
    <3>1. Accounted(p, i) /\ printed[p][i] \in Nat /\ Occurrences(Sent(p), i) \in Nat
      BY <1>2, <1>12 DEF EventsInv
    <3>2. Occurrences(Sent(p), i)' + Holders(Printer(p), i)' + printed'[p][i]
          = Occurrences(Sent(p), i) + Holders(Printer(p), i) + printed[p][i]
      BY <3>1, <1>9, <1>10, <1>16
    <3> QED
      BY <3>1, <3>2, <2>1, <1>1 DEF Accounted
  <2> QED
    BY <2>1, <2>2, <1>1, <1>2 DEF EventsInv
<1>18. EventsInv'
  BY <1>13, <1>15, <1>17 DEF EventsInv
<1> QED
  BY <1>6, <1>11, <1>18 DEF ShowInv

(* The interrupt handler copies an event to a queue, or drops it. *)
LEMMA CopyCounts ==
    ASSUME EventsInv, NEW q \in QueueNames, role' = role, local' = local, printed' = printed,
           button_sequence \in ButtonEvents, button_sequence \notin Copied(q),
           Copied(q)' = Copied(q) \cup {button_sequence},
           \/ /\ dropped'[q] = dropped[q]
              /\ \A n \in ButtonEvents : Occurrences(Sent(q), n)'
                    = Occurrences(Sent(q), n) + IF button_sequence = n THEN 1 ELSE 0
           \/ /\ dropped'[q] = dropped[q] \cup {button_sequence}
              /\ \A n \in ButtonEvents : Occurrences(Sent(q), n)' = Occurrences(Sent(q), n),
           \A n \in ButtonEvents : Occurrences(Sent(q), n) \in Nat,
           printed \in [QueueNames -> [ButtonEvents -> Nat]]
    PROVE  dropped'[q] \subseteq Copied(q)' /\ \A n \in ButtonEvents : Accounted(q, n)'
<1>1. dropped[q] \subseteq Copied(q) /\ \A n \in ButtonEvents : Accounted(q, n)
  BY DEF EventsInv
<1>2. ASSUME NEW n \in ButtonEvents PROVE Accounted(q, n)'
  <2>1. Holders(Printer(q), n)' = Holders(Printer(q), n)
    BY DEF Holders, Is, Printer
  <2>2. Holders(Printer(q), n) \in Nat
    <3>1. 0 \in Slots
      BY KernelFacts DEF Slots
    <3> QED
      BY <3>1, HoldersStep
  <2>3. /\ Occurrences(Sent(q), n) \in Nat /\ printed[q][n] \in Nat /\ printed'[q][n] = printed[q][n]
        /\ Occurrences(Sent(q), n) + Holders(Printer(q), n) + printed[q][n]
              = IF n \in Copied(q) \ dropped[q] THEN 1 ELSE 0
    BY <1>1 DEF Accounted
  <2>4. Occurrences(Sent(q), n)' + Holders(Printer(q), n)' + printed'[q][n]
           = IF n \in Copied(q)' \ dropped'[q] THEN 1 ELSE 0
    <3>1. CASE n = button_sequence
      <4>1. n \notin Copied(q) /\ n \notin dropped[q] /\ n \in Copied(q)'
        BY <3>1, <1>1
      <4> QED
        BY <3>1, <4>1, <2>1, <2>2, <2>3
    <3>2. CASE n # button_sequence
      <4>1. n \in Copied(q)' \ dropped'[q] <=> n \in Copied(q) \ dropped[q]
        BY <3>2
      <4>2. Occurrences(Sent(q), n)' = Occurrences(Sent(q), n)
        BY <3>2, <2>3
      <4> QED
        BY <4>1, <4>2, <2>1, <2>2, <2>3
    <3> QED
      BY <3>1, <3>2
  <2> QED
    BY <2>4 DEF Accounted
<1> QED
  BY <1>1, <1>2

(* It leaves the other queue as it is. *)
LEMMA CopyOther ==
    ASSUME EventsInv, NEW q \in QueueNames, role' = role, local' = local, printed' = printed,
           Copied(q)' = Copied(q), dropped'[q] = dropped[q],
           \A n \in ButtonEvents : Occurrences(Sent(q), n)' = Occurrences(Sent(q), n)
    PROVE  dropped'[q] \subseteq Copied(q)' /\ \A n \in ButtonEvents : Accounted(q, n)'
<1>1. dropped[q] \subseteq Copied(q) /\ \A n \in ButtonEvents : Accounted(q, n)
  BY DEF EventsInv
<1>2. ASSUME NEW n \in ButtonEvents PROVE Accounted(q, n)'
  <2>1. Holders(Printer(q), n)' = Holders(Printer(q), n)
    BY DEF Holders, Is, Printer
  <2> QED
    BY <2>1, <1>1 DEF Accounted
<1> QED
  BY <1>1, <1>2

LEMMA LoggersStay ==
    ASSUME LoggersInv, role' = role, local' = local, at' = at, pc' = pc
    PROVE  LoggersInv'
BY DEF LoggersInv

LEMMA AcceptKeeps ==
    ASSUME ShowInv, button_event_isr
    PROVE  ShowInv'
<1>1. /\ UNCHANGED semSpecVars /\ UNCHANGED <<consoleVars, at>> /\ role' = role /\ at' = at
      /\ UNCHANGED queueVars /\ local' = local /\ printed' = printed /\ dropped' = dropped
      /\ isr = "idle" /\ isr' = "button" /\ button_sequence < MaxPresses
      /\ button_sequence' = button_sequence + 1
  BY DEF button_event_isr, histVars
<1>2. ConsoleInv /\ SemPart /\ EventsInv /\ LoggersInv /\ ShowcaseTypes
      /\ button_sequence \in 0 .. MaxPresses /\ MaxPresses \in Nat
  BY ShowcaseFacts DEF ShowInv, EventsInv, IsrInv
<1>3. SemPart' /\ TakersStay /\ UNCHANGED semVars /\ pc' = pc
  BY <1>1, <1>2, NoCallKeeps DEF semSpecVars, schedVars
<1>4. ConsoleInv'
  BY <1>1, <1>2, <1>3, OtherStepKeeps
<1>5. /\ Ring(shared', SharedCapacity, Cells) /\ shared_call' \in [Slots -> Calls]
      /\ Ring(button', ButtonCapacity, Cells) /\ button_call' \in [Slots -> Calls]
      /\ \A p \in QueueNames, i \in ButtonEvents :
            Occurrences(Sent(p), i)' = Occurrences(Sent(p), i)
  BY <1>1, <1>2, QueuesStay
<1>6. ShowcaseTypes'
  BY <1>1, <1>2, <1>5 DEF ShowcaseTypes
<1>7. LoggersInv' /\ IsrInv'
  BY <1>1, <1>2, <1>3, LoggersStay DEF IsrInv
<1>8. ASSUME NEW q \in QueueNames
      PROVE  dropped'[q] \subseteq Copied(q)' /\ \A n \in ButtonEvents : Accounted(q, n)'
  <2>1. Copied(q)' = Copied(q)
    BY <1>1, <1>2 DEF Copied
  <2> QED
    BY <2>1, <1>1, <1>2, <1>5, CopyOther
<1>9. EventsInv'
  BY <1>7, <1>8 DEF EventsInv
<1> QED
  BY <1>3, <1>4, <1>6, <1>9 DEF ShowInv

LEMMA IsrToButtonKeeps ==
    ASSUME ShowInv, IsrToButton
    PROVE  ShowInv'
<1>1. /\ UNCHANGED semVars /\ UNCHANGED <<consoleVars, at>> /\ role' = role /\ at' = at
      /\ shared' = shared /\ shared_call' = shared_call /\ local' = local /\ printed' = printed
      /\ isr = "button" /\ isr' = "shared" /\ button_sequence' = button_sequence
  BY DEF IsrToButton, sharedVars
<1>2. \/ Button!artos_queue_enqueue_from_isr(button_sequence) /\ dropped' = dropped
      \/ /\ dropped' = [dropped EXCEPT !["button"] = @ \cup {button_sequence}]
         /\ UNCHANGED schedVars /\ button' = button /\ button_call' = button_call
  BY DEF IsrToButton, Drop, buttonVars
<1>3. ConsoleInv /\ SemPart /\ EventsInv /\ LoggersInv /\ ShowcaseTypes
      /\ Ring(button, ButtonCapacity, Cells) /\ button_call \in [Slots -> Calls]
      /\ Button!Contents \in Seq(Messages \cup {NULL}) /\ MaxPresses \in Nat
      /\ button_sequence \in 1 .. MaxPresses /\ "button" \in QueueNames
      /\ dropped \in [QueueNames -> SUBSET ButtonEvents]
      /\ printed \in [QueueNames -> [ButtonEvents -> Nat]]
  BY <1>1, ShowcaseFacts, ButtonRing DEF ShowInv, EventsInv, IsrInv, ShowcaseTypes, QueueNames
<1>4. button_sequence \in ButtonEvents /\ button_sequence \in Messages
      /\ button_sequence \in Messages \cup {NULL}
  BY <1>3 DEF ButtonEvents, Messages
<1>5. /\ SemPart' /\ TakersStay /\ pc' = pc
      /\ Ring(button', ButtonCapacity, Cells) /\ button_call' = button_call
      /\ \/ dropped' = dropped /\ (Button!Contents)' = Append(Button!Contents, button_sequence)
         \/ /\ dropped' = [dropped EXCEPT !["button"] = @ \cup {button_sequence}]
            /\ (Button!Contents)' = Button!Contents
  <2>1. CASE Button!artos_queue_enqueue_from_isr(button_sequence) /\ dropped' = dropped
    BY <2>1, <1>1, <1>3, <1>4, ButtonIsr
  <2>2. CASE /\ dropped' = [dropped EXCEPT !["button"] = @ \cup {button_sequence}]
             /\ UNCHANGED schedVars /\ button' = button /\ button_call' = button_call
    <3>1. UNCHANGED semSpecVars
      BY <2>2, <1>1 DEF semSpecVars
    <3>2. SemPart' /\ TakersStay /\ pc' = pc
      BY <3>1, <1>3, NoCallKeeps DEF semSpecVars, schedVars
    <3> QED
      BY <2>2, <3>2, <1>3, ButtonStays
  <2> QED
    BY <2>1, <2>2, <1>2
<1>6. ConsoleInv'
  BY <1>1, <1>3, <1>5, OtherStepKeeps
<1>7. /\ dropped' \in [QueueNames -> SUBSET ButtonEvents]
      /\ \A p \in QueueNames : p # "button" => dropped'[p] = dropped[p]
      /\ \/ dropped'["button"] = dropped["button"]
            /\ (Button!Contents)' = Append(Button!Contents, button_sequence)
         \/ dropped'["button"] = dropped["button"] \cup {button_sequence}
            /\ (Button!Contents)' = Button!Contents
  BY <1>3, <1>4, <1>5
<1>8. ShowcaseTypes'
  BY <1>1, <1>3, <1>5, <1>7, SharedStays DEF ShowcaseTypes
<1>9. LoggersInv' /\ IsrInv'
  BY <1>1, <1>3, <1>5, LoggersStay DEF IsrInv
<1>10. dropped'["button"] \subseteq Copied("button")' /\ \A n \in ButtonEvents : Accounted("button", n)'
  <2>1. /\ button_sequence \notin Copied("button")
        /\ Copied("button")' = Copied("button") \cup {button_sequence}
    <3>1. Copied("button") = 1 .. button_sequence - 1 /\ Copied("button")' = 1 .. button_sequence
      BY <1>1 DEF Copied
    <3> QED
      BY <3>1, <1>3
  <2>2. ASSUME NEW n \in ButtonEvents
        PROVE  /\ Occurrences(Sent("button"), n) \in Nat
               /\ (Button!Contents)' = Append(Button!Contents, button_sequence) =>
                     Occurrences(Sent("button"), n)'
                        = Occurrences(Sent("button"), n) + IF button_sequence = n THEN 1 ELSE 0
               /\ (Button!Contents)' = Button!Contents =>
                     Occurrences(Sent("button"), n)' = Occurrences(Sent("button"), n)
    <3>1. /\ Occurrences(Button!Contents, n) \in Nat
          /\ Occurrences(Append(Button!Contents, button_sequence), n)
                = Occurrences(Button!Contents, n) + IF button_sequence = n THEN 1 ELSE 0
      <4>1. Button!Contents \in Seq(Messages \cup {NULL}) /\ button_sequence \in Messages \cup {NULL}
        BY <1>3, <1>4
      <4> DEFINE S == Messages \cup {NULL}
      <4>2. Button!Contents \in Seq(S) /\ button_sequence \in S
        BY <4>1
      <4> HIDE DEF S
      <4> QED
        BY <4>2, OccurrencesAppend
    <3> QED
      BY <3>1, SentStep
  <2>3. \/ /\ dropped'["button"] = dropped["button"]
           /\ \A n \in ButtonEvents : Occurrences(Sent("button"), n)'
                 = Occurrences(Sent("button"), n) + IF button_sequence = n THEN 1 ELSE 0
        \/ /\ dropped'["button"] = dropped["button"] \cup {button_sequence}
           /\ \A n \in ButtonEvents : Occurrences(Sent("button"), n)' = Occurrences(Sent("button"), n)
    BY <2>2, <1>7
  <2> QED
    BY <2>1, <2>2, <2>3, <1>1, <1>3, <1>4, CopyCounts
<1>11. dropped'["shared"] \subseteq Copied("shared")' /\ \A n \in ButtonEvents : Accounted("shared", n)'
  <2>1. Copied("shared")' = Copied("shared") /\ "shared" \in QueueNames
    BY <1>1 DEF Copied, QueueNames
  <2>2. \A n \in ButtonEvents : Occurrences(Sent("shared"), n)' = Occurrences(Sent("shared"), n)
    BY <1>1, <1>3, SharedStays
  <2> QED
    BY <2>1, <2>2, <1>1, <1>3, <1>7, CopyOther
<1>12. EventsInv'
  BY <1>9, <1>10, <1>11 DEF EventsInv, QueueNames
<1> QED
  BY <1>5, <1>6, <1>8, <1>12 DEF ShowInv

LEMMA IsrToSharedKeeps ==
    ASSUME ShowInv, IsrToShared
    PROVE  ShowInv'
<1>1. /\ UNCHANGED semVars /\ UNCHANGED <<consoleVars, at>> /\ role' = role /\ at' = at
      /\ button' = button /\ button_call' = button_call /\ local' = local /\ printed' = printed
      /\ isr = "shared" /\ isr' = "idle" /\ button_sequence' = button_sequence
  BY DEF IsrToShared, buttonVars
<1>2. \/ Shared!artos_queue_enqueue_from_isr(button_sequence) /\ dropped' = dropped
      \/ /\ dropped' = [dropped EXCEPT !["shared"] = @ \cup {button_sequence}]
         /\ UNCHANGED schedVars /\ shared' = shared /\ shared_call' = shared_call
  BY DEF IsrToShared, Drop, sharedVars
<1>3. ConsoleInv /\ SemPart /\ EventsInv /\ LoggersInv /\ ShowcaseTypes
      /\ Ring(shared, SharedCapacity, Cells) /\ shared_call \in [Slots -> Calls]
      /\ Shared!Contents \in Seq(Messages \cup {NULL}) /\ MaxPresses \in Nat
      /\ button_sequence \in 1 .. MaxPresses /\ "shared" \in QueueNames
      /\ dropped \in [QueueNames -> SUBSET ButtonEvents]
      /\ printed \in [QueueNames -> [ButtonEvents -> Nat]]
  BY <1>1, ShowcaseFacts, SharedRing DEF ShowInv, EventsInv, IsrInv, ShowcaseTypes, QueueNames
<1>4. button_sequence \in ButtonEvents /\ button_sequence \in Messages
      /\ button_sequence \in Messages \cup {NULL}
  BY <1>3 DEF ButtonEvents, Messages
<1>5. /\ SemPart' /\ TakersStay /\ pc' = pc
      /\ Ring(shared', SharedCapacity, Cells) /\ shared_call' = shared_call
      /\ \/ dropped' = dropped /\ (Shared!Contents)' = Append(Shared!Contents, button_sequence)
         \/ /\ dropped' = [dropped EXCEPT !["shared"] = @ \cup {button_sequence}]
            /\ (Shared!Contents)' = Shared!Contents
  <2>1. CASE Shared!artos_queue_enqueue_from_isr(button_sequence) /\ dropped' = dropped
    BY <2>1, <1>1, <1>3, <1>4, SharedIsr
  <2>2. CASE /\ dropped' = [dropped EXCEPT !["shared"] = @ \cup {button_sequence}]
             /\ UNCHANGED schedVars /\ shared' = shared /\ shared_call' = shared_call
    <3>1. UNCHANGED semSpecVars
      BY <2>2, <1>1 DEF semSpecVars
    <3>2. SemPart' /\ TakersStay /\ pc' = pc
      BY <3>1, <1>3, NoCallKeeps DEF semSpecVars, schedVars
    <3> QED
      BY <2>2, <3>2, <1>3, SharedStays
  <2> QED
    BY <2>1, <2>2, <1>2
<1>6. ConsoleInv'
  BY <1>1, <1>3, <1>5, OtherStepKeeps
<1>7. /\ dropped' \in [QueueNames -> SUBSET ButtonEvents]
      /\ \A p \in QueueNames : p # "shared" => dropped'[p] = dropped[p]
      /\ \/ dropped'["shared"] = dropped["shared"]
            /\ (Shared!Contents)' = Append(Shared!Contents, button_sequence)
         \/ dropped'["shared"] = dropped["shared"] \cup {button_sequence}
            /\ (Shared!Contents)' = Shared!Contents
  BY <1>3, <1>4, <1>5
<1>8. ShowcaseTypes'
  BY <1>1, <1>3, <1>5, <1>7, ButtonStays DEF ShowcaseTypes
<1>9. LoggersInv' /\ IsrInv'
  BY <1>1, <1>3, <1>5, LoggersStay DEF IsrInv
<1>10. dropped'["shared"] \subseteq Copied("shared")' /\ \A n \in ButtonEvents : Accounted("shared", n)'
  <2>1. /\ button_sequence \notin Copied("shared")
        /\ Copied("shared")' = Copied("shared") \cup {button_sequence}
    <3>1. Copied("shared") = 1 .. button_sequence - 1 /\ Copied("shared")' = 1 .. button_sequence
      BY <1>1 DEF Copied
    <3> QED
      BY <3>1, <1>3
  <2>2. ASSUME NEW n \in ButtonEvents
        PROVE  /\ Occurrences(Sent("shared"), n) \in Nat
               /\ (Shared!Contents)' = Append(Shared!Contents, button_sequence) =>
                     Occurrences(Sent("shared"), n)'
                        = Occurrences(Sent("shared"), n) + IF button_sequence = n THEN 1 ELSE 0
               /\ (Shared!Contents)' = Shared!Contents =>
                     Occurrences(Sent("shared"), n)' = Occurrences(Sent("shared"), n)
    <3>1. /\ Occurrences(Shared!Contents, n) \in Nat
          /\ Occurrences(Append(Shared!Contents, button_sequence), n)
                = Occurrences(Shared!Contents, n) + IF button_sequence = n THEN 1 ELSE 0
      <4>1. Shared!Contents \in Seq(Messages \cup {NULL}) /\ button_sequence \in Messages \cup {NULL}
        BY <1>3, <1>4
      <4> DEFINE S == Messages \cup {NULL}
      <4>2. Shared!Contents \in Seq(S) /\ button_sequence \in S
        BY <4>1
      <4> HIDE DEF S
      <4> QED
        BY <4>2, OccurrencesAppend
    <3> QED
      BY <3>1, SentStep
  <2>3. \/ /\ dropped'["shared"] = dropped["shared"]
           /\ \A n \in ButtonEvents : Occurrences(Sent("shared"), n)'
                 = Occurrences(Sent("shared"), n) + IF button_sequence = n THEN 1 ELSE 0
        \/ /\ dropped'["shared"] = dropped["shared"] \cup {button_sequence}
           /\ \A n \in ButtonEvents : Occurrences(Sent("shared"), n)' = Occurrences(Sent("shared"), n)
    BY <2>2, <1>7
  <2> QED
    BY <2>1, <2>2, <2>3, <1>1, <1>3, <1>4, CopyCounts
<1>11. dropped'["button"] \subseteq Copied("button")' /\ \A n \in ButtonEvents : Accounted("button", n)'
  <2>1. Copied("button")' = Copied("button") /\ "button" \in QueueNames
    BY <1>1 DEF Copied, QueueNames
  <2>2. \A n \in ButtonEvents : Occurrences(Sent("button"), n)' = Occurrences(Sent("button"), n)
    BY <1>1, <1>3, ButtonStays
  <2> QED
    BY <2>1, <2>2, <1>1, <1>3, <1>7, CopyOther
<1>12. EventsInv'
  BY <1>9, <1>10, <1>11 DEF EventsInv, QueueNames
<1> QED
  BY <1>5, <1>6, <1>8, <1>12 DEF ShowInv

LEMMA ShowcaseTaskStep ==
    ASSUME ShowInv, NEW t \in Slots, TaskStep(t)
    PROVE  ShowInv'
<1>1. CASE Begin(t)
  BY <1>1, BeginKeeps
<1>2. CASE led_task(t)
  BY <1>2, LedKeeps
<1>3. CASE heartbeat_task(t)
  BY <1>3, PublishKeeps, SleepKeeps DEF heartbeat_task
<1>4. CASE load_task(t)
  BY <1>4, LoadKeeps
<1>5. CASE LoggerDequeue(t)
  BY <1>5, LoggerDequeueKeeps
<1>6. CASE ButtonDequeue(t)
  BY <1>6, ButtonDequeueKeeps
<1>7. CASE TakeUart(t)
  BY <1>7, TakeUartKeeps
<1>8. CASE RowDone(t)
  BY <1>8, RowDoneKeeps
<1>9. CASE LoggerDelay(t)
  BY <1>9, DelayKeeps
<1>10. CASE (PollTXE(t) \/ StoreDR(t)) /\ UNCHANGED demoVars
  BY <1>10, ConsoleCallsKeep
<1>11. CASE (TakeSwitch(t) \/ TakeReturn(t)) /\ UNCHANGED <<consoleVars, at, demoVars>>
  <2>1. UNCHANGED demoVars /\ (TakeSwitch(t) \/ TakeReturn(t)) /\ UNCHANGED <<consoleVars, at>>
    BY <1>11
  <2> QED
    BY <2>1, ConsoleCallsKeep
<1>12. CASE /\ \/ Switch(t)
               \/ rtos_port_request_context_switch(t, "dequeue_switch", "dequeue_woken")
            /\ UNCHANGED <<semVars, consoleVars, at, demoVars>>
  BY <1>12, SwitchStepKeeps
<1> QED
  BY <1>1, <1>2, <1>3, <1>4, <1>5, <1>6, <1>7, <1>8, <1>9, <1>10, <1>11, <1>12 DEF TaskStep

(* Every step of the showcase keeps the invariant. *)
LEMMA ShowcaseStep ==
    ASSUME ShowInv, ShowcaseNext
    PROVE  ShowInv'
<1>1. CASE \E t \in Slots : TaskStep(t)
  BY <1>1, ShowcaseTaskStep
<1>2. CASE /\ \/ SysTickEnter /\ kern.ticks < MaxTicks
              \/ SysTickWake \/ SysTickExitCritical \/ SysTickCheck
              \/ PendSVEnter \/ PendSVSwitch
           /\ UNCHANGED <<semVars, consoleVars, at, demoVars>>
  <2>1. SysTick \/ PendSVEnter \/ PendSVSwitch
    BY <1>2 DEF SysTick
  <2>2. UNCHANGED <<semVars, consoleVars, at, demoVars>>
    BY <1>2
  <2> QED
    BY <2>1, <2>2, ExceptionStepKeeps
<1>3. CASE Transmit /\ UNCHANGED demoVars
  BY <1>3, TransmitStepKeeps
<1>4. CASE button_event_isr
  BY <1>4, AcceptKeeps
<1>5. CASE IsrToButton
  BY <1>5, IsrToButtonKeeps
<1>6. CASE IsrToShared
  BY <1>6, IsrToSharedKeeps
<1> QED
  BY <1>1, <1>2, <1>3, <1>4, <1>5, <1>6 DEF ShowcaseNext

-----------------------------------------------------------------------------
(* The inductive invariant of both demos. *)
AppIInv ==
    /\ SemPart /\ ConsoleInv /\ release_tick \in Ticks
    /\ \/ app = "showcase" /\ ShowcaseTypes /\ EventsInv
       \/ app = "priority" /\ button_sequence = 0

LEMMA ConsoleInitInv ==
    ASSUME ConsoleInit, at \in [Slots -> Statements \ {"row"}]
    PROVE  SemPart /\ ConsoleInv
<1>1. SemPart
  BY SemInitInv DEF ConsoleInit, SemIInv
<1>2. /\ sem[uart_lock].count = 1 /\ tokens = [s \in Semaphores |-> sem[s].count]
      /\ rows = [t \in Slots |-> NoRow] /\ dr = NULL /\ wire = <<>>
  <2>1. sem[uart_lock] = [count |-> 1, max |-> 1]
    BY DEF ConsoleInit
  <2> QED
    BY <2>1 DEF ConsoleInit, SemInit
<1>3. \A t \in Slots : pc[t] = "app" /\ ~Writes(t)
  <2>1. pc = [t \in Threads |-> "app"]
    BY DEF ConsoleInit, SemInit, Started, StartedWith
  <2> QED
    BY <2>1 DEF Writes, Threads
<1>4. ConsoleTypeOK
  <2>1. NoRow \in [left : 0 .. RowLength, polled : BOOLEAN]
    BY ConsoleFacts DEF NoRow
  <2> QED
    BY <2>1, <1>2 DEF ConsoleTypeOK
<1>5. OneWriter
  BY <1>2, <1>3, ConsoleFacts DEF OneWriter
<1>6. TakersReady
  BY <1>3 DEF TakersReady, TakeLocs
<1>7. WireInv
  <2>1. 0 \in Slots
    BY KernelFacts DEF Slots
  <2>2. OnWire(0, 0)
    BY <1>2, RowParts DEF OnWire
  <2> QED
    BY <2>1, <2>2, <1>3 DEF WireInv
<1> QED
  BY <1>1, <1>4, <1>5, <1>6, <1>7 DEF ConsoleInv

LEMMA QueuesInit ==
    ASSUME shared = Shared!artos_queue_init, button = Button!artos_queue_init
    PROVE  /\ Ring(shared, SharedCapacity, Cells) /\ Shared!Contents = <<>>
           /\ Ring(button, ButtonCapacity, Cells) /\ Button!Contents = <<>>
<1>1. Ring(shared, SharedCapacity, Cells)
  BY ShowcaseFacts DEF Shared!artos_queue_init, Ring, Storage, Cells
<1>2. Ring(button, ButtonCapacity, Cells)
  BY ShowcaseFacts DEF Button!artos_queue_init, Ring, Storage, Cells
<1>3. Shared!Contents = <<>>
  <2>1. shared.count = 0 /\ Shared!Contents \in Seq(Messages \cup {NULL})
    BY <1>1, SharedRing DEF Shared!artos_queue_init
  <2> QED
    BY <2>1 DEF Shared!Contents
<1>4. Button!Contents = <<>>
  <2>1. button.count = 0 /\ Button!Contents \in Seq(Messages \cup {NULL})
    BY <1>2, ButtonRing DEF Button!artos_queue_init
  <2> QED
    BY <2>1 DEF Button!Contents
<1> QED
  BY <1>1, <1>2, <1>3, <1>4

LEMMA ShowcaseInitInv ==
    ASSUME ShowcaseInit
    PROVE  SemPart /\ ConsoleInv /\ ShowcaseTypes /\ EventsInv
<1>1. PICK roles \in RoleSets : /\ role = [t \in Slots |-> roles[t + 1]]
                                /\ at = [t \in Slots |-> FirstStatement[roles[t + 1]]]
  BY DEF ShowcaseInit
<1>2. /\ role \in [Slots -> DOMAIN FirstStatement]
      /\ \A t \in Slots : at[t] = FirstStatement[role[t]]
      /\ at = [t \in Slots |-> FirstStatement[role[t]]]
  <2>1. \A t \in Slots : t + 1 \in 1 .. MaxTasks
    BY KernelFacts DEF Slots
  <2>2. roles \in [1 .. MaxTasks -> DOMAIN FirstStatement]
    BY <1>1, ShowcaseAssumption
  <2> QED
    BY <2>1, <2>2, <1>1
<1>3. \A t \in Slots : at[t] \in StatementsOf(role[t]) /\ at[t] \in Statements \ {"row"}
  BY <1>2 DEF FirstStatement, StatementsOf, Statements
<1>4. SemPart /\ ConsoleInv
  <2>1. at \in [Slots -> Statements \ {"row"}]
    BY <1>2, <1>3
  <2> QED
    BY <2>1, ConsoleInitInv DEF ShowcaseInit
<1>5. /\ shared = Shared!artos_queue_init /\ button = Button!artos_queue_init
      /\ shared_call = [t \in Slots |-> Shared!NoCall] /\ button_call = shared_call
      /\ local = [t \in Slots |-> [message |-> NULL, next_tick |-> 0, pulse |-> 1]]
      /\ isr = "idle" /\ button_sequence = 0
      /\ printed = [q \in QueueNames |-> [n \in ButtonEvents |-> 0]]
      /\ dropped = [q \in QueueNames |-> {}]
  BY DEF ShowcaseInit, QueueNames
<1>6. /\ Ring(shared, SharedCapacity, Cells) /\ Shared!Contents = <<>>
      /\ Ring(button, ButtonCapacity, Cells) /\ Button!Contents = <<>>
  BY <1>5, QueuesInit
<1>7. shared_call \in [Slots -> Calls] /\ button_call \in [Slots -> Calls]
  BY <1>5, ShowcaseFacts DEF Shared!NoCall, Calls
<1>8. /\ \A t \in Slots : local[t].message = NULL
      /\ local \in [Slots -> [message : Messages \cup {NULL}, next_tick : Ticks, pulse : Nat \ {0}]]
  BY <1>5, ShowcaseFacts
<1>9. ShowcaseTypes
  BY <1>2, <1>5, <1>6, <1>7, <1>8 DEF ShowcaseTypes
<1>10. LoggersInv
  <2>1. \A t \in Slots : pc[t] = "app"
    BY DEF ShowcaseInit, ConsoleInit, SemInit, Started, StartedWith, Threads
  <2> QED
    BY <2>1, <1>3, <1>8 DEF LoggersInv, ReceiveLocs
<1>11. IsrInv
  BY <1>5, ShowcaseFacts DEF IsrInv
<1>12. ASSUME NEW q \in QueueNames
       PROVE  dropped[q] \subseteq Copied(q) /\ \A n \in ButtonEvents : Accounted(q, n)
  <2>1. Copied(q) = {} /\ dropped[q] = {}
    BY <1>5 DEF Copied
  <2>2. ASSUME NEW n \in ButtonEvents PROVE Accounted(q, n)
    <3>1. Occurrences(Sent(q), n) = 0
      <4>1. Sent(q) = <<>>
        BY <1>6 DEF Sent
      <4>2. {i \in DOMAIN Sent(q) : Sent(q)[i] = n} = {}
        BY <4>1
      <4> QED
        BY <4>2, FS_EmptySet DEF Occurrences
    <3>2. Holders(Printer(q), n) = 0
      <4>1. \A t \in Slots : local[t].message # n
        BY <1>8, MessagesNotNull
      <4>2. {t \in Slots : Is(t, Printer(q)) /\ local[t].message = n} = {}
        BY <4>1
      <4> QED
        BY <4>2, FS_EmptySet DEF Holders
    <3>3. printed[q][n] = 0
      BY <1>5
    <3> QED
      BY <3>1, <3>2, <3>3, <2>1 DEF Accounted
  <2> QED
    BY <2>1, <2>2
<1>13. EventsInv
  BY <1>10, <1>11, <1>12 DEF EventsInv
<1> QED
  BY <1>4, <1>9, <1>13

LEMMA AppInitInv == AppInit => AppIInv
<1> SUFFICES ASSUME AppInit PROVE AppIInv
  OBVIOUS
<1>1. 0 \in Ticks
  BY ShowcaseFacts
<1>2. CASE app = "showcase" /\ ShowcaseInit /\ release_tick = 0
  BY <1>1, <1>2, ShowcaseInitInv DEF AppIInv
<1>3. CASE app = "priority" /\ PriorityInit /\ button_sequence = 0
  <2>1. at \in [Slots -> Statements \ {"row"}] /\ ConsoleInit /\ release_tick = 0
    BY <1>3 DEF PriorityInit, Statements
  <2>2. SemPart /\ ConsoleInv
    BY <2>1, ConsoleInitInv
  <2> QED
    BY <2>1, <2>2, <1>1, <1>3 DEF AppIInv
<1> QED
  BY <1>2, <1>3 DEF AppInit

LEMMA AppStepInv == AppIInv /\ [AppNext]_appVars => AppIInv'
<1> SUFFICES ASSUME AppIInv, [AppNext]_appVars PROVE AppIInv'
  OBVIOUS
<1>1. SemPart /\ ConsoleInv /\ release_tick \in Ticks
  BY DEF AppIInv
<1>2. CASE app = "showcase" /\ app' = app /\ ShowcaseNext /\ UNCHANGED workVars
  <2>1. ShowInv
    BY <1>2 DEF AppIInv, ShowInv
  <2>2. ShowInv'
    BY <2>1, <1>2, ShowcaseStep
  <2>3. release_tick' = release_tick
    BY <1>2 DEF workVars
  <2> QED
    BY <2>2, <2>3, <1>1, <1>2 DEF AppIInv, ShowInv
<1>3. CASE app = "priority" /\ app' = app /\ PriorityNext /\ UNCHANGED demoVars
  <2>1. SemPart' /\ ConsoleInv' /\ release_tick' \in Ticks
    BY <1>1, <1>3, PriorityStep
  <2>2. button_sequence' = button_sequence /\ button_sequence = 0
    BY <1>3 DEF demoVars, isrVars, AppIInv
  <2> QED
    BY <2>1, <2>2, <1>3 DEF AppIInv
<1>4. CASE UNCHANGED appVars
  <2>1. /\ UNCHANGED semSpecVars /\ UNCHANGED <<consoleVars, at>> /\ UNCHANGED demoVars
        /\ release_tick' = release_tick /\ app' = app
    BY <1>4 DEF appVars, allVars, workVars
  <2>2. SemPart' /\ TakersStay /\ UNCHANGED semVars /\ pc' = pc
    BY <2>1, <1>1, NoCallKeeps DEF semSpecVars, schedVars
  <2>3. ConsoleInv'
    BY <2>1, <2>2, <1>1, OtherStepKeeps
  <2>4. CASE app = "priority"
    <3>1. button_sequence' = button_sequence /\ button_sequence = 0
      BY <2>1, <2>4 DEF demoVars, isrVars, AppIInv
    <3> QED
      BY <3>1, <2>1, <2>2, <2>3, <2>4, <1>1 DEF AppIInv
  <2>5. CASE app = "showcase"
    <3>1. ShowInv
      BY <2>5 DEF AppIInv, ShowInv
    <3>2. \A u \in Slots : pc'[u] \in ReceiveLocs => pc[u] \in ReceiveLocs
      BY <2>2
    <3>3. ShowInv'
      BY <3>1, <3>2, <2>1, <2>2, KernelStepKeeps
    <3> QED
      BY <3>3, <2>1, <2>5, <1>1 DEF AppIInv, ShowInv
  <2> QED
    BY <2>4, <2>5 DEF AppIInv
<1> QED
  BY <1>2, <1>3, <1>4 DEF AppNext

(* The invariant of the demos holds in every state of theirs: who writes   *)
(* the console holds uart_lock, and each event is in one place.            *)
THEOREM AppInvariance == AppSpec => []AppIInv
<1> QED
  BY AppInitInv, AppStepInv, PTL DEF AppSpec

(* Rows are complete and not interleaved (README.md:243), whichever task   *)
(* preempts board_uart_write_char between its two accesses to the UART.    *)
THEOREM RowsAreIntact == AppSpec => []RowsIntact
<1>1. AppIInv => RowsIntact
  BY RowsFollow DEF AppIInv
<1> QED
  BY <1>1, AppInvariance, PTL

(* Each button event is printed once, in the hands of a logger or in the   *)
(* queue, for each of the two queues, unless that queue was full when      *)
(* button_event_isr copied it.                                             *)
THEOREM NoEventLost == AppSpec => []EventsAccountedFor
<1>1. AppIInv => EventsAccountedFor
  <2> SUFFICES ASSUME AppIInv PROVE EventsAccountedFor
    OBVIOUS
  <2>1. CASE ShowcaseTypes /\ EventsInv
    BY <2>1, EventsFollow
  <2>2. CASE button_sequence = 0
    BY <2>2 DEF EventsAccountedFor
  <2> QED
    BY <2>1, <2>2 DEF AppIInv
<1> QED
  BY <1>1, AppInvariance, PTL
=============================================================================
