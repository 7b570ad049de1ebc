---------------------------- MODULE PriorityDemo ----------------------------
(***************************************************************************)
(* The priority demo, src/src/demos/priority/main.c: two workers of low    *)
(* priority that compute, report now and then and yield, and one task of   *)
(* high priority that preempts them once per period.  LED and work_sink,   *)
(* which nothing reads, are left out.                                      *)
(***************************************************************************)
EXTENDS Console

CONSTANTS
    Rounds,   \* the rounds of work between two reports of a worker (100)
    Period,   \* the period of the high task (1000 ms)
    OnTime    \* how long it leaves the LED on (100 ms)

ASSUME PriorityDemoAssumption ==
    Rounds \in Nat \ {0} /\ Period \in Ticks /\ OnTime \in Ticks

VARIABLES
    rounds,        \* the variable rounds of each worker
    release_tick   \* the variable release_tick of the high task

workVars == <<rounds, release_tick>>
priorityVars == <<semSpecVars, consoleVars, at, workVars>>

Workers == {0, 1}
High == 2

(* main creates the tasks in the order of their numbers: LOW_PRIORITY is 0 *)
(* and HIGH_PRIORITY is 1.                                                 *)
PriorityInit ==
    /\ ConsoleInit
    /\ \A t \in Slots : kern.priority[t] = IF t = High THEN 1 ELSE 0
    /\ at = [t \in Slots |-> IF t = High THEN "begin" ELSE "work"]
    /\ rounds = [t \in Workers |-> 0]
    /\ release_tick = 0

HighBegin ==
    /\ Statement(High, "begin", "release")
    /\ release_tick' = kern.ticks
    /\ UNCHANGED <<semSpecVars, consoleVars, rounds>>

Release ==
    /\ Statement(High, "release", "take")
    /\ release_tick' = (release_tick + Period) % TickMod
    /\ UNCHANGED <<semSpecVars, consoleVars, rounds>>

LedOn ==
    /\ Statement(High, "on", "off")
    /\ artos_wait(High, OnTime)
    /\ UNCHANGED <<semVars, consoleVars, workVars>>

LedOff ==
    /\ Statement(High, "off", "release")
    /\ artos_wait_until(High, release_tick)
    /\ UNCHANGED <<semVars, consoleVars, workVars>>

high_task ==
    \/ HighBegin \/ Release \/ LedOn \/ LedOff
    \/ /\ TakeConsole(High, "take") \/ SignalConsole(High, "on")
       /\ UNCHANGED workVars

Work(t) ==
    /\ Statement(t, "work", IF rounds[t] + 1 = Rounds THEN "take" ELSE "yield")
    /\ rounds' = [rounds EXCEPT ![t] = (@ + 1) % Rounds]
    /\ UNCHANGED <<semSpecVars, consoleVars, release_tick>>

Yield(t) ==
    /\ Statement(t, "yield", "work")
    /\ artos_yield(t)
    /\ UNCHANGED <<semVars, consoleVars, workVars>>

worker_task(t) ==
    \/ Work(t) \/ Yield(t)
    \/ /\ TakeConsole(t, "take") \/ SignalConsole(t, "yield")
       /\ UNCHANGED workVars

PriorityTaskStep(t) ==
    \/ t = High /\ high_task
    \/ t \in Workers /\ worker_task(t)
    \/ (PollTXE(t) \/ StoreDR(t)) /\ UNCHANGED workVars
    \/ (TakeSwitch(t) \/ TakeReturn(t)) /\ UNCHANGED <<consoleVars, at, workVars>>
    \/ Switch(t) /\ UNCHANGED <<semVars, consoleVars, at, workVars>>

PriorityInterrupt ==
    /\ SysTick \/ PendSVEnter \/ PendSVSwitch
    /\ UNCHANGED <<semVars, consoleVars, at, workVars>>

PriorityNext ==
    \/ \E t \in Slots : PriorityTaskStep(t)
    \/ PriorityInterrupt
    \/ Transmit /\ UNCHANGED workVars

PrioritySpec == PriorityInit /\ [][PriorityNext]_priorityVars
=============================================================================
