------------------------------ MODULE Showcase ------------------------------
(***************************************************************************)
(* The showcase demo, src/src/demos/showcase/main.c: button interrupts and *)
(* a heartbeat task feed a queue that logger tasks share, button events    *)
(* are copied to a second queue with a logger of its own, and all loggers  *)
(* print rows on the console.  All tasks have DEFAULT_PRIORITY, 1.  A      *)
(* message is its event, numbered if it is a button event; the ticks that  *)
(* are only printed, the LED and load_sink are left out.                   *)
(***************************************************************************)
EXTENDS Console

CONSTANTS
    shared_read, shared_write, button_read, button_write,  \* the wait lists
    SharedCapacity, ButtonCapacity,  \* QUEUE_CAPACITY, BUTTON_QUEUE_CAPACITY
    RoleSets,           \* the functions of the tasks, in order of creation: a
                        \* set of sequences, one per part of the demo
    LedWaits,           \* the waits of a period of led_task, in order
    LedPeriod,          \* 2000 ms
    HeartbeatInterval,  \* HEARTBEAT_INTERVAL_MS
    ConsumerTimeout,    \* CONSUMER_TIMEOUT_MS
    ConsumerDelays,     \* the delay_ms of the loggers
    Debounce,           \* BUTTON_DEBOUNCE_MS
    MaxPresses,         \* bound on the button events that are accepted
    MaxTicks            \* bound on the ticks that pass

Heartbeat == 0
ButtonEvents == 1 .. MaxPresses
Messages == {Heartbeat} \cup ButtonEvents

(* The statement each task function starts with. *)
FirstStatement ==
    [f \in {"led_task", "heartbeat_task", "load_task", "logger_task", "button_logger_task"} |->
        CASE f \in {"led_task", "heartbeat_task"} -> "begin"
          [] f = "load_task" -> "load"
          [] OTHER -> "dequeue"]

ASSUME ShowcaseAssumption ==
    /\ {shared_read, shared_write, button_read, button_write} \subseteq WaitLists \ Semaphores
    /\ shared_read # shared_write /\ button_read # button_write
    /\ {shared_read, shared_write} \cap {button_read, button_write} = {}
    /\ {SharedCapacity, ButtonCapacity} \subseteq Nat \ {0}
    /\ RoleSets \subseteq [1 .. MaxTasks -> DOMAIN FirstStatement]
    /\ LedWaits \in Seq(Ticks)
    /\ {LedPeriod, HeartbeatInterval, ConsumerTimeout, Debounce} \cup ConsumerDelays \subseteq Ticks
    /\ {MaxPresses, MaxTicks} \subseteq Nat
    /\ NULL \notin Messages

VARIABLES
    role,                             \* the function of each task
    shared, shared_call, shared_got,  \* the variable queue
    button, button_call, button_got,  \* button_queue
    gaveup,     \* as in module Queue
    local,      \* per task: message, and next_tick or the position in LedWaits
    isr,        \* where button_event_isr is
    button_sequence, last_button_tick,
    printed,    \* history: how often each queue's loggers printed each event
    dropped     \* history: the events each queue was too full for

Shared == INSTANCE Queue WITH
    read_list <- shared_read, write_list <- shared_write, Capacity <- SharedCapacity,
    Items <- Messages, queue <- shared, calling <- shared_call, got <- shared_got,
    Timeouts <- {ConsumerTimeout}
Button == INSTANCE Queue WITH
    read_list <- button_read, write_list <- button_write, Capacity <- ButtonCapacity,
    Items <- Messages, queue <- button, calling <- button_call, got <- button_got,
    Timeouts <- {ConsumerTimeout}

sharedVars == <<shared, shared_call, shared_got>>
buttonVars == <<button, button_call, button_got>>
queueVars == <<sharedVars, buttonVars, gaveup>>
isrVars == <<isr, button_sequence, last_button_tick>>
histVars == <<printed, dropped>>
demoVars == <<role, queueVars, local, isrVars, histVars>>
allVars == <<semSpecVars, consoleVars, at, demoVars>>

ShowcaseInit ==
    /\ ConsoleInit
    /\ \A t \in Slots : kern.priority[t] = 1
    /\ \E roles \in RoleSets :
          /\ role = [t \in Slots |-> roles[t + 1]]
          /\ at = [t \in Slots |-> FirstStatement[roles[t + 1]]]
    /\ shared = Shared!artos_queue_init /\ button = Button!artos_queue_init
    /\ shared_call = [t \in Slots |-> Shared!NoCall] /\ button_call = shared_call
    /\ shared_got = NULL /\ button_got = NULL
    /\ gaveup = FALSE
    /\ local = [t \in Slots |-> [message |-> NULL, next_tick |-> 0, pulse |-> 1]]
    /\ isr = "idle" /\ button_sequence = 0 /\ last_button_tick = 0
    /\ printed = [q \in {"shared", "button"} |-> [n \in ButtonEvents |-> 0]]
    /\ dropped = [q \in {"shared", "button"} |-> {}]

-----------------------------------------------------------------------------
(* EXTI15_10_IRQHandler calls button_event_isr, which is not preempted by  *)
(* anything but runs a critical section per queue; button_seen is          *)
(* button_sequence # 0.  The yield after the two copies is part of them.   *)
button_event_isr ==
    /\ InterruptEnabled /\ isr = "idle"
    /\ \/ button_sequence = 0
       \/ (kern.ticks - last_button_tick) % TickMod >= Debounce
    /\ button_sequence < MaxPresses
    /\ button_sequence' = button_sequence + 1
    /\ last_button_tick' = kern.ticks
    /\ isr' = "button"
    /\ UNCHANGED <<semSpecVars, consoleVars, at, role, queueVars, local, histVars>>

(* A full queue drops the event. *)
Drop(q) == dropped' = [dropped EXCEPT ![q] = @ \cup {button_sequence}]

IsrToButton ==
    /\ isr = "button"
    /\ isr' = "shared"
    /\ \/ Button!artos_queue_enqueue_from_isr(button_sequence) /\ UNCHANGED dropped
       \/ button.count = ButtonCapacity /\ Drop("button")
          /\ UNCHANGED <<schedVars, buttonVars, gaveup>>
    /\ UNCHANGED <<semVars, consoleVars, at, role, sharedVars, local,
                   button_sequence, last_button_tick, printed>>

(* Fault: the event is not copied when its first copy was dropped. *)
IsrToShared_Either ==
    /\ isr = "shared"
    /\ isr' = "idle"
    /\ \/ button_sequence \notin dropped["button"]
          /\ Shared!artos_queue_enqueue_from_isr(button_sequence) /\ UNCHANGED dropped
       \/ shared.count = SharedCapacity /\ Drop("shared")
          /\ UNCHANGED <<schedVars, sharedVars, gaveup>>
       \/ button_sequence \in dropped["button"] /\ shared.count # SharedCapacity
          /\ UNCHANGED <<schedVars, sharedVars, gaveup, dropped>>
    /\ UNCHANGED <<semVars, consoleVars, at, role, buttonVars, local,
                   button_sequence, last_button_tick, printed>>

IsrToShared ==
    /\ isr = "shared"
    /\ isr' = "idle"
    /\ \/ Shared!artos_queue_enqueue_from_isr(button_sequence) /\ UNCHANGED dropped
       \/ shared.count = SharedCapacity /\ Drop("shared")
          /\ UNCHANGED <<schedVars, sharedVars, gaveup>>
    /\ UNCHANGED <<semVars, consoleVars, at, role, buttonVars, local,
                   button_sequence, last_button_tick, printed>>

-----------------------------------------------------------------------------
Is(t, r) == role[t] = r

(* led_task and heartbeat_task begin by reading the tick. *)
Begin(t) ==
    /\ Statement(t, "begin", IF Is(t, "led_task") THEN "led" ELSE "publish")
    /\ local' = [local EXCEPT ![t].next_tick = kern.ticks]
    /\ UNCHANGED <<semSpecVars, consoleVars, role, queueVars, isrVars, histVars>>

(* A period of led_task: the waits of the pattern, then the absolute wait. *)
led_task(t) ==
    LET pulse == local[t].pulse
        next  == (local[t].next_tick + LedPeriod) % TickMod
    IN  /\ Is(t, "led_task")
        /\ Statement(t, "led", "led")
        /\ \/ /\ pulse <= Len(LedWaits)
              /\ artos_wait(t, LedWaits[pulse])
              /\ local' = [local EXCEPT ![t].pulse = @ + 1]
           \/ /\ pulse > Len(LedWaits)
              /\ artos_wait_until(t, next)
              /\ local' = [local EXCEPT ![t].pulse = 1, ![t].next_tick = next]
        /\ UNCHANGED <<semVars, consoleVars, role, queueVars, isrVars, histVars>>

(* heartbeat_task: the result of the enqueue is not looked at. *)
Publish(t) ==
    /\ Statement(t, "publish", "sleep")
    /\ Shared!artos_queue_enqueue(t, Heartbeat, 0)
    /\ UNCHANGED <<semVars, consoleVars, role, buttonVars, local, isrVars, histVars>>

Sleep(t) ==
    LET next == (local[t].next_tick + HeartbeatInterval) % TickMod
    IN  /\ Statement(t, "sleep", "publish")
        /\ artos_wait_until(t, next)
        /\ local' = [local EXCEPT ![t].next_tick = next]
        /\ UNCHANGED <<semVars, consoleVars, role, queueVars, isrVars, histVars>>

heartbeat_task(t) == Publish(t) \/ Sleep(t)

(* A dequeue by t that takes an item leaves it in message. *)
Receive(t, taken, item) ==
    local' = [local EXCEPT ![t].message = IF taken THEN item ELSE NULL]

(* A logger prints the message, or that there was none ... *)
LoggerDequeue(t) ==
    /\ Is(t, "logger_task")
    /\ \/ Statement(t, "dequeue", "take") /\ Shared!artos_queue_dequeue(t, ConsumerTimeout)
       \/ Shared!DequeueWoken(t) /\ UNCHANGED at
    /\ Receive(t, shared'.count # shared.count, shared_got')
    /\ UNCHANGED <<semVars, consoleVars, role, buttonVars, isrVars, histVars>>

ButtonDequeue(t) ==
    /\ Is(t, "button_logger_task")
    /\ \/ /\ Statement(t, "dequeue", "take")
          /\ Button!artos_queue_dequeue(t, ARTOS_DELAY_INFINITY)
       \/ Button!DequeueWoken(t) /\ UNCHANGED at
    /\ Receive(t, button'.count # button.count, button_got')
    /\ UNCHANGED <<semVars, consoleVars, role, sharedVars, isrVars, histVars>>

TakeUart(t) ==
    /\ TakeConsole(t, "take")
    /\ UNCHANGED demoVars

(* ... and counts as having printed it when it gives back the console.     *)
RowDone(t) ==
    LET q == IF Is(t, "button_logger_task") THEN "button" ELSE "shared"
        n == local[t].message
    IN  /\ SignalConsole(t, IF Is(t, "button_logger_task") \/ n = NULL
                            THEN "dequeue" ELSE "delay")
        /\ printed' = IF n \in ButtonEvents THEN [printed EXCEPT ![q][n] = @ + 1]
                      ELSE printed
        /\ local' = [local EXCEPT ![t].message = NULL]
        /\ UNCHANGED <<role, queueVars, isrVars, dropped>>

LoggerDelay(t) ==
    /\ Statement(t, "delay", "dequeue")
    /\ \E n \in ConsumerDelays : artos_wait(t, n)
    /\ UNCHANGED <<semVars, consoleVars, demoVars>>

load_task(t) ==
    /\ Is(t, "load_task")
    /\ Statement(t, "load", "load")
    /\ artos_yield(t)
    /\ UNCHANGED <<semVars, consoleVars, demoVars>>

TaskStep(t) ==
    \/ Begin(t) \/ led_task(t) \/ heartbeat_task(t) \/ load_task(t)
    \/ LoggerDequeue(t) \/ ButtonDequeue(t)
    \/ TakeUart(t) \/ RowDone(t) \/ LoggerDelay(t)
    \/ (PollTXE(t) \/ StoreDR(t)) /\ UNCHANGED demoVars
    \/ (TakeSwitch(t) \/ TakeReturn(t)) /\ UNCHANGED <<consoleVars, at, demoVars>>
    \/ /\ \/ Switch(t)
          \/ rtos_port_request_context_switch(t, "dequeue_switch", "dequeue_woken")
       /\ UNCHANGED <<semVars, consoleVars, at, demoVars>>

ShowcaseNext ==
    \/ /\ isr = "idle"
       /\ \/ \E t \in Slots : TaskStep(t)
          \/ /\ \/ SysTickEnter /\ kern.ticks < MaxTicks
                \/ SysTickWake \/ SysTickExitCritical \/ SysTickCheck
                \/ PendSVEnter \/ PendSVSwitch
             /\ UNCHANGED <<semVars, consoleVars, at, demoVars>>
    \/ Transmit /\ UNCHANGED demoVars
    \/ button_event_isr \/ IsrToButton \/ IsrToShared

ShowcaseSpec == ShowcaseInit /\ [][ShowcaseNext]_allVars
-----------------------------------------------------------------------------
Occurrences(q, n) == Cardinality({i \in DOMAIN q : q[i] = n})
Holders(r, n) == Cardinality({t \in Slots : Is(t, r) /\ local[t].message = n})

(* Each accepted event is copied into both queues (README.md:263) and, in  *)
(* each, goes one way: it is in the queue, in the hands of one logger, or  *)
(* printed once; unless the queue was full.  It is neither lost nor        *)
(* doubled by loggers that time out, compete for it or are released for an *)
(* item another one takes.                                                 *)
EventsAccountedFor ==
    isr = "idle" => \A n \in 1 .. button_sequence :
        /\ Occurrences(Shared!Contents, n) + Holders("logger_task", n)
           + printed["shared"][n] = IF n \in dropped["shared"] THEN 0 ELSE 1
        /\ Occurrences(Button!Contents, n) + Holders("button_logger_task", n)
           + printed["button"][n] = IF n \in dropped["button"] THEN 0 ELSE 1
=============================================================================
