----------------------------- MODULE MutexDemo -----------------------------
(***************************************************************************)
(* The mutex demo, src/src/demos/mutex/main.c: LOW locks the mutex while   *)
(* HIGH sleeps, and hands it over when HIGH has waited for it.  The rows   *)
(* the tasks print are the history log; the LED is left out.               *)
(***************************************************************************)
EXTENDS Mutex

CONSTANTS
    mutex,
    LowHold, LowBlink, ReportAfter,              \* 5000, 100 and 1500 ms
    HighBusy, HighSleep, HighBlink, HighInterval,  \* 3000, 1000, 3000 and 500 ms
    Slack   \* ticks that may pass while code runs that does not wait for time

ASSUME MutexDemoAssumption ==
    /\ mutex \in Mutexes
    /\ {LowHold, LowBlink, ReportAfter, HighBusy, HighSleep, HighBlink,
        HighInterval} \subseteq Ticks
    /\ Slack \in Nat

VARIABLES
    at,        \* the statement each task executes next
    start,     \* the variable start_tick of each task's current loop
    reported,  \* inheritance_reported
    log,       \* history: what was printed
    spent      \* the ticks of Slack used since time was last waited for

demoVars == <<at, start, reported, log>>
allVars == <<mutexSpecVars, demoVars, spent>>

Low == 0
High == 1

DemoInit ==
    /\ MutexInit
    /\ at = (Low :> "lock" @@ High :> "begin")
    /\ start = (Low :> 0 @@ High :> 0)
    /\ reported = FALSE
    /\ log = <<>>
    /\ spent = 0

-----------------------------------------------------------------------------
(* Task t goes from one statement to another, which it executes when its   *)
(* kernel call, if the statement is one, has returned.                     *)
Statement(t, from, to) == At(t, "app") /\ at[t] = from /\ at' = [at EXCEPT ![t] = to]

Say(s) == log' = Append(log, s)

StartClock(t) == start' = [start EXCEPT ![t] = kern.ticks]

Elapsed(t) == (kern.ticks - start[t]) % TickMod

(* low_task *)
LowLock ==
    /\ Statement(Low, "lock", "acquired")
    /\ artos_mutex_lock(Low, mutex, ARTOS_DELAY_INFINITY)
    /\ UNCHANGED <<start, reported, log>>

LowAcquired ==
    /\ Statement(Low, "acquired", "hold")
    /\ mutex \in inside[Low]
    /\ Say("LOW acquired mutex")
    /\ StartClock(Low)
    /\ UNCHANGED <<mutexSpecVars, reported>>

LowHoldLoop ==
    /\ Statement(Low, "hold", "check")
    /\ Elapsed(Low) < LowHold
    /\ artos_wait(Low, LowBlink)
    /\ UNCHANGED <<mutexVars, start, reported, log>>

(* artos_task_get_info reports the priorities of LOW. *)
LowReport ==
    /\ Statement(Low, "check", "hold")
    /\ IF ~reported /\ Elapsed(Low) >= ReportAfter
       THEN /\ Say(<<"LOW while HIGH waits", kern.priority[Low], kern.eff[Low]>>)
            /\ reported' = TRUE
       ELSE UNCHANGED <<log, reported>>
    /\ UNCHANGED <<mutexSpecVars, start>>

LowUnlock ==
    /\ Statement(Low, "hold", "sleep")
    /\ Elapsed(Low) >= LowHold
    /\ Say("LOW releasing mutex")
    /\ artos_mutex_unlock(Low, mutex)
    /\ UNCHANGED <<start, reported>>

(* high_task *)
HighBegin ==
    /\ Statement(High, "begin", "busy")
    /\ Say("HIGH slow-blinking")
    /\ StartClock(High)
    /\ UNCHANGED <<mutexSpecVars, reported>>

(* The end of high_priority_busy_blink, and the sleep. *)
HighSleeps ==
    /\ Statement(High, "busy", "lock")
    /\ Elapsed(High) >= HighBusy
    /\ Say("HIGH sleeping")
    /\ artos_wait(High, HighSleep)
    /\ UNCHANGED <<mutexVars, start, reported>>

HighLock ==
    /\ Statement(High, "lock", "received")
    /\ Say("HIGH waiting for mutex")
    /\ artos_mutex_lock(High, mutex, ARTOS_DELAY_INFINITY)
    /\ UNCHANGED <<start, reported>>

HighReceived ==
    /\ Statement(High, "received", "blink")
    /\ mutex \in inside[High]
    /\ Say("HIGH received mutex")
    /\ StartClock(High)
    /\ UNCHANGED <<mutexSpecVars, reported>>

(* blink_with_delay *)
HighBlinkLoop ==
    /\ Statement(High, "blink", "blink")
    /\ Elapsed(High) < HighBlink
    /\ artos_wait(High, HighInterval)
    /\ UNCHANGED <<mutexVars, start, reported, log>>

HighUnlock ==
    /\ Statement(High, "blink", "complete")
    /\ Elapsed(High) >= HighBlink
    /\ artos_mutex_unlock(High, mutex)
    /\ UNCHANGED <<start, reported, log>>

HighComplete ==
    /\ Statement(High, "complete", "sleep")
    /\ Say("Mutex demo complete")
    /\ UNCHANGED <<mutexSpecVars, start, reported>>

(* Both tasks end in a loop of unlimited waits. *)
SleepForever(t) ==
    /\ Statement(t, "sleep", "sleep")
    /\ artos_wait(t, ARTOS_DELAY_INFINITY)
    /\ UNCHANGED <<mutexVars, start, reported, log>>

TaskStep ==
    \/ LowLock \/ LowAcquired \/ LowHoldLoop \/ LowReport \/ LowUnlock
    \/ HighBegin \/ HighSleeps \/ HighLock \/ HighReceived
    \/ HighBlinkLoop \/ HighUnlock \/ HighComplete
    \/ \E t \in Slots :
          \/ SleepForever(t)
          \/ (LockSwitch(t) \/ LockReturn(t)) /\ UNCHANGED demoVars
          \/ Switch(t) /\ UNCHANGED <<mutexVars, demoVars>>

(* The running code waits for time to pass: the idle task, or the loop of  *)
(* high_priority_busy_blink.                                               *)
WaitsForTime ==
    /\ Settled
    /\ \/ kern.cur = IDLE
       \/ kern.cur = High /\ at[High] = "busy" /\ Elapsed(High) < HighBusy

(* The demo is about times that are long compared with what its code takes: *)
(* at most Slack ticks pass before time is waited for again.               *)
Tick ==
    /\ SysTickEnter
    /\ WaitsForTime \/ spent < Slack
    /\ spent' = IF WaitsForTime THEN 0 ELSE spent + 1
    /\ UNCHANGED <<mutexVars, demoVars>>

DemoNext ==
    \/ TaskStep /\ UNCHANGED spent
    \/ Tick
    \/ /\ \/ SysTickWake \/ SysTickExitCritical \/ SysTickCheck
          \/ PendSVEnter \/ PendSVSwitch
       /\ UNCHANGED <<mutexVars, demoVars, spent>>

DemoSpec == DemoInit /\ [][DemoNext]_allVars /\ WF_allVars(DemoNext)
-----------------------------------------------------------------------------
Script ==
    << "HIGH slow-blinking", "HIGH sleeping", "LOW acquired mutex",
       "HIGH waiting for mutex", <<"LOW while HIGH waits", 0, 1>>,
       "LOW releasing mutex", "HIGH received mutex", "Mutex demo complete" >>

(* The one-shot sequence of README.md:277-283, played to its end whatever  *)
(* the moment of the ticks: HIGH sleeps so that LOW can lock the mutex,    *)
(* LOW reports base priority 0 and inherited priority 1 while HIGH waits,  *)
(* and HIGH receives the mutex, with nothing in between, when LOW releases *)
(* it.                                                                     *)
PlaysScript == []IsPrefix(log, Script) /\ <>(log = Script)
=============================================================================
