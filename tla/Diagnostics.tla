---------------------------- MODULE Diagnostics ----------------------------
(***************************************************************************)
(* What is left for a debugger after a failure: the records of             *)
(* src/src/rtos/diagnostics.c and of the HardFault handler of the port,    *)
(* and rtos_port_halt, on top of module Port.                              *)
(***************************************************************************)
EXTENDS Port

CONSTANT Setups  \* the pairs of ARTOS_DEBUG_BREAK_ON_FAILURE and whether a
                 \* debugger is attached, so that a breakpoint stops the CPU

ASSUME DiagnosticsAssumption == Setups \subseteq BOOLEAN \X BOOLEAN /\ NULL \notin Setups

VARIABLES
    setup,         \* the pair of Setups in use, NULL before it first matters
    failure_info,  \* rtos_failure_info: the reason and _cur_task, or NULL
    fault_info,    \* rtos_fault_info: whose frame and which of its words, or NULL
    cpu,           \* "running", "halting" (in rtos_port_halt), "stopped" by the
                   \* debugger, "halted" or in "lockup"
    cause          \* history: the reason of the first failure and the thread it hit

diagVars == <<setup, failure_info, fault_info, cpu, cause>>
allVars == <<vars, diagVars>>

DiagInit ==
    /\ PortInit
    /\ setup = NULL
    /\ failure_info = NULL /\ fault_info = NULL
    /\ cpu = "running"
    /\ cause = NULL

-----------------------------------------------------------------------------
(* Fault: the task is not recorded. *)
RecordFailure_NoTask(reason) ==
    /\ failure_info' = [reason |-> reason, task |-> NULL]
    /\ cpu' = "halting"

(* The record is written with interrupts masked, then the CPU halts. *)
rtos_record_failure(reason) ==
    /\ failure_info' = [reason |-> reason, task |-> kern.cur]
    /\ cpu' = "halting"

FirstCause(reason, t) == cause' = IF cause = NULL THEN [reason |-> reason, task |-> t] ELSE cause

(* The kernel runs; the stack check of a context switch can fail. *)
KernelStep ==
    /\ cpu = "running"
    /\ PortNext
    /\ IF kern'.failed
       THEN /\ rtos_record_failure("STACK_OVERFLOW")
            /\ FirstCause("STACK_OVERFLOW", live.psp)
            /\ UNCHANGED <<setup, fault_info>>
       ELSE UNCHANGED diagVars

(* Thread code fails: a task returns from its function into                *)
(* rtos_port_task_return_trap, or a kernel function it calls finds an      *)
(* ARTOS_ASSERT false (memory was corrupted: module Scheduler has none).   *)
ThreadFails(t, reason) ==
    /\ cpu = "running"
    /\ Runs(t)
    /\ kern' = Fail(kern)
    /\ rtos_record_failure(reason)
    /\ FirstCause(reason, t)
    /\ UNCHANGED <<pend, switching, systick, pc, portVars, setup, fault_info>>

-----------------------------------------------------------------------------
(* The words of an exception frame, from the lowest address up, and what   *)
(* lies above it.                                                          *)
BasicFrame == <<"r0", "r1", "r2", "r3", "r12", "lr", "pc", "xpsr">>

FrameWord(fp, i) ==
    IF i < 8 THEN BasicFrame[i + 1]
    ELSE IF fp /\ i < 24 THEN "s0-s15"
    ELSE IF fp /\ i < HwWords(TRUE) THEN "fpscr"
    ELSE "above"

(* The hardware stacks the frame of a fault on PSP for the code of a task, *)
(* on MSP for main and for a handler, and EXC_RETURN tells which.          *)
OnPSP == live.core # HANDLER /\ live.spsel = "PSP"
FaultPSP == IF OnPSP THEN Append(stack[live.psp], HwFrame(live)) ELSE stack[live.psp]
FaultMSP == IF OnPSP THEN msp ELSE Append(msp, HwFrame(live))

(* Fault: the frame is always taken from the main stack. *)
FaultFrame_MainStack(lr) == Last(FaultMSP)

(* The frame HardFault_Handler passes on. *)
FaultFrame(lr) == IF lr.psp THEN Last(FaultPSP) ELSE Last(FaultMSP)

(* rtos_port_hard_fault_c, entered with EXC_RETURN lr. *)
rtos_port_hard_fault_c(lr) ==
    LET skip == IF lr.fp THEN 18 ELSE 0
    IN  /\ fault_info' = [of |-> FaultFrame(lr).core,
                          words |-> [i \in 1 .. 8 |-> FrameWord(lr.fp, i - 1 + skip)]]
        /\ rtos_record_failure("PORT_FAULT")

(* The code of thread t raises a HardFault. *)
HardFault(t) ==
    /\ cpu = "running"
    /\ Runs(t)
    /\ kern' = Fail(kern)
    /\ rtos_port_hard_fault_c(ExcReturn(OnPSP, live.fpca))
    /\ FirstCause("PORT_FAULT", t)
    /\ UNCHANGED <<pend, switching, systick, pc, portVars, setup>>

(* rtos_port_halt.  Without a debugger a breakpoint raises a HardFault     *)
(* (DebugMonitor is not enabled), and a second one locks the CPU up.       *)
rtos_port_halt ==
    LET DebugBreak == setup'[1]
        Debugger   == setup'[2]
    IN  /\ cpu = "halting"
        /\ setup' \in IF setup = NULL THEN Setups ELSE {setup}
        /\ \/ /\ DebugBreak => Debugger
              /\ cpu' = IF DebugBreak THEN "stopped" ELSE "halted"
              /\ UNCHANGED <<failure_info, fault_info>>
           \/ /\ DebugBreak /\ ~Debugger
              /\ fault_info = NULL
              /\ rtos_port_hard_fault_c(ExcReturn(OnPSP, live.fpca))
           \/ /\ DebugBreak /\ ~Debugger
              /\ fault_info # NULL
              /\ cpu' = "lockup"
              /\ UNCHANGED <<failure_info, fault_info>>
        /\ UNCHANGED <<vars, cause>>

DiagNext ==
    \/ KernelStep
    \/ \E t \in Slots :
          ThreadFails(t, "TASK_RETURN") \/ ThreadFails(t, "ASSERT") \/ HardFault(t)
    \/ rtos_port_halt

DiagSpec == DiagInit /\ [][DiagNext]_allVars

(***************************************************************************)
(* The fairness of module Scheduler while the system runs.  Besides, a     *)
(* tick period is thousands of instructions, so interrupts do not for ever *)
(* hit the few instructions of PendSV_Handler: if it returns to main again *)
(* and again, main does execute its next instruction, svc.                 *)
(***************************************************************************)
FairDiagSpec ==
    /\ DiagSpec
    /\ WF_allVars(KernelStep /\ Interrupts /\ SysTick)
    /\ SF_allVars(KernelStep /\ PendSVSave)
    /\ SF_allVars(KernelStep /\ SwitchContext)
    /\ SF_allVars(KernelStep /\ PendSVReturn)
    /\ []<>(live.core = NULL) => []<>Runs(NULL)
    /\ SF_allVars(KernelStep /\ SVC_Handler)
-----------------------------------------------------------------------------
(* A task that has overwritten its stack guard is never switched away      *)
(* from, even if it has returned from the calls that did it: the check     *)
(* halts the kernel first, and only then.                                  *)
OverflowCaught ==
    /\ \A t \in smashed : kern.cur = t
    /\ cause # NULL /\ cause.reason = "STACK_OVERFLOW" => cause.task \in smashed

(* The first task starts, although a tick between the start of SysTick and *)
(* svc (rtos_port.c:133) can switch main out for another task, unless that *)
(* task fails.                                                             *)
StartCompletes == boot = "window" ~> boot = "done" \/ kern.failed

Halted == cpu \in {"stopped", "halted", "lockup"}

(* The failure record that is left is the one of the failure that halted   *)
(* the system, with the task it hit (README.md:39, "Failure records for    *)
(* assertions, task returns, stack overflow, and port faults").  Only when *)
(* the breakpoint of rtos_port_halt meets no debugger and raises a         *)
(* HardFault is the reason overwritten; the task is right even then.       *)
RecordTellsCause ==
    Halted => /\ failure_info.task = cause.task
              /\ setup # <<TRUE, FALSE>> => failure_info.reason = cause.reason

(* The fault record is about the thread that faulted, whose frame is on    *)
(* one of two stacks; its words are r0-xPSR if there is no FPU context.    *)
FaultInfoOfThread ==
    cause # NULL /\ cause.reason = "PORT_FAULT" =>
        /\ fault_info.of = cause.task
        /\ ~live.fpca => fault_info.words = BasicFrame

(* The captured registers are those of the thread that faulted             *)
(* (README.md:38, "HardFault capture for registers"), FPU context or not.  *)
FaultInfoIsFrame ==
    cause # NULL /\ cause.reason = "PORT_FAULT" =>
        fault_info = [of |-> cause.task, words |-> BasicFrame]
=============================================================================
