-------------------------------- MODULE Port --------------------------------
(***************************************************************************)
(* The Cortex-M4F port, src/src/rtos/ports/cortex-m4f/rtos_port.c: how the *)
(* registers of main and of the tasks travel between the CPU and the       *)
(* stacks when SVC and PendSV switch contexts, and the stack check of the  *)
(* scheduler.                                                              *)
(*                                                                         *)
(* A register is abstracted to the thread whose value it holds.  The       *)
(* hardware stacks r0-r3, r12, lr, pc, xPSR, with FPU context also s0-s15; *)
(* the handlers r4-r11, EXC_RETURN and with FPU context s16-s31.  Lazy     *)
(* stacking of s0-s15 is done at once, since the first FPU instruction of  *)
(* PendSV_Handler forces it.  The frames of SysTick and of application     *)
(* interrupts are popped by their own return: only the stack they need     *)
(* counts here.                                                            *)
(***************************************************************************)
EXTENDS Scheduler

CONSTANTS
    HANDLER,     \* a register value of handler code
    FpuThreads,  \* the threads, main (NULL) included, that may use the FPU
    Prios,       \* the priorities of the tasks main creates, in order
    StackWords,  \* the size of every task's stack
    GuardWords,  \* ARTOS_STACK_GUARD_WORDS
    Depths       \* the numbers of stack words the code of a task may use

ASSUME PortAssumption ==
    /\ FpuThreads \subseteq Threads
    /\ HANDLER \notin Tasks \cup {NULL}
    /\ NULL \notin [of : Tasks, frames : Nat]
    /\ Prios \in Seq(Priorities) /\ Len(Prios) \in 1 .. MaxTasks
    /\ StackWords \in Nat /\ GuardWords \in 0 .. StackWords
    /\ Depths \subseteq Nat /\ 0 \in Depths

VARIABLES
    live,      \* the registers of the CPU, CONTROL.FPCA, CONTROL.SPSEL and PSP
    stack,     \* the frames in the stack of each task, top of the stack first
    msp,       \* the frames in the main stack
    saved,     \* the stack_pointer of each control block: whose stack, how many frames
    boot,      \* how far artos_start is: "main", "psp", "window" (SysTick enabled,
               \* svc not executed) or "done"
    restoring, \* PendSV_Handler: the stack pointer returned by the scheduler, or NULL
    depth,     \* the words of its stack the code of each task uses
    smashed,   \* the guard of these tasks' stacks is overwritten
    fpu        \* history: the threads that have values in the FPU registers

portVars == <<live, stack, msp, saved, boot, restoring, depth, smashed, fpu>>
vars == <<schedVars, portVars>>

(* The words of a hardware and of a software frame. *)
HwWords(fp) == IF fp THEN 26 ELSE 8
SwWords(fp) == IF fp THEN 25 ELSE 9

(* EXC_RETURN, as far as the port looks at it, and its value in LR when an *)
(* exception is taken from thread code.                                    *)
ExcReturn(on_psp, with_fp) == [psp |-> on_psp, fp |-> with_fp]

(* Fault: the value a task starts with is saved and not the one in LR. *)
LinkRegister_Initial(regs) == ExcReturn(TRUE, regs.fpca)

LinkRegister(regs) == ExcReturn(regs.spsel = "PSP", regs.fpca)

(* The frames; without FPU context nothing of the FPU is in them. *)
HwFrame(regs) == [core |-> regs.core, fp |-> regs.fpca,
                  s0_15 |-> IF regs.fpca THEN regs.s0_15 ELSE NULL]

(* Fault: s16-s31 are not saved. *)
SwFrame_NoFPU(regs, lr) == [r4_11 |-> regs.r4_11, lr |-> lr, s16_31 |-> NULL]

SwFrame(regs, lr) == [r4_11 |-> regs.r4_11, lr |-> lr,
                      s16_31 |-> IF lr.fp THEN regs.s16_31 ELSE NULL]

(* The context of a task that never ran, as if it had been interrupted.    *)
rtos_port_initialize_stack(t) ==
    << [core |-> t, fp |-> FALSE, s0_15 |-> NULL],
       [r4_11 |-> t, lr |-> ExcReturn(TRUE, FALSE), s16_31 |-> NULL] >>

(* main has called artos_init and created the tasks; it may have used the  *)
(* FPU, which rtos_port_scheduler_init has enabled.                        *)
PortInit ==
    /\ kern = TasksCreated(Prios)
    /\ pend = FALSE /\ switching = FALSE /\ systick = "idle"
    /\ pc = [t \in Threads |-> "app"]
    /\ \E f \in {FALSE, (NULL \in FpuThreads)} :
          /\ live = [core |-> NULL, r4_11 |-> NULL, s0_15 |-> NULL, s16_31 |-> NULL,
                     fpca |-> f, spsel |-> "MSP", psp |-> NULL]
          /\ fpu = IF f THEN {NULL} ELSE {}
    /\ stack = [t \in Tasks |-> rtos_port_initialize_stack(t)]
    /\ msp = <<>>
    /\ saved = [t \in Tasks |-> [of |-> t, frames |-> 2]]
    /\ boot = "main"
    /\ restoring = NULL
    /\ depth = [t \in Tasks |-> 0]
    /\ smashed = {}

-----------------------------------------------------------------------------
(* The words in use in the stack of t when it holds these frames. *)
FrameWords(frames) ==
    FoldLeft(LAMBDA n, f : n + (IF "core" \in DOMAIN f THEN HwWords(f.fp) ELSE SwWords(f.lr.fp)),
             0, frames)

WordsUsed(t, frames) == depth[t] + FrameWords(frames)

(* Writing down to this depth reaches the guard at the end of the stack. *)
ReachesGuard(words) == words > StackWords - GuardWords

Touch(t, words) ==
    smashed' = IF t \in Tasks /\ ReachesGuard(words) THEN smashed \cup {t} ELSE smashed

(* Thread x has the CPU. *)
Runs(x) ==
    /\ ~kern.failed
    /\ live.core = x
    /\ ~pend /\ ~switching /\ systick = "idle"

-----------------------------------------------------------------------------
(* artos_start: the first task is chosen ... *)
StartChoose ==
    /\ boot = "main"
    /\ artos_start
    /\ boot' = "psp"
    /\ UNCHANGED <<live, stack, msp, saved, restoring, depth, smashed, fpu>>

(* ... rtos_port_start_first_task sets PSP and starts SysTick ... *)
rtos_port_start_first_task ==
    /\ boot = "psp"
    /\ Runs(NULL)
    /\ live' = [live EXCEPT !.psp = saved[kern.cur].of]
    /\ boot' = "window"
    /\ UNCHANGED <<schedVars, stack, msp, saved, restoring, depth, smashed, fpu>>

(* The registers after an exception return with lr, when sw has been       *)
(* popped from the stack of task t and hw is the next frame.               *)
Restored(sw, hw, t) ==
    [live EXCEPT !.r4_11 = sw.r4_11,
                 !.core = hw.core,
                 !.s16_31 = IF sw.lr.fp THEN sw.s16_31 ELSE @,
                 !.s0_15 = IF sw.lr.fp THEN hw.s0_15 ELSE @,
                 !.fpca = sw.lr.fp,
                 !.spsel = IF sw.lr.psp THEN "PSP" ELSE "MSP",
                 !.psp = t]

(* ... and svc 0: SVC_Handler loads the context at PSP.  The frame of main *)
(* stays on the main stack.                                                *)
SVC_Handler ==
    LET t  == live.psp
        sw == Last(stack[t])
        hw == Last(Front(stack[t]))
    IN  /\ boot = "window"
        /\ Runs(NULL)
        /\ live' = Restored(sw, hw, t)
        /\ msp' = Append(msp, HwFrame(live))
        /\ stack' = [stack EXCEPT ![t] = Front(Front(@))]
        /\ boot' = "done"
        /\ UNCHANGED <<schedVars, saved, restoring, depth, smashed, fpu>>

(* PendSV is taken and PendSV_Handler saves the registers below PSP, the   *)
(* ones of main too when PSP still belongs to the first task.              *)
PendSVSave ==
    LET t   == live.psp
        sw  == SwFrame(live, LinkRegister(live))
        mem == IF live.spsel = "PSP"
               THEN [stack EXCEPT ![t] = @ \o <<HwFrame(live), sw>>]
               ELSE [stack EXCEPT ![t] = Append(@, sw)]
    IN  /\ PendSVEnter
        /\ restoring = NULL
        /\ stack' = mem
        /\ msp' = IF live.spsel = "PSP" THEN msp ELSE Append(msp, HwFrame(live))
        /\ live' = [live EXCEPT !.core = HANDLER, !.r4_11 = HANDLER, !.fpca = FALSE]
        /\ Touch(t, WordsUsed(t, mem[t]))
        /\ UNCHANGED <<saved, boot, restoring, depth, fpu>>

(* Fault: only the stack pointer is checked. *)
StackValid_NoGuard(t, words) == ~ReachesGuard(words)

artos_task_stack_valid(t, words) == ~ReachesGuard(words) /\ t \notin smashed

(* rtos_scheduler_switch_context, with the stack pointer and the check. *)
SwitchContext ==
    LET t  == live.psp
        sp == [of |-> t, frames |-> Len(stack[t])]
    IN  /\ switching /\ systick = "idle" /\ ~kern.failed
        /\ saved' = [saved EXCEPT ![kern.cur] = sp]
        /\ IF artos_task_stack_valid(kern.cur, WordsUsed(t, stack[t]))
           THEN PendSVSwitch
           ELSE kern' = Fail(kern) /\ UNCHANGED <<pend, switching, systick, pc>>
        /\ restoring' = saved'[kern'.cur]
        /\ UNCHANGED <<live, stack, msp, boot, depth, smashed, fpu>>

(* The rest of PendSV_Handler: the context at the returned pointer is      *)
(* loaded.  EXC_RETURN says on which stack the hardware frame is.          *)
PendSVReturn ==
    LET t    == restoring.of
        sw   == stack[t][restoring.frames]
        rest == SubSeq(stack[t], 1, restoring.frames - 1)
    IN  /\ restoring # NULL /\ ~kern.failed
        /\ systick = "idle"
        /\ live' = Restored(sw, IF sw.lr.psp THEN Last(rest) ELSE Last(msp), t)
        /\ stack' = [stack EXCEPT ![t] = IF sw.lr.psp THEN Front(rest) ELSE rest]
        /\ msp' = IF sw.lr.psp THEN msp ELSE Front(msp)
        /\ restoring' = NULL
        /\ UNCHANGED <<schedVars, saved, boot, depth, smashed, fpu>>

-----------------------------------------------------------------------------
(* SysTick and application interrupts may come once SysTick is enabled,    *)
(* also between two instructions of PendSV_Handler.  From thread code      *)
(* their frame goes to the thread's stack.                                 *)
Interrupts ==
    /\ boot \in {"window", "done"}
    /\ \/ /\ SysTickEnter \/ artos_yield_from_isr
          /\ IF live.spsel = "PSP" /\ live.core # HANDLER
             THEN Touch(live.psp, depth[live.psp] + HwWords(live.fpca))
             ELSE UNCHANGED smashed
       \/ /\ SysTickWake \/ SysTickExitCritical \/ SysTickCheck
          /\ UNCHANGED smashed
    /\ UNCHANGED <<live, stack, msp, saved, boot, restoring, depth, fpu>>

(* The code of task t calls the kernel ... *)
TaskCall(t) ==
    /\ Runs(t)
    /\ artos_yield(t) \/ artos_wait(t, 1) \/ Switch(t)
    /\ UNCHANGED portVars

(* ... computes with the FPU ... *)
UseFPU(t) ==
    /\ t \in FpuThreads
    /\ Runs(t)
    /\ live' = [live EXCEPT !.s0_15 = t, !.s16_31 = t, !.fpca = TRUE]
    /\ fpu' = fpu \cup {t}
    /\ UNCHANGED <<schedVars, stack, msp, saved, boot, restoring, depth, smashed>>

(* ... or calls functions of its own, or returns from them. *)
UseStack(t, words) ==
    /\ Runs(t)
    /\ depth' = [depth EXCEPT ![t] = words]
    /\ Touch(t, words)
    /\ UNCHANGED <<schedVars, live, stack, msp, saved, boot, restoring, fpu>>

PortNext ==
    \/ StartChoose \/ rtos_port_start_first_task \/ SVC_Handler
    \/ PendSVSave \/ SwitchContext \/ PendSVReturn \/ Interrupts
    \/ \E t \in Slots :
          TaskCall(t) \/ UseFPU(t) \/ \E n \in Depths : UseStack(t, n)

PortSpec == PortInit /\ [][PortNext]_vars
-----------------------------------------------------------------------------
(* Whenever thread code executes, the registers are its own, whatever ran  *)
(* in between: the task is the kernel's current one, r4-r11 and the FPU    *)
(* registers it uses hold its values, PSP is back where it was, and main,  *)
(* also when it was switched out between SysTick's start and svc, finds    *)
(* its own frame on the main stack.                                        *)
ContextIntact ==
    LET x == live.core
    IN  x # HANDLER =>
            /\ live.r4_11 = x
            /\ x \in fpu => live.fpca /\ live.s0_15 = x /\ live.s16_31 = x
            /\ IF x = NULL
               THEN live.spsel = "MSP" /\ msp = <<>>
               ELSE x = kern.cur /\ live.spsel = "PSP" /\ live.psp = x /\ stack[x] = <<>>

(* A context that waits is complete: a task that is not current has one    *)
(* hardware and one software frame of its own, that agree on the FPU, and  *)
(* its control block points at them; only the first task can have the      *)
(* registers of main below them, with the rest of main on the main stack.  *)
ParkedContexts ==
    \A t \in (kern.created \cup {IDLE}) \ {kern.cur} :
        /\ saved[t] = [of |-> t, frames |-> Len(stack[t])]
        /\ Len(stack[t]) \in {2, 3}
        /\ stack[t][1].core = t /\ stack[t][2].r4_11 = t
        /\ stack[t][2].lr = ExcReturn(TRUE, stack[t][1].fp)
        /\ Len(stack[t]) = 3 =>
              /\ boot = "window" /\ stack[t][3].r4_11 = NULL
              /\ stack[t][3].lr = ExcReturn(FALSE, Last(msp).fp) /\ Last(msp).core = NULL
=============================================================================
