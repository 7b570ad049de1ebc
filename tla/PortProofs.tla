----------------------------- MODULE PortProofs -----------------------------
(***************************************************************************)
(* The safety properties of modules Port and Diagnostics, for any number   *)
(* of tasks, any use of the FPU and any sizes of stacks and guards.        *)
(*                                                                         *)
(* As long as nothing fails, the port takes steps of the scheduler, whose  *)
(* invariant (module SchedulerProofs) therefore holds.  The invariant adds *)
(* where the registers of each thread are: those of the tasks that do not  *)
(* run in their stacks, those of the one that runs in the CPU or, while    *)
(* PendSV_Handler is active, in its stack as well, and those of main, from *)
(* the start of SysTick to svc, in the CPU or on top of one task's stack.  *)
(***************************************************************************)
EXTENDS Diagnostics, SchedulerProofs

-----------------------------------------------------------------------------
(* What a register can hold, the registers of the CPU, and the frames. *)
Values == Tasks \cup {NULL, HANDLER}
Registers == [core : Values, r4_11 : Values, s0_15 : Values, s16_31 : Values,
              fpca : BOOLEAN, spsel : {"MSP", "PSP"}, psp : Tasks \cup {NULL}]
HwFrames == [core : Values, fp : BOOLEAN, s0_15 : Values]
SwFrames == [r4_11 : Values, lr : [psp : BOOLEAN, fp : BOOLEAN], s16_31 : Values]
Frames == HwFrames \cup SwFrames

(* The registers regs hold the values of thread x. *)
RegistersOf(x, regs) ==
    /\ regs.r4_11 = x
    /\ x \in fpu => regs.fpca /\ regs.s0_15 = x /\ regs.s16_31 = x

(* A hardware and a software frame hold the values of thread x, which runs *)
(* on PSP or on MSP.                                                       *)
FramesOf(x, hw, sw, on_psp) ==
    /\ hw \in HwFrames /\ sw \in SwFrames
    /\ hw.core = x /\ sw.r4_11 = x
    /\ sw.lr = ExcReturn(on_psp, hw.fp)
    /\ x \in fpu => hw.fp /\ hw.s0_15 = x /\ sw.s16_31 = x

(* The context of task t is in its stack, and that of main may be on top.  *)
Parked(t) ==
    /\ Len(stack[t]) \in {2, 3}
    /\ FramesOf(t, stack[t][1], stack[t][2], TRUE)

(* Main is in the CPU, or between the start of SysTick and svc has been    *)
(* saved to the stack of exactly one task.                                 *)
MainInv ==
    IF boot = "window" /\ live.core # NULL
    THEN /\ Len(msp) = 1
         /\ \E t \in Tasks : /\ Len(stack[t]) = 3
                             /\ FramesOf(NULL, msp[1], stack[t][3], FALSE)
                             /\ \A u \in Tasks \ {t} : Len(stack[u]) # 3
    ELSE \A t \in Tasks : Len(stack[t]) # 3

(* The thread that runs finds its registers in the CPU.  While main runs   *)
(* before svc, the first task is in its stack.                             *)
RunningInv ==
    live.core # HANDLER =>
        /\ RegistersOf(live.core, live)
        /\ boot \in {"window", "done"} => live.psp = kern.cur
        /\ IF live.core = NULL
           THEN /\ boot # "done" /\ live.spsel = "MSP" /\ msp = <<>>
                /\ kern.cur \in Tasks => Parked(kern.cur)
           ELSE live.core = kern.cur /\ live.spsel = "PSP" /\ stack[kern.cur] = <<>>

(* PendSV_Handler has saved the current task and, after the scheduler's    *)
(* choice, holds the stack pointer of the new one.  The check of the stack *)
(* sees the words that were written last.                                  *)
HandlerInv ==
    /\ live.core = HANDLER <=> switching \/ restoring # NULL
    /\ live.core = HANDLER => Parked(kern.cur)
    /\ switching =>
          /\ live.psp = kern.cur
          /\ ReachesGuard(WordsUsed(live.psp, stack[live.psp])) => live.psp \in smashed
    /\ restoring # NULL /\ ~kern.failed =>
          ~switching /\ restoring = [of |-> kern.cur, frames |-> Len(stack[kern.cur])]

(* All other tasks are in their stacks, where their control blocks point.  *)
OthersInv ==
    \A t \in Tasks \ {kern.cur} :
        Parked(t) /\ saved[t] = [of |-> t, frames |-> Len(stack[t])]

(* Exceptions come only after rtos_port_start_first_task. *)
BootInv ==
    /\ boot \in {"main", "psp", "window", "done"}
    /\ boot = "main" <=> kern.cur = NULL
    /\ boot = "psp" => saved[kern.cur].of = kern.cur
    /\ boot \in {"main", "psp"} =>
          ~pend /\ ~switching /\ systick = "idle" /\ live.core = NULL

PortTypeOK ==
    /\ kern \in KernelType
    /\ live \in Registers
    /\ stack \in [Tasks -> Seq(Frames)]
    /\ msp \in Seq(Frames)
    /\ saved \in [Tasks -> [of : Tasks, frames : Nat]]
    /\ smashed \subseteq {kern.cur} \cap Tasks

PortIInv ==
    /\ ~kern.failed => IInv
    /\ PortTypeOK
    /\ BootInv
    /\ MainInv
    /\ RunningInv
    /\ HandlerInv
    /\ OthersInv

(* The constants. *)
LEMMA PortFacts ==
    /\ HANDLER \notin Tasks /\ HANDLER # NULL /\ NULL \notin Tasks
    /\ Slots \subseteq Tasks /\ IDLE \in Tasks
    /\ NULL \notin [of : Tasks, frames : Nat]
    /\ Prios \in Seq(Priorities) /\ Len(Prios) \in 1 .. MaxTasks
BY PortAssumption, KernelFacts DEF Tasks

(* Tasks created by main, before artos_start. *)
LEMMA PortInitInv == PortInit => PortIInv
<1> SUFFICES ASSUME PortInit PROVE PortIInv
  OBVIOUS
<1>1. Len(Prios) <= MaxTasks /\ Len(Prios) > 0
  BY PortFacts, KernelFacts
<1>2. MainState(kern, Len(Prios))
  BY <1>1, PortFacts, TasksCreatedState DEF PortInit
<1>3. KInv(kern) /\ DelayInv(kern, FALSE) /\ kern.cur = NULL /\ kern \in KernelType
  BY <1>2 DEF MainState, KInv
<1>4. IInv
  <2>1. /\ pend = FALSE /\ switching = FALSE /\ systick = "idle"
        /\ pc = [t \in Threads |-> "app"]
    BY DEF PortInit
  <2>2. NULL \notin Slots /\ NULL # IDLE
    BY KernelFacts
  <2>3. CoreInv(Locs) /\ PreemptInv(Locs, {})
    BY <1>3, <2>1, <2>2 DEF CoreInv, PreemptInv
  <2> QED
    BY <1>3, <2>1, <2>3 DEF IInv, TypeOK, Threads
<1>5. PICK f \in {FALSE, (NULL \in FpuThreads)} :
         /\ live = [core |-> NULL, r4_11 |-> NULL, s0_15 |-> NULL, s16_31 |-> NULL,
                    fpca |-> f, spsel |-> "MSP", psp |-> NULL]
         /\ fpu = IF f THEN {NULL} ELSE {}
  BY Zenon DEF PortInit
<1>f. f \in BOOLEAN
  <2>1. (NULL \in FpuThreads) \in BOOLEAN
    OBVIOUS
  <2> QED
    BY <2>1, Zenon
<1>6. /\ msp = <<>> /\ boot = "main" /\ restoring = NULL /\ smashed = {}
      /\ ~pend /\ ~switching /\ systick = "idle"
      /\ stack = [t \in Tasks |-> rtos_port_initialize_stack(t)]
      /\ saved = [t \in Tasks |-> [of |-> t, frames |-> 2]]
  BY DEF PortInit
<1>7. ASSUME NEW t \in Tasks
      PROVE  /\ stack[t] \in Seq(Frames) /\ Len(stack[t]) = 2 /\ Parked(t)
             /\ saved[t] = [of |-> t, frames |-> Len(stack[t])]
             /\ saved[t] \in [of : Tasks, frames : Nat]
  <2> DEFINE hw == [core |-> t, fp |-> FALSE, s0_15 |-> NULL]
             sw == [r4_11 |-> t, lr |-> ExcReturn(TRUE, FALSE), s16_31 |-> NULL]
  <2>1. hw \in HwFrames /\ sw \in SwFrames
    BY DEF HwFrames, SwFrames, Values, ExcReturn
  <2>2. FramesOf(t, hw, sw, TRUE)
    BY <2>1, <1>5, <1>f, PortFacts DEF FramesOf
  <2> HIDE DEF hw, sw
  <2>3. stack[t] = <<hw, sw>>
    BY <1>6 DEF rtos_port_initialize_stack, hw, sw
  <2>4. Len(stack[t]) = 2 /\ stack[t][1] = hw /\ stack[t][2] = sw /\ stack[t] \in Seq(Frames)
    BY <2>1, <2>3 DEF Frames
  <2> QED
    BY <2>2, <2>4, <1>6 DEF Parked
<1>8. PortTypeOK
  <2>1. stack \in [Tasks -> Seq(Frames)] /\ saved \in [Tasks -> [of : Tasks, frames : Nat]]
    BY <1>6, <1>7
  <2>2. live \in Registers
    BY <1>5, <1>f DEF Values, Registers
  <2> QED
    BY <2>1, <2>2, <1>3, <1>6 DEF PortTypeOK
<1>9. BootInv /\ HandlerInv
  BY <1>3, <1>5, <1>f, <1>6, PortFacts DEF BootInv, HandlerInv
<1>10. MainInv
  <2>1. \A t \in Tasks : Len(stack[t]) = 2
    BY <1>7, Zenon
  <2>2. \A t \in Tasks : Len(stack[t]) # 3
    BY <2>1
  <2> QED
    BY <2>2, <1>6 DEF MainInv
<1>11. RunningInv
  BY <1>3, <1>5, <1>f, <1>6, PortFacts DEF RunningInv, RegistersOf
<1>12. OthersInv
  BY <1>7 DEF OthersInv
<1> QED
  BY <1>4, <1>8, <1>9, <1>10, <1>11, <1>12 DEF PortIInv

-----------------------------------------------------------------------------
(* Steps that move no registers and keep the current task: kernel calls of *)
(* the running task, interrupts, and failures.                             *)
LEMMA QuietStep ==
    ASSUME PortIInv, ~kern'.failed => ~kern.failed /\ IInv', kern' \in KernelType, kern'.cur = kern.cur,
           switching' = switching, live' = live, stack' = stack, msp' = msp, saved' = saved,
           boot' = boot, restoring' = restoring, fpu' = fpu,
           boot \in {"main", "psp"} => pend' = pend /\ systick' = systick,
           smashed \subseteq smashed', smashed' \subseteq {kern.cur} \cap Tasks,
           depth' = depth \/ ~switching
    PROVE  PortIInv'
<1>1. \A t : Parked(t)' <=> Parked(t)
  BY DEF Parked, FramesOf
<1>2. PortTypeOK'
  BY DEF PortIInv, PortTypeOK
<1>3. BootInv'
  BY DEF PortIInv, BootInv
<1>4. MainInv'
  BY DEF PortIInv, MainInv, FramesOf
<1>5. RunningInv'
  BY <1>1 DEF PortIInv, RunningInv, RegistersOf
<1>6. HandlerInv'
  <2>1. HandlerInv
    BY DEF PortIInv
  <2>2. switching' => /\ live'.psp = kern'.cur
                      /\ ReachesGuard(WordsUsed(live.psp, stack[live.psp]))' => live'.psp \in smashed'
    BY <2>1 DEF HandlerInv, ReachesGuard, WordsUsed
  <2> QED
    BY <2>1, <2>2, <1>1 DEF HandlerInv
<1>7. OthersInv'
  BY <1>1 DEF PortIInv, OthersInv
<1> QED
  BY <1>2, <1>3, <1>4, <1>5, <1>6, <1>7 DEF PortIInv

(* Interrupts do not change the current task. *)
LEMMA InterruptKeepsCurrent ==
    ASSUME IInv, SysTick \/ artos_yield_from_isr
    PROVE  kern'.cur = kern.cur /\ switching' = switching
<1>1. CoreInv(Locs) /\ KInv(kern)
  BY DEF IInv, CoreInv
<1>2. CASE SysTickEnter
  <2>1. DelayInv(kern, FALSE)
    BY <1>1, <1>2 DEF SysTickEnter, CoreInv
  <2> QED
    BY <1>1, <1>2, <2>1, TickIncrementEffect DEF SysTickEnter
<1>3. CASE SysTickWake
  <2>1. DelayInv(kern, TRUE) /\ MustWake(kern) /\ kern' = TickWake(kern)
    BY <1>1, <1>3 DEF SysTickWake, CoreInv
  <2>2. \E t \in Slots : Unblocked(kern', kern, t, "WAIT_TIMED_OUT")
    BY <1>1, <2>1, TickWakeEffect
  <2> QED
    BY <1>3, <2>2 DEF Unblocked, SysTickWake
<1>4. CASE SysTickExitCritical \/ SysTickCheck \/ artos_yield_from_isr
  BY <1>4 DEF SysTickExitCritical, SysTickCheck, artos_yield_from_isr
<1> QED
  BY <1>2, <1>3, <1>4 DEF SysTick

(* The kernel calls of a running task. *)
LEMMA TaskCallKeepsCurrent ==
    ASSUME IInv, NEW t \in Slots, artos_yield(t) \/ artos_wait(t, 1) \/ Switch(t)
    PROVE  IInv' /\ kern'.cur = kern.cur /\ switching' = switching
<1>1. t \in Threads /\ 1 \in Ticks
  BY KernelFacts DEF Threads, Ticks
<1>2. IInv'
  BY <1>1, StepInv DEF Next, ThreadStep
<1>3. CASE artos_wait(t, 1)
  <2>1. kern'.cur = kern.cur
    BY <1>1, <1>3, WaitCallsInv
  <2> QED
    BY <1>2, <1>3, <2>1 DEF artos_wait
<1>4. CASE artos_yield(t) \/ Switch(t)
  <2>1. kern' = kern /\ switching' = switching
    BY <1>4 DEF artos_yield, Switch, rtos_port_request_context_switch
  <2> QED
    BY <1>2, <2>1
<1> QED
  BY <1>2, <1>3, <1>4

(* The thread that has the CPU is the current task. *)
LEMMA RunningThread ==
    ASSUME PortIInv, NEW t \in Tasks, Runs(t)
    PROVE  /\ IInv /\ boot \in {"window", "done"} /\ t = kern.cur /\ live.psp = t
           /\ live.core = t /\ live.spsel = "PSP" /\ stack[t] = <<>>
           /\ ~kern.failed /\ ~pend /\ ~switching /\ restoring = NULL
<1>1. /\ live.core = t /\ t # NULL /\ t # HANDLER /\ ~kern.failed
      /\ ~pend /\ ~switching
  BY PortFacts DEF Runs
<1> QED
  BY <1>1 DEF PortIInv, BootInv, RunningInv, HandlerInv

LEMMA InterruptsInv ==
    ASSUME PortIInv, Interrupts
    PROVE  PortIInv'
<1>1. SysTick \/ artos_yield_from_isr
  BY DEF Interrupts, SysTick
<1>2. ~kern.failed
  BY <1>1 DEF SysTick, SysTickEnter, SysTickWake, SysTickExitCritical, SysTickCheck,
     artos_yield_from_isr, InterruptEnabled
<1>3. IInv
  BY <1>2 DEF PortIInv
<1>4. IInv' /\ kern'.cur = kern.cur /\ switching' = switching
  BY <1>1, <1>3, StepInv, InterruptKeepsCurrent DEF Next, Exceptions
<1>5. kern' \in KernelType
  BY <1>4 DEF IInv, TypeOK
<1>6. /\ boot \in {"window", "done"} /\ live' = live /\ stack' = stack /\ msp' = msp
      /\ saved' = saved /\ boot' = boot /\ restoring' = restoring /\ depth' = depth /\ fpu' = fpu
  BY DEF Interrupts
<1>7. smashed \subseteq smashed' /\ smashed' \subseteq {kern.cur} \cap Tasks
  <2>1. smashed \subseteq {kern.cur} \cap Tasks
    BY DEF PortIInv, PortTypeOK
  <2>2. CASE UNCHANGED smashed
    BY <2>1, <2>2
  <2>3. CASE live.core # HANDLER /\ Touch(live.psp, depth[live.psp] + HwWords(live.fpca))
    <3>1. live.psp = kern.cur
      BY <2>3, <1>6 DEF PortIInv, RunningInv
    <3> QED
      BY <2>1, <2>3, <3>1 DEF Touch
  <2> QED
    BY <2>2, <2>3 DEF Interrupts
<1> QED
  BY <1>2, <1>4, <1>5, <1>6, <1>7, QuietStep

LEMMA TaskCallInv ==
    ASSUME PortIInv, NEW t \in Slots, TaskCall(t)
    PROVE  PortIInv'
<1>1. t \in Tasks /\ Runs(t)
  BY PortFacts DEF TaskCall
<1>2. IInv /\ boot \in {"window", "done"} /\ ~kern.failed
  BY <1>1, RunningThread
<1>3. IInv' /\ kern'.cur = kern.cur /\ switching' = switching
  BY <1>2, TaskCallKeepsCurrent DEF TaskCall
<1>4. kern' \in KernelType
  BY <1>3 DEF IInv, TypeOK
<1>5. smashed \subseteq {kern.cur} \cap Tasks
  BY DEF PortIInv, PortTypeOK
<1> QED
  BY <1>2, <1>3, <1>4, <1>5, QuietStep DEF TaskCall, portVars

LEMMA UseStackInv ==
    ASSUME PortIInv, NEW t \in Slots, NEW words \in Depths, UseStack(t, words)
    PROVE  PortIInv'
<1>1. t \in Tasks /\ Runs(t)
  BY PortFacts DEF UseStack
<1>2. t = kern.cur /\ ~switching /\ IInv
  BY <1>1, RunningThread
<1>3. smashed \subseteq {kern.cur} \cap Tasks /\ kern \in KernelType
  BY DEF PortIInv, PortTypeOK
<1>4. smashed \subseteq smashed' /\ smashed' \subseteq {kern.cur} \cap Tasks
  BY <1>1, <1>2, <1>3 DEF UseStack, Touch
<1>5. UNCHANGED <<schedVars, live, stack, msp, saved, boot, restoring, fpu>>
  BY DEF UseStack
<1>6. IInv'
  BY <1>2, <1>5, StepInv
<1> QED
  BY <1>2, <1>3, <1>4, <1>5, <1>6, QuietStep DEF schedVars

(* Thread code fails, with what it was running unchanged. *)
LEMMA FailedInv ==
    ASSUME PortIInv, kern' = Fail(kern), UNCHANGED <<pend, switching, systick, pc, portVars>>
    PROVE  PortIInv' /\ kern'.cur = kern.cur
<1>1. smashed \subseteq {kern.cur} \cap Tasks /\ kern \in KernelType
  BY DEF PortIInv, PortTypeOK
<1>2. kern' \in KernelType /\ kern'.cur = kern.cur /\ kern'.failed
  BY <1>1 DEF KernelType, Fail
<1> QED
  BY <1>1, <1>2, QuietStep DEF portVars

-----------------------------------------------------------------------------
(* Start-up: the first task is chosen ... *)
LEMMA StartChooseInv ==
    ASSUME PortIInv, StartChoose
    PROVE  PortIInv'
<1>1. /\ boot = "main" /\ boot' = "psp" /\ artos_start
      /\ live' = live /\ stack' = stack /\ msp' = msp /\ saved' = saved
      /\ restoring' = restoring /\ depth' = depth /\ smashed' = smashed /\ fpu' = fpu
  BY DEF StartChoose
<1>2. /\ ~kern.failed /\ kern.cur = NULL /\ kern.bitmap # {} /\ kern' = rtos_scheduler_start(kern)
      /\ pend' = pend /\ switching' = switching /\ systick' = systick
      /\ ~pend /\ ~switching /\ systick = "idle"
  BY <1>1 DEF artos_start, At, Executes
<1>3. IInv /\ PortTypeOK /\ BootInv /\ MainInv /\ RunningInv /\ HandlerInv /\ OthersInv
  BY <1>2 DEF PortIInv
<1>4. IInv'
  BY <1>1, <1>3, StepInv DEF Next
<1>5. kern' \in KernelType /\ kern'.cur \in Slots
  <2>1. KInv(kern) /\ DelayInv(kern, FALSE)
    BY <1>2, <1>3 DEF IInv, CoreInv
  <2> QED
    <3>1. FALSE \in BOOLEAN
      OBVIOUS
    <3>2. kern'.cur \in Slots
      BY <2>1, <3>1, <1>2, StartKeeps
    <3> QED
      BY <3>2, <1>4 DEF IInv, TypeOK
<1>6. kern'.cur \in Tasks /\ kern'.cur # NULL /\ NULL \notin Tasks /\ live.core = NULL
  BY <1>1, <1>3, <1>5, PortFacts DEF BootInv
<1>7. \A t \in Tasks : Parked(t)' /\ saved'[t] = [of |-> t, frames |-> Len(stack'[t])]
  BY <1>1, <1>2, <1>3, <1>6 DEF OthersInv, Parked, FramesOf
<1>8. PortTypeOK'
  <2>1. smashed' = {}
    BY <1>1, <1>2, <1>3, <1>6 DEF PortTypeOK
  <2> QED
    BY <2>1, <1>1, <1>3, <1>5 DEF PortTypeOK
<1>9. BootInv'
  <2>1. saved'[kern'.cur] = [of |-> kern'.cur, frames |-> Len(stack'[kern'.cur])]
    BY <1>6, <1>7, Zenon
  <2>2. saved'[kern'.cur].of = kern'.cur
    BY <2>1
  <2> QED
    BY <2>2, <1>1, <1>2, <1>6 DEF BootInv
<1>10. MainInv'
  BY <1>1, <1>3 DEF MainInv
<1>11. RunningInv'
  BY <1>1, <1>3, <1>6, <1>7 DEF RunningInv, RegistersOf
<1>12. HandlerInv'
  <2>1. live.core # HANDLER /\ restoring = NULL
    BY <1>2, <1>3, <1>6, PortFacts DEF HandlerInv
  <2> QED
    BY <2>1, <1>1, <1>2 DEF HandlerInv
<1>13. OthersInv'
  BY <1>7 DEF OthersInv
<1> QED
  BY <1>4, <1>8, <1>9, <1>10, <1>11, <1>12, <1>13 DEF PortIInv

(* ... PSP is set to its stack ... *)
LEMMA StartFirstInv ==
    ASSUME PortIInv, rtos_port_start_first_task
    PROVE  PortIInv'
<1>1. /\ boot = "psp" /\ boot' = "window" /\ Runs(NULL)
      /\ live' = [live EXCEPT !.psp = saved[kern.cur].of]
      /\ UNCHANGED <<schedVars, stack, msp, saved, restoring, depth, smashed, fpu>>
  BY DEF rtos_port_start_first_task
<1>2. IInv /\ PortTypeOK /\ BootInv /\ MainInv /\ RunningInv /\ HandlerInv /\ OthersInv
  BY <1>1 DEF PortIInv, Runs
<1>3. /\ kern' = kern /\ pend' = pend /\ switching' = switching /\ systick' = systick
      /\ stack' = stack /\ msp' = msp /\ saved' = saved /\ restoring' = restoring
      /\ smashed' = smashed /\ fpu' = fpu
  BY <1>1 DEF schedVars
<1>4. IInv'
  BY <1>1, <1>2, StepInv
<1>5. /\ kern.cur \in Tasks /\ kern.cur # NULL /\ live.core = NULL /\ ~switching
      /\ saved[kern.cur].of = kern.cur
  BY <1>1, <1>2 DEF BootInv, PortTypeOK, KernelType
<1>6. /\ live'.psp = kern.cur
      /\ live' \in Registers
      /\ live'.core = live.core /\ live'.r4_11 = live.r4_11 /\ live'.s0_15 = live.s0_15
      /\ live'.s16_31 = live.s16_31 /\ live'.fpca = live.fpca /\ live'.spsel = live.spsel
  BY <1>1, <1>2, <1>5 DEF PortTypeOK, Registers
<1>7. \A t : Parked(t)' <=> Parked(t)
  BY <1>3 DEF Parked, FramesOf
<1>8. PortTypeOK'
  BY <1>2, <1>3, <1>6 DEF PortTypeOK
<1>9. BootInv'
  BY <1>1, <1>3, <1>5 DEF BootInv
<1>10. MainInv'
  BY <1>1, <1>2, <1>3, <1>5, <1>6 DEF MainInv
<1>11. RunningInv'
  BY <1>1, <1>2, <1>3, <1>5, <1>6, <1>7 DEF RunningInv, RegistersOf
<1>12. HandlerInv'
  <2>1. live.core # HANDLER /\ restoring = NULL
    BY <1>2, <1>5, PortFacts DEF HandlerInv
  <2> QED
    BY <2>1, <1>3, <1>5, <1>6 DEF HandlerInv
<1>13. OthersInv'
  BY <1>2, <1>3, <1>7 DEF OthersInv
<1> QED
  BY <1>4, <1>8, <1>9, <1>10, <1>11, <1>12, <1>13 DEF PortIInv

(* The registers the exception return loads are those that were saved. *)
Resumed(x, regs, t, on_psp) ==
    /\ regs \in Registers
    /\ RegistersOf(x, regs)
    /\ regs.core = x /\ regs.psp = t
    /\ regs.spsel = IF on_psp THEN "PSP" ELSE "MSP"

LEMMA RestoredRegisters ==
    ASSUME PortTypeOK, NEW x, NEW t \in Tasks, NEW on_psp \in BOOLEAN,
           NEW hw, NEW sw, FramesOf(x, hw, sw, on_psp),
           NEW regs, regs = Restored(sw, hw, t)
    PROVE  Resumed(x, regs, t, on_psp)
<1>1. sw.lr.fp = hw.fp /\ sw.lr.psp = on_psp /\ hw \in HwFrames /\ sw \in SwFrames
  BY DEF FramesOf, ExcReturn
<1>2. live \in Registers
  BY DEF PortTypeOK
<1>3. /\ regs \in Registers
      /\ regs.core = hw.core /\ regs.r4_11 = sw.r4_11 /\ regs.fpca = hw.fp /\ regs.psp = t
      /\ hw.fp => regs.s0_15 = hw.s0_15 /\ regs.s16_31 = sw.s16_31
      /\ regs.spsel = IF on_psp THEN "PSP" ELSE "MSP"
  BY <1>1, <1>2 DEF Restored, HwFrames, SwFrames, Registers
<1> QED
  BY <1>3 DEF FramesOf, RegistersOf, Resumed

(* The frames that an exception and PendSV_Handler save are those of the   *)
(* thread that runs.                                                       *)
LEMMA SavedFrames ==
    ASSUME PortTypeOK, NEW x, live.core = x, RegistersOf(x, live),
           NEW hw, hw = HwFrame(live), NEW sw, sw = SwFrame(live, LinkRegister(live))
    PROVE  FramesOf(x, hw, sw, live.spsel = "PSP")
<1>1. live \in Registers
  BY DEF PortTypeOK
<1>2. PICK b \in BOOLEAN : b = (live.spsel = "PSP")
  OBVIOUS
<1>3. LinkRegister(live) = [psp |-> b, fp |-> live.fpca]
  BY <1>2 DEF LinkRegister, ExcReturn
<1>4. hw \in HwFrames /\ hw.core = x /\ hw.fp = live.fpca /\ (live.fpca => hw.s0_15 = live.s0_15)
  BY <1>1 DEF HwFrame, HwFrames, Values, Registers
<1>5. /\ sw \in SwFrames /\ sw.r4_11 = live.r4_11 /\ sw.lr = [psp |-> b, fp |-> live.fpca]
      /\ live.fpca => sw.s16_31 = live.s16_31
  BY <1>1, <1>3 DEF SwFrame, SwFrames, Values, Registers
<1>6. FramesOf(x, hw, sw, b)
  BY <1>1, <1>4, <1>5 DEF FramesOf, RegistersOf, ExcReturn
<1> QED
  BY <1>2, <1>6

(* Popping a frame. *)
LEMMA PopFrame ==
    ASSUME NEW S, NEW s \in Seq(S), Len(s) > 0
    PROVE  /\ SubSeq(s, 1, Len(s) - 1) \in Seq(S)
           /\ Len(SubSeq(s, 1, Len(s) - 1)) = Len(s) - 1
           /\ \A i \in 1 .. Len(s) - 1 : SubSeq(s, 1, Len(s) - 1)[i] = s[i]
           /\ Len(s) = 1 => SubSeq(s, 1, Len(s) - 1) = <<>>
<1>1. Len(s) \in Nat /\ \A i \in 1 .. Len(s) - 1 : s[i] \in S
  BY LenProperties, ElementOfSeq
<1> DEFINE n == Len(s) - 1
<1>2. n \in Int /\ 1 \in Int /\ n >= 0 /\ \A i \in 1 .. n : s[i] \in S
  BY <1>1
<1> HIDE DEF n
<1>3. /\ SubSeq(s, 1, n) \in Seq(S)
      /\ Len(SubSeq(s, 1, n)) = IF 1 <= n THEN n - 1 + 1 ELSE 0
      /\ \A i \in 1 .. n - 1 + 1 : SubSeq(s, 1, n)[i] = s[1 + i - 1]
  BY <1>2, SubSeqProperties
<1>4. n = 0 => SubSeq(s, 1, n) = <<>>
  BY <1>2, SubSeqEmpty
<1>5. Len(SubSeq(s, 1, n)) = n /\ \A i \in 1 .. n : SubSeq(s, 1, n)[i] = s[i]
  BY <1>2, <1>3
<1>6. Len(s) = 1 => n = 0
  BY DEF n
<1> QED
  BY <1>3, <1>4, <1>5, <1>6 DEF n

LEMMA PopTwoFrames ==
    ASSUME NEW S, NEW s \in Seq(S), Len(s) = 2
    PROVE  Last(s) = s[2] /\ Last(Front(s)) = s[1] /\ Front(Front(s)) = <<>>
<1> DEFINE f == Front(s)
<1>1. f \in Seq(S) /\ Len(f) = 1 /\ f[1] = s[1]
  BY PopFrame DEF Front
<1> HIDE DEF f
<1>2. Front(f) = <<>>
  BY <1>1, PopFrame DEF Front
<1>3. Last(s) = s[2] /\ Last(f) = s[1]
  BY <1>1 DEF Last
<1> QED
  BY <1>2, <1>3 DEF f

(* The registers of a task in its stack, and that nothing moves them while *)
(* the stack is not touched.                                               *)
LEMMA ParkedFrames ==
    ASSUME PortTypeOK, NEW t \in Tasks, Parked(t)
    PROVE  /\ stack[t] \in Seq(Frames) /\ Len(stack[t]) \in {2, 3}
           /\ FramesOf(t, stack[t][1], stack[t][2], TRUE)
BY DEF PortTypeOK, Parked

LEMMA ParkedKept ==
    ASSUME NEW t, stack'[t] = stack[t], fpu' = fpu
    PROVE  Parked(t)' <=> Parked(t)
BY DEF Parked, FramesOf

(* ... and svc loads the first task's registers. *)
LEMMA SVCInv ==
    ASSUME PortIInv, SVC_Handler
    PROVE  PortIInv'
<1> DEFINE t == live.psp
           s == stack[t]
<1>1. /\ boot = "window" /\ boot' = "done" /\ Runs(NULL)
      /\ live' = Restored(Last(s), Last(Front(s)), t)
      /\ msp' = Append(msp, HwFrame(live))
      /\ stack' = [stack EXCEPT ![t] = Front(Front(s))]
      /\ UNCHANGED <<schedVars, saved, restoring, depth, smashed, fpu>>
  BY DEF SVC_Handler
<1>2. IInv /\ PortTypeOK /\ BootInv /\ MainInv /\ RunningInv /\ HandlerInv /\ OthersInv
  BY <1>1 DEF PortIInv, Runs
<1>3. /\ kern' = kern /\ pend' = pend /\ switching' = switching /\ systick' = systick
      /\ saved' = saved /\ restoring' = restoring /\ smashed' = smashed /\ fpu' = fpu
  BY <1>1 DEF schedVars
<1>4. IInv'
  BY <1>1, <1>2, StepInv
<1>5. live.core = NULL /\ ~switching /\ restoring = NULL
  BY <1>1, <1>2, PortFacts DEF Runs, HandlerInv
<1>6. t = kern.cur /\ t \in Tasks /\ t # NULL /\ t # HANDLER /\ RegistersOf(NULL, live) /\ msp = <<>>
  BY <1>1, <1>2, <1>5, PortFacts DEF RunningInv, BootInv, PortTypeOK, KernelType
<1>7. Parked(t) /\ Len(s) # 3
  BY <1>2, <1>5, <1>6, PortFacts DEF RunningInv, MainInv
<1>8. s \in Seq(Frames) /\ Len(s) = 2 /\ FramesOf(t, s[1], s[2], TRUE)
  BY <1>2, <1>6, <1>7, ParkedFrames
<1> HIDE DEF s, t
<1>9. Last(s) = s[2] /\ Last(Front(s)) = s[1] /\ Front(Front(s)) = <<>>
  BY <1>8, PopTwoFrames
<1>10. /\ live' \in Registers /\ RegistersOf(t, live') /\ live'.core = t /\ live'.psp = t
       /\ live'.spsel = "PSP"
  <2>1. live' = Restored(s[2], s[1], t)
    BY <1>1, <1>9
  <2> QED
    <3> DEFINE hw == s[1]
               sw == s[2]
    <3>1. PortTypeOK /\ t \in Tasks /\ TRUE \in BOOLEAN /\ FramesOf(t, hw, sw, TRUE)
      BY <1>2, <1>6, <1>8
    <3>2. live' = Restored(sw, hw, t)
      BY <2>1
    <3> HIDE DEF hw, sw
    <3>3. Resumed(t, live', t, TRUE)
      BY <3>1, <3>2, RestoredRegisters
    <3> QED
      BY <3>3 DEF Resumed
<1>11. stack'[t] = <<>> /\ \A u \in Tasks \ {t} : stack'[u] = stack[u]
  BY <1>1, <1>2, <1>6, <1>9 DEF PortTypeOK
<1>12. PortTypeOK'
  <2>1. HwFrame(live) \in Frames
    BY <1>2, <1>5, <1>6, SavedFrames DEF FramesOf, Frames
  <2>2. msp' \in Seq(Frames)
    BY <2>1, <1>1, <1>6
  <2>3. stack' \in [Tasks -> Seq(Frames)]
    <3>1. stack' = [stack EXCEPT ![t] = <<>>] /\ <<>> \in Seq(Frames)
      BY <1>1, <1>9
    <3> QED
      BY <3>1, <1>2 DEF PortTypeOK
  <2> QED
    BY <2>2, <2>3, <1>2, <1>3, <1>10 DEF PortTypeOK
<1>13. BootInv'
  BY <1>1, <1>2, <1>3, <1>6 DEF BootInv
<1>14. MainInv'
  <2>1. \A u \in Tasks : Len(stack'[u]) # 3
    BY <1>2, <1>5, <1>11 DEF MainInv
  <2> QED
    BY <2>1, <1>1 DEF MainInv
<1>15. RunningInv'
  BY <1>1, <1>3, <1>6, <1>10, <1>11 DEF RunningInv, RegistersOf
<1>16. HandlerInv'
  BY <1>3, <1>5, <1>6, <1>10 DEF HandlerInv
<1>17. OthersInv'
  BY <1>2, <1>3, <1>6, <1>11, ParkedKept DEF OthersInv
<1> QED
  BY <1>4, <1>12, <1>13, <1>14, <1>15, <1>16, <1>17 DEF PortIInv

-----------------------------------------------------------------------------
(* PendSV_Handler.  It saves the registers of the task that runs, or those *)
(* of main on top of the first task's ...                                  *)
LEMMA PendSVSaveInv ==
    ASSUME PortIInv, PendSVSave
    PROVE  PortIInv'
<1> DEFINE onpsp == live.spsel = "PSP"
<1>t. PICK t, hw, sw : /\ t = live.psp /\ hw = HwFrame(live)
                       /\ sw = SwFrame(live, LinkRegister(live))
  OBVIOUS
<1>1. /\ PendSVEnter /\ restoring = NULL
      /\ stack' = IF onpsp THEN [stack EXCEPT ![t] = @ \o <<hw, sw>>]
                           ELSE [stack EXCEPT ![t] = Append(@, sw)]
      /\ msp' = IF onpsp THEN msp ELSE Append(msp, hw)
      /\ live' = [live EXCEPT !.core = HANDLER, !.r4_11 = HANDLER, !.fpca = FALSE]
      /\ saved' = saved /\ boot' = boot /\ restoring' = restoring /\ depth' = depth /\ fpu' = fpu
  BY <1>t DEF PendSVSave
<1>2. Touch(t, WordsUsed(t, stack'[t]))
  BY <1>t DEF PendSVSave
<1>3. /\ ~kern.failed /\ pend /\ ~switching /\ systick = "idle" /\ kern.cur # NULL
      /\ ~pend' /\ switching' /\ kern' = kern /\ systick' = systick
  BY <1>1 DEF PendSVEnter
<1>4. IInv /\ PortTypeOK /\ BootInv /\ MainInv /\ RunningInv /\ HandlerInv /\ OthersInv
  BY <1>3 DEF PortIInv
<1>5. IInv'
  BY <1>1, <1>4, StepInv DEF Next, Exceptions
<1>6. live.core # HANDLER /\ boot \in {"window", "done"}
  BY <1>1, <1>3, <1>4 DEF HandlerInv, BootInv
<1>7. t = kern.cur /\ t \in Tasks /\ t # NULL /\ RegistersOf(live.core, live)
  BY <1>t, <1>3, <1>4, <1>6 DEF RunningInv, PortTypeOK, KernelType
<1>8. FramesOf(live.core, hw, sw, onpsp)
  BY <1>t, <1>4, <1>7, SavedFrames
<1>9. hw \in Frames /\ sw \in Frames
  BY <1>8 DEF FramesOf, Frames
<1>10. live' \in Registers /\ live'.core = HANDLER /\ live'.psp = t
  BY <1>t, <1>1, <1>4 DEF PortTypeOK, Registers, Values
<1>11. stack[t] \in Seq(Frames) /\ msp \in Seq(Frames) /\ stack \in [Tasks -> Seq(Frames)]
  BY <1>4, <1>7 DEF PortTypeOK
<1>12. \A u \in Tasks \ {t} : stack'[u] = stack[u]
  BY <1>1, <1>7, <1>11
<1>13. /\ stack'[t] \in Seq(Frames) /\ msp' \in Seq(Frames) /\ Parked(t)'
       /\ IF live.core = NULL
          THEN /\ boot = "window" /\ Len(stack'[t]) = 3 /\ Len(msp') = 1
               /\ FramesOf(NULL, msp'[1], stack'[t][3], FALSE)
          ELSE Len(stack'[t]) = 2 /\ msp' = msp
  <2>1. CASE live.core = NULL
    <3>1. /\ ~onpsp /\ boot = "window" /\ msp = <<>> /\ Parked(t)
      BY <2>1, <1>4, <1>6, <1>7 DEF RunningInv
    <3>2. Len(stack[t]) = 2 /\ FramesOf(t, stack[t][1], stack[t][2], TRUE)
      <4>1. Len(stack[t]) # 3
        BY <2>1, <1>4, <1>7 DEF MainInv
      <4> QED
        BY <4>1, <3>1 DEF Parked
    <3>3. stack'[t] = Append(stack[t], sw) /\ msp' = Append(<<>>, hw)
      BY <3>1, <1>1, <1>7, <1>11
    <3>4. /\ Append(stack[t], sw) \in Seq(Frames) /\ Len(Append(stack[t], sw)) = 3
          /\ Append(stack[t], sw)[1] = stack[t][1] /\ Append(stack[t], sw)[2] = stack[t][2]
          /\ Append(stack[t], sw)[3] = sw
      <4>1. Len(stack[t]) + 1 = 3 /\ 1 \in 1 .. Len(stack[t]) /\ 2 \in 1 .. Len(stack[t])
        BY <3>2
      <4> QED
        BY <4>1, <1>9, <1>11, AppendProperties
    <3>5. Append(<<>>, hw) \in Seq(Frames) /\ Len(Append(<<>>, hw)) = 1 /\ Append(<<>>, hw)[1] = hw
      BY <1>9
    <3>6. FramesOf(NULL, hw, sw, FALSE)
      BY <2>1, <3>1, <1>8 DEF FramesOf, ExcReturn
    <3>7. FramesOf(t, stack[t][1], stack[t][2], TRUE)' /\ Len(stack'[t]) = 3
      BY <3>2, <3>3, <3>4, <1>1 DEF FramesOf
    <3>8. Parked(t)'
      BY <3>7 DEF Parked
    <3> QED
      BY <2>1, <3>1, <3>3, <3>4, <3>5, <3>6, <3>8
  <2>2. CASE live.core # NULL
    <3>1. onpsp /\ stack[t] = <<>> /\ live.core = t
      BY <2>2, <1>4, <1>6, <1>7 DEF RunningInv
    <3>2. stack'[t] = <<>> \o <<hw, sw>> /\ msp' = msp
      BY <3>1, <1>1, <1>7, <1>11
    <3>3. <<hw, sw>> \in Seq(Frames)
      BY <1>9
    <3>4. stack'[t] = <<hw, sw>>
      BY <3>2, <3>3, ConcatEmptySeq
    <3>5. /\ stack'[t] \in Seq(Frames) /\ Len(stack'[t]) = 2
          /\ stack'[t][1] = hw /\ stack'[t][2] = sw
      BY <3>3, <3>4
    <3>6. FramesOf(t, hw, sw, TRUE)'
      BY <3>1, <1>1, <1>8 DEF FramesOf, ExcReturn
    <3>7. Parked(t)'
      BY <3>5, <3>6 DEF Parked
    <3> QED
      BY <2>2, <3>2, <3>5, <3>7, <1>11
  <2> QED
    BY <2>1, <2>2
<1>14. /\ smashed' \subseteq {kern.cur} \cap Tasks
       /\ ReachesGuard(WordsUsed(t, stack'[t])) => t \in smashed'
  BY <1>2, <1>4, <1>7 DEF Touch, PortTypeOK
<1>15. PortTypeOK'
  <2>1. stack' \in [Tasks -> Seq(Frames)]
    <3>1. stack' = [stack EXCEPT ![t] = stack'[t]]
      BY <1>1, <1>7, <1>11
    <3> QED
      BY <3>1, <1>11, <1>13
  <2> QED
    BY <2>1, <1>1, <1>3, <1>4, <1>10, <1>13, <1>14 DEF PortTypeOK
<1>16. BootInv'
  BY <1>1, <1>3, <1>4, <1>6 DEF BootInv
<1>17. MainInv'
  <2>1. live'.core # NULL
    BY <1>10, PortFacts
  <2>2. CASE live.core = NULL
    <3>1. \A u \in Tasks \ {t} : Len(stack'[u]) # 3
      BY <2>2, <1>4, <1>12 DEF MainInv
    <3>2. /\ boot' = "window" /\ Len(msp') = 1 /\ Len(stack'[t]) = 3
          /\ FramesOf(NULL, msp[1], stack[t][3], FALSE)'
      BY <2>2, <1>1, <1>13 DEF FramesOf
    <3> QED
      BY <3>1, <3>2, <2>1, <1>7 DEF MainInv
  <2>3. CASE live.core # NULL /\ boot = "window"
    <3>1. /\ Len(msp) = 1
          /\ \E u \in Tasks : /\ Len(stack[u]) = 3
                              /\ FramesOf(NULL, msp[1], stack[u][3], FALSE)
                              /\ \A v \in Tasks \ {u} : Len(stack[v]) # 3
      BY <2>3, <1>4 DEF MainInv
    <3>2. PICK u \in Tasks : /\ Len(stack[u]) = 3
                             /\ FramesOf(NULL, msp[1], stack[u][3], FALSE)
                             /\ \A v \in Tasks \ {u} : Len(stack[v]) # 3
      BY <3>1
    <3>3. stack[t] = <<>> /\ Len(stack'[t]) = 2 /\ msp' = msp
      BY <2>3, <1>4, <1>6, <1>7, <1>13 DEF RunningInv
    <3>4. u # t /\ stack'[u] = stack[u]
      BY <3>2, <3>3, <1>12
    <3>5. \A v \in Tasks \ {u} : Len(stack'[v]) # 3
      BY <3>2, <3>3, <1>12
    <3>6. FramesOf(NULL, msp[1], stack[u][3], FALSE)'
      BY <3>2, <3>3, <3>4, <1>1 DEF FramesOf
    <3> QED
      BY <3>1, <3>2, <3>3, <3>4, <3>5, <3>6, <2>1, <2>3, <1>1 DEF MainInv
  <2>4. CASE live.core # NULL /\ boot # "window"
    <3>1. \A u \in Tasks : Len(stack[u]) # 3
      BY <2>4, <1>4 DEF MainInv
    <3>2. Len(stack'[t]) # 3
      <4>1. Len(stack'[t]) = 2
        BY <2>4, <1>13, ZenonT(60)
      <4> QED
        BY <4>1
    <3>3. \A u \in Tasks : Len(stack'[u]) # 3
      <4> SUFFICES ASSUME NEW u \in Tasks
                   PROVE  Len(stack'[u]) # 3
        OBVIOUS
      <4>1. CASE u = t
        BY <3>2, <4>1
      <4>2. CASE u # t
        BY <3>1, <1>12, <4>2
      <4> QED
        BY <4>1, <4>2
    <3> QED
      BY <3>3, <2>4, <1>1 DEF MainInv
  <2> QED
    BY <2>2, <2>3, <2>4
<1>18. RunningInv'
  BY <1>10 DEF RunningInv
<1>19. HandlerInv'
  BY <1>1, <1>3, <1>7, <1>10, <1>13, <1>14 DEF HandlerInv, ReachesGuard, WordsUsed
<1>20. OthersInv'
  BY <1>1, <1>3, <1>4, <1>7, <1>12, ParkedKept DEF OthersInv
<1> QED
  BY <1>5, <1>15, <1>16, <1>17, <1>18, <1>19, <1>20 DEF PortIInv

(* ... the scheduler checks its stack and chooses a task, whose registers  *)
(* are in its stack, as they are of all tasks now ...                      *)
LEMMA SwitchContextInv ==
    ASSUME PortIInv, SwitchContext
    PROVE  /\ PortIInv'
           /\ kern'.failed => kern'.cur = live.psp /\ live.psp = kern.cur /\ kern.cur \in smashed
<1>t. PICK t, sp : t = live.psp /\ sp = [of |-> t, frames |-> Len(stack[t])]
  OBVIOUS
<1>1. /\ switching /\ systick = "idle" /\ ~kern.failed
      /\ saved' = [saved EXCEPT ![kern.cur] = sp]
      /\ restoring' = saved'[kern'.cur]
      /\ live' = live /\ stack' = stack /\ msp' = msp /\ boot' = boot /\ depth' = depth
      /\ smashed' = smashed /\ fpu' = fpu
  BY <1>t DEF SwitchContext
<1>2. \/ PendSVSwitch /\ artos_task_stack_valid(kern.cur, WordsUsed(t, stack[t]))
      \/ /\ kern' = Fail(kern) /\ UNCHANGED <<pend, switching, systick, pc>>
         /\ ~artos_task_stack_valid(kern.cur, WordsUsed(t, stack[t]))
  BY <1>t DEF SwitchContext
<1>3. IInv /\ PortTypeOK /\ BootInv /\ MainInv /\ RunningInv /\ HandlerInv /\ OthersInv
  BY <1>1 DEF PortIInv
<1>4. /\ t = kern.cur /\ t \in Tasks /\ boot \in {"window", "done"} /\ live.core = HANDLER
      /\ Parked(t) /\ (ReachesGuard(WordsUsed(t, stack[t])) => t \in smashed)
  <2>1. /\ live.core = HANDLER /\ t = kern.cur /\ Parked(t)
        /\ ReachesGuard(WordsUsed(t, stack[t])) => t \in smashed
    BY <1>t, <1>1, <1>3 DEF HandlerInv
  <2> QED
    BY <2>1, <1>1, <1>3 DEF BootInv, PortTypeOK, KernelType
<1>5. Len(stack[t]) \in {2, 3} /\ sp \in [of : Tasks, frames : Nat]
  BY <1>t, <1>4 DEF Parked
<1>6. /\ saved' \in [Tasks -> [of : Tasks, frames : Nat]]
      /\ \A u \in Tasks : saved'[u] = [of |-> u, frames |-> Len(stack[u])]
      /\ \A u \in Tasks : Parked(u) /\ Parked(u)'
  <2>1. saved \in [Tasks -> [of : Tasks, frames : Nat]]
    BY <1>3 DEF PortTypeOK
  <2>2. saved'[t] = sp /\ \A u \in Tasks \ {t} : saved'[u] = saved[u]
    BY <2>1, <1>1, <1>4
  <2>3. \A u \in Tasks \ {t} : Parked(u) /\ saved[u] = [of |-> u, frames |-> Len(stack[u])]
    BY <1>3, <1>4 DEF OthersInv
  <2>4. \A u \in Tasks : Parked(u)' <=> Parked(u)
    BY <1>1, ParkedKept
  <2>5. \A u \in Tasks : saved'[u] = [of |-> u, frames |-> Len(stack[u])]
    BY <2>2, <2>3, <1>t
  <2>6. \A u \in Tasks : Parked(u)
    BY <2>3, <1>4
  <2> QED
    BY <2>1, <2>4, <2>5, <2>6, <1>1, <1>5
<1>7. /\ ~kern'.failed => IInv'
      /\ kern' \in KernelType /\ kern'.cur \in Tasks
      /\ smashed \subseteq {kern'.cur} \cap Tasks
      /\ switching' => kern'.cur = t /\ kern'.failed
      /\ kern'.failed => kern'.cur = t /\ t \in smashed
  <2>1. smashed \subseteq {t} /\ t \in Tasks
    BY <1>3, <1>4 DEF PortTypeOK
  <2>2. CASE PendSVSwitch /\ artos_task_stack_valid(kern.cur, WordsUsed(t, stack[t]))
    <3>1. IInv'
      BY <2>2, <1>3, StepInv DEF Next, Exceptions
    <3>2. kern'.cur # NULL
      BY <2>2, <1>3, PendSVSwitchCore DEF IInv
    <3>3. kern' \in KernelType /\ ~kern'.failed
      BY <3>1 DEF IInv, CoreInv, KInv
    <3>4. kern'.cur \in Tasks
      BY <3>2, <3>3 DEF KernelType
    <3>5. smashed = {} /\ ~switching'
      BY <2>1, <2>2, <1>4 DEF artos_task_stack_valid, PendSVSwitch
    <3> QED
      BY <3>1, <3>3, <3>4, <3>5
  <2>3. CASE /\ kern' = Fail(kern) /\ UNCHANGED <<pend, switching, systick, pc>>
             /\ ~artos_task_stack_valid(kern.cur, WordsUsed(t, stack[t]))
    <3>1. kern' \in KernelType /\ kern'.failed /\ kern'.cur = kern.cur
      BY <2>3, <1>3 DEF PortTypeOK, KernelType, Fail
    <3>2. t \in smashed
      BY <2>3, <1>4 DEF artos_task_stack_valid, ReachesGuard
    <3> QED
      BY <3>1, <3>2, <2>1, <1>4
  <2> QED
    BY <2>2, <2>3, <1>2
<1>8. PortTypeOK'
  BY <1>1, <1>3, <1>6, <1>7 DEF PortTypeOK
<1>9. BootInv'
  <2>1. kern.cur # NULL /\ kern'.cur # NULL
    BY <1>4, <1>7, PortFacts
  <2> QED
    BY <2>1, <1>1, <1>3, <1>4 DEF BootInv
<1>10. MainInv'
  BY <1>1, <1>3 DEF MainInv, FramesOf
<1>11. RunningInv'
  BY <1>1, <1>4 DEF RunningInv
<1>12. HandlerInv'
  <2>1. restoring' = [of |-> kern'.cur, frames |-> Len(stack'[kern'.cur])]
    BY <1>1, <1>6, <1>7
  <2>2. restoring' # NULL
    <3>1. saved'[kern'.cur] \in [of : Tasks, frames : Nat]
      BY <1>6, <1>7
    <3> QED
      BY <3>1, <1>1, PortFacts
  <2>3. ReachesGuard(WordsUsed(t, stack[t]))' => t \in smashed'
    BY <1>1, <1>4 DEF ReachesGuard, WordsUsed
  <2>4. Parked(kern.cur)'
    BY <1>6, <1>7 DEF Parked
  <2> QED
    BY <2>1, <2>2, <2>3, <2>4, <1>t, <1>1, <1>4, <1>7 DEF HandlerInv
<1>13. OthersInv'
  BY <1>1, <1>6 DEF OthersInv
<1> QED
  BY <1>t, <1>4, <1>7, <1>8, <1>9, <1>10, <1>11, <1>12, <1>13 DEF PortIInv

(* ... and PendSV_Handler loads the registers at the returned pointer, the *)
(* task's own or, on top of them, those of main.                           *)
LEMMA PendSVReturnInv ==
    ASSUME PortIInv, PendSVReturn
    PROVE  PortIInv'
<1>t. PICK t, s, n, rest : /\ t = kern.cur /\ s = stack[t] /\ n = Len(s)
                           /\ rest = SubSeq(s, 1, n - 1)
  OBVIOUS
<1>1. /\ restoring # NULL /\ ~kern.failed /\ systick = "idle" /\ restoring' = NULL
      /\ UNCHANGED <<schedVars, saved, boot, depth, smashed, fpu>>
  BY DEF PendSVReturn
<1>2. IInv /\ PortTypeOK /\ BootInv /\ MainInv /\ RunningInv /\ HandlerInv /\ OthersInv
  BY <1>1 DEF PortIInv
<1>3. /\ ~switching /\ live.core = HANDLER /\ Parked(t)
      /\ restoring = [of |-> t, frames |-> n]
  BY <1>t, <1>1, <1>2 DEF HandlerInv
<1>4. /\ live' = Restored(s[n], IF s[n].lr.psp THEN Last(rest) ELSE Last(msp), t)
      /\ stack' = [stack EXCEPT ![t] = IF s[n].lr.psp THEN Front(rest) ELSE rest]
      /\ msp' = IF s[n].lr.psp THEN msp ELSE Front(msp)
  BY <1>t, <1>3 DEF PendSVReturn
<1>5. /\ kern' = kern /\ pend' = pend /\ switching' = switching /\ systick' = systick
      /\ saved' = saved /\ boot' = boot /\ smashed' = smashed /\ fpu' = fpu
  BY <1>1 DEF schedVars
<1>6. IInv'
  BY <1>1, <1>2, StepInv
<1>7. /\ boot \in {"window", "done"} /\ live.core # NULL
      /\ t \in Tasks /\ t # NULL /\ t # HANDLER
  <2>1. live.core # NULL
    BY <1>3, PortFacts
  <2>2. boot \in {"window", "done"} /\ kern.cur # NULL
    BY <2>1, <1>2 DEF BootInv
  <2> QED
    BY <2>1, <2>2, <1>t, <1>2, PortFacts DEF PortTypeOK, KernelType
<1>8. /\ s \in Seq(Frames) /\ n \in {2, 3} /\ FramesOf(t, s[1], s[2], TRUE)
      /\ stack \in [Tasks -> Seq(Frames)] /\ msp \in Seq(Frames)
  BY <1>t, <1>2, <1>3, <1>7, ParkedFrames DEF PortTypeOK
<1>9. /\ rest \in Seq(Frames) /\ Len(rest) = n - 1
      /\ rest[1] = s[1] /\ (n = 3 => rest[2] = s[2])
  <2>1. /\ rest \in Seq(Frames) /\ Len(rest) = n - 1
        /\ \A i \in 1 .. n - 1 : rest[i] = s[i]
    <3>1. rest = SubSeq(s, 1, Len(s) - 1)
      BY <1>t, Zenon
    <3>n. n \in {2, 3}
      BY <1>8
    <3>m. n = Len(s)
      BY <1>t, Zenon
    <3>2. n > 0 /\ n = Len(s)
      BY <3>n, <3>m
    <3>3. /\ rest \in Seq(Frames) /\ Len(rest) = Len(s) - 1
          /\ \A i \in 1 .. Len(s) - 1 : rest[i] = s[i]
      BY <3>1, <3>2, <1>8, PopFrame
    <3> QED
      BY <3>2, <3>3
  <2>2. 1 \in 1 .. n - 1 /\ (n = 3 => 2 \in 1 .. n - 1)
    BY <1>8
  <2> QED
    BY <2>1, <2>2
<1>10. CASE n = 2
  <2>1. s[n].lr.psp = TRUE
    BY <1>8, <1>10 DEF FramesOf, ExcReturn
  <2>2. Last(rest) = s[1] /\ Front(rest) = <<>>
    BY <1>9, <1>10, PopFrame DEF Last, Front
  <2>3. live' = Restored(s[2], s[1], t) /\ stack' = [stack EXCEPT ![t] = <<>>] /\ msp' = msp
    BY <2>1, <2>2, <1>4, <1>10
  <2>4. Resumed(t, live', t, TRUE)
    BY <2>3, <1>2, <1>7, <1>8, RestoredRegisters
  <2>5. /\ live' \in Registers /\ RegistersOf(t, live') /\ live'.core = t /\ live'.psp = t
        /\ live'.spsel = "PSP"
    BY <2>4 DEF Resumed
  <2>6. stack'[t] = <<>> /\ \A u \in Tasks \ {t} : stack'[u] = stack[u]
    BY <2>3, <1>7, <1>8
  <2>7. PortTypeOK'
    <3>1. <<>> \in Seq(Frames)
      OBVIOUS
    <3>2. stack' \in [Tasks -> Seq(Frames)]
      BY <3>1, <2>3, <1>8
    <3> QED
      BY <3>2, <2>3, <2>5, <1>2, <1>5 DEF PortTypeOK
  <2>8. BootInv'
    BY <1>2, <1>5, <1>7 DEF BootInv
  <2>9. MainInv'
    <3>1. CASE boot = "window"
      <4>1. Len(msp) = 1
        BY <3>1, <1>2, <1>7 DEF MainInv
      <4>2. PICK u \in Tasks : /\ Len(stack[u]) = 3
                               /\ FramesOf(NULL, msp[1], stack[u][3], FALSE)
                               /\ \A v \in Tasks \ {u} : Len(stack[v]) # 3
        BY <3>1, <1>2, <1>7 DEF MainInv
      <4>3. u # t /\ stack'[u] = stack[u]
        <5>1. Len(stack[t]) = 2
          BY <1>t, <1>10
        <5>2. u # t
          BY <5>1, <4>2
        <5> QED
          BY <5>2, <2>6
      <4>4. \A v \in Tasks \ {u} : Len(stack'[v]) # 3
        BY <4>2, <2>6
      <4>5. FramesOf(NULL, msp[1], stack[u][3], FALSE)'
        BY <4>2, <4>3, <2>3, <1>5 DEF FramesOf
      <4> QED
        BY <4>1, <4>2, <4>3, <4>4, <4>5, <3>1, <2>3, <2>5, <1>5, <1>7 DEF MainInv
    <3>2. CASE boot # "window"
      <4>1. \A u \in Tasks : Len(stack'[u]) # 3
        BY <3>2, <2>6, <1>2 DEF MainInv
      <4> QED
        BY <4>1, <3>2, <1>5 DEF MainInv
    <3> QED
      BY <3>1, <3>2
  <2>10. RunningInv'
    BY <2>5, <2>6, <1>t, <1>5, <1>7 DEF RunningInv, RegistersOf
  <2>11. HandlerInv'
    BY <2>5, <1>1, <1>3, <1>5, <1>7 DEF HandlerInv
  <2>12. OthersInv'
    BY <2>6, <1>t, <1>2, <1>5, ParkedKept DEF OthersInv
  <2> QED
    BY <2>7, <2>8, <2>9, <2>10, <2>11, <2>12, <1>6 DEF PortIInv
<1>11. CASE n = 3
  <2>1. boot = "window" /\ Len(msp) = 1
    BY <1>t, <1>2, <1>7, <1>11 DEF MainInv
  <2>2. /\ FramesOf(NULL, msp[1], s[3], FALSE)
        /\ \A u \in Tasks \ {t} : Len(stack[u]) # 3
    <3>1. PICK u \in Tasks : /\ Len(stack[u]) = 3
                             /\ FramesOf(NULL, msp[1], stack[u][3], FALSE)
                             /\ \A v \in Tasks \ {u} : Len(stack[v]) # 3
      BY <2>1, <1>2, <1>7 DEF MainInv
    <3>2. u = t
      BY <3>1, <1>t, <1>7, <1>11
    <3> QED
      BY <3>1, <3>2, <1>t
  <2>3. s[n].lr.psp = FALSE
    BY <2>2, <1>11 DEF FramesOf, ExcReturn
  <2>4. Last(msp) = msp[1] /\ Front(msp) = <<>>
    BY <2>1, <1>8, PopFrame DEF Last, Front
  <2>5. live' = Restored(s[3], msp[1], t) /\ stack' = [stack EXCEPT ![t] = rest] /\ msp' = <<>>
    BY <2>3, <2>4, <1>4, <1>11
  <2>6. Resumed(NULL, live', t, FALSE)
    BY <2>2, <2>5, <1>2, <1>7, RestoredRegisters
  <2>7. /\ live' \in Registers /\ RegistersOf(NULL, live') /\ live'.core = NULL /\ live'.psp = t
        /\ live'.spsel = "MSP"
    BY <2>6 DEF Resumed
  <2>8. stack'[t] = rest /\ \A u \in Tasks \ {t} : stack'[u] = stack[u]
    BY <2>5, <1>7, <1>8
  <2>9. Len(stack'[t]) = 2 /\ Parked(t)'
    <3>1. Len(stack'[t]) = 2 /\ stack'[t][1] = s[1] /\ stack'[t][2] = s[2]
      BY <2>8, <1>9, <1>11
    <3>2. FramesOf(t, s[1], s[2], TRUE)'
      BY <1>5, <1>8 DEF FramesOf
    <3> QED
      BY <3>1, <3>2 DEF Parked
  <2>10. PortTypeOK'
    <3>1. stack' \in [Tasks -> Seq(Frames)]
      BY <2>5, <1>8, <1>9
    <3>2. msp' \in Seq(Frames)
      BY <2>5
    <3> QED
      BY <3>1, <3>2, <2>7, <1>2, <1>5 DEF PortTypeOK
  <2>11. BootInv'
    BY <1>2, <1>5, <1>7 DEF BootInv
  <2>12. MainInv'
    <3>1. \A u \in Tasks : Len(stack'[u]) # 3
      BY <2>2, <2>8, <2>9
    <3> QED
      BY <3>1, <2>7 DEF MainInv
  <2>13. RunningInv'
    BY <2>1, <2>5, <2>7, <2>9, <1>t, <1>5 DEF RunningInv, RegistersOf
  <2>14. HandlerInv'
    BY <2>7, <1>1, <1>3, <1>5, PortFacts DEF HandlerInv
  <2>15. OthersInv'
    BY <2>8, <1>t, <1>2, <1>5, ParkedKept DEF OthersInv
  <2> QED
    BY <2>10, <2>11, <2>12, <2>13, <2>14, <2>15, <1>6 DEF PortIInv
<1> QED
  BY <1>8, <1>10, <1>11

(* A task computes with the FPU: from then on its FPU registers count. *)
LEMMA UseFPUInv ==
    ASSUME PortIInv, NEW t \in Slots, UseFPU(t)
    PROVE  PortIInv'
<1>1. /\ Runs(t) /\ live' = [live EXCEPT !.s0_15 = t, !.s16_31 = t, !.fpca = TRUE]
      /\ fpu' = fpu \cup {t}
      /\ UNCHANGED <<schedVars, stack, msp, saved, boot, restoring, depth, smashed>>
  BY DEF UseFPU
<1>2. IInv /\ PortTypeOK /\ BootInv /\ MainInv /\ RunningInv /\ HandlerInv /\ OthersInv
  BY <1>1 DEF PortIInv, Runs
<1>3. t \in Tasks /\ t # NULL /\ t # HANDLER
  BY PortFacts
<1>4. /\ boot \in {"window", "done"} /\ t = kern.cur /\ live.psp = t
      /\ live.core = t /\ live.spsel = "PSP" /\ stack[t] = <<>>
      /\ ~pend /\ ~switching /\ restoring = NULL
  BY <1>1, <1>3, RunningThread
<1>5. /\ kern' = kern /\ pend' = pend /\ switching' = switching /\ systick' = systick
      /\ saved' = saved /\ boot' = boot /\ smashed' = smashed /\ stack' = stack
      /\ msp' = msp /\ restoring' = restoring
  BY <1>1 DEF schedVars
<1>6. IInv'
  BY <1>1, <1>2, StepInv
<1>7. /\ live' \in Registers /\ live'.core = t /\ live'.r4_11 = live.r4_11 /\ live'.psp = t
      /\ live'.spsel = "PSP" /\ live'.fpca /\ live'.s0_15 = t /\ live'.s16_31 = t
  BY <1>1, <1>2, <1>3, <1>4 DEF PortTypeOK, Registers, Values
<1>8. \A u \in Tasks \ {t} : Parked(u) => Parked(u)'
  BY <1>1, <1>5 DEF Parked, FramesOf
<1>9. PortTypeOK'
  BY <1>2, <1>5, <1>7 DEF PortTypeOK
<1>10. BootInv'
  BY <1>2, <1>4, <1>5 DEF BootInv
<1>11. MainInv'
  <2>1. (boot = "window" /\ live.core # NULL) = (boot = "window" /\ live.core # NULL)'
    BY <1>3, <1>4, <1>5, <1>7
  <2>2. ASSUME NEW u \in Tasks
        PROVE  FramesOf(NULL, msp[1], stack[u][3], FALSE) =>
                   FramesOf(NULL, msp[1], stack[u][3], FALSE)'
    BY <1>1, <1>3, <1>5 DEF FramesOf
  <2>3. CASE boot = "window" /\ live.core # NULL
    <3>1. PICK u \in Tasks : /\ Len(stack[u]) = 3
                             /\ FramesOf(NULL, msp[1], stack[u][3], FALSE)
                             /\ \A v \in Tasks \ {u} : Len(stack[v]) # 3
      BY <1>2, <2>3 DEF MainInv
    <3>2. Len(msp) = 1
      BY <1>2, <2>3 DEF MainInv
    <3>3. FramesOf(NULL, msp[1], stack[u][3], FALSE)'
      BY <2>2, <3>1
    <3> QED
      BY <1>5, <2>1, <2>3, <3>1, <3>2, <3>3 DEF MainInv
  <2>4. CASE ~(boot = "window" /\ live.core # NULL)
    BY <1>2, <1>5, <2>1, <2>4 DEF MainInv
  <2> QED
    BY <2>3, <2>4
<1>12. RunningInv'
  <2>1. RegistersOf(t, live)'
    BY <1>2, <1>3, <1>4, <1>7 DEF RunningInv, RegistersOf
  <2> QED
    BY <2>1, <1>3, <1>4, <1>5, <1>7 DEF RunningInv
<1>13. HandlerInv'
  BY <1>3, <1>4, <1>5, <1>7 DEF HandlerInv
<1>14. OthersInv'
  BY <1>2, <1>4, <1>5, <1>8 DEF OthersInv
<1> QED
  BY <1>6, <1>9, <1>10, <1>11, <1>12, <1>13, <1>14 DEF PortIInv

-----------------------------------------------------------------------------
LEMMA PortStepInv ==
    ASSUME PortIInv, PortNext
    PROVE  PortIInv'
BY StartChooseInv, StartFirstInv, SVCInv, PendSVSaveInv, SwitchContextInv, PendSVReturnInv,
   InterruptsInv, TaskCallInv, UseFPUInv, UseStackInv DEF PortNext

LEMMA PortStutter ==
    ASSUME PortIInv, UNCHANGED vars
    PROVE  PortIInv'
<1>1. smashed \subseteq {kern.cur} \cap Tasks /\ kern \in KernelType
  BY DEF PortIInv, PortTypeOK
<1>2. UNCHANGED schedVars /\ UNCHANGED portVars
  BY DEF vars
<1>3. ~kern'.failed => ~kern.failed /\ IInv'
  <2> SUFFICES ASSUME ~kern'.failed PROVE ~kern.failed /\ IInv'
    OBVIOUS
  <2>1. ~kern.failed
    BY <1>2 DEF schedVars
  <2> QED
    BY <2>1, <1>2, StepInv DEF PortIInv
<1> QED
  BY <1>1, <1>2, <1>3, QuietStep DEF schedVars, portVars

(* The inductive invariant of the port. *)
THEOREM PortInvariance == PortSpec => []PortIInv
<1>1. PortInit => PortIInv
  BY PortInitInv
<1>2. PortIInv /\ [PortNext]_vars => PortIInv'
  BY PortStepInv, PortStutter
<1> QED
  BY <1>1, <1>2, PTL DEF PortSpec

(* What the invariant says of the threads that run and of those that wait. *)
LEMMA ContextsHold ==
    ASSUME PortIInv
    PROVE  ContextIntact /\ ParkedContexts
<1>1. ContextIntact
  BY DEF PortIInv, RunningInv, RegistersOf, BootInv, ContextIntact
<1>2. ParkedContexts
  <2> SUFFICES ASSUME NEW t \in (kern.created \cup {IDLE}) \ {kern.cur}
               PROVE  /\ saved[t] = [of |-> t, frames |-> Len(stack[t])]
                      /\ Len(stack[t]) \in {2, 3}
                      /\ stack[t][1].core = t /\ stack[t][2].r4_11 = t
                      /\ stack[t][2].lr = ExcReturn(TRUE, stack[t][1].fp)
                      /\ Len(stack[t]) = 3 =>
                            /\ boot = "window" /\ stack[t][3].r4_11 = NULL
                            /\ stack[t][3].lr = ExcReturn(FALSE, Last(msp).fp)
                            /\ Last(msp).core = NULL
    BY DEF ParkedContexts
  <2>1. t \in Tasks /\ t # kern.cur
    BY PortFacts DEF PortIInv, PortTypeOK, KernelType
  <2>2. Parked(t) /\ saved[t] = [of |-> t, frames |-> Len(stack[t])]
    BY <2>1 DEF PortIInv, OthersInv
  <2>3. ASSUME Len(stack[t]) = 3
        PROVE  boot = "window" /\ Last(msp) = msp[1] /\ FramesOf(NULL, msp[1], stack[t][3], FALSE)
    <3>1. MainInv
      BY DEF PortIInv
    <3>2. boot = "window" /\ live.core # NULL /\ Len(msp) = 1
      BY <3>1, <2>1, <2>3 DEF MainInv
    <3> QED
      BY <3>1, <3>2, <2>1, <2>3 DEF MainInv, Last
  <2> QED
    BY <2>2, <2>3 DEF Parked, FramesOf
<1> QED
  BY <1>1, <1>2

-----------------------------------------------------------------------------
(* Failures.  Until one is recorded the kernel has not failed; afterwards  *)
(* the record and the cause name the current task, and the record gives    *)
(* the reason of the cause unless the breakpoint has no debugger.  The     *)
(* registers stay what they were, so that a second HardFault, raised by    *)
(* the breakpoint, writes the fault record of the first again.             *)
RecordInv ==
    /\ failure_info.task = kern.cur /\ cause.task = kern.cur
    /\ setup = NULL \/ setup # <<TRUE, FALSE>> => failure_info.reason = cause.reason
    /\ cause.reason = "STACK_OVERFLOW" => kern.cur \in smashed
    /\ cause.reason = "PORT_FAULT" =>
          /\ live.core = kern.cur /\ fault_info.of = kern.cur
          /\ ~live.fpca => fault_info.words = BasicFrame

DiagIInv ==
    /\ PortIInv
    /\ setup \in Setups \cup {NULL}
    /\ cpu = "running" => ~kern.failed /\ cause = NULL
    /\ cpu # "running" => RecordInv

(* The only step of the port that can fail is the check of the stack. *)
LEMMA OnlyTheCheckFails ==
    ASSUME PortIInv, ~kern.failed, PortNext, ~SwitchContext
    PROVE  ~kern'.failed
<1>1. IInv
  BY DEF PortIInv
<1>2. IInv' => ~kern'.failed
  BY DEF IInv, CoreInv, KInv
<1>3. CASE StartChoose
  BY <1>1, <1>2, <1>3, StepInv DEF StartChoose, Next
<1>4. CASE rtos_port_start_first_task \/ SVC_Handler \/ PendSVReturn
  BY <1>4 DEF rtos_port_start_first_task, SVC_Handler, PendSVReturn, schedVars
<1>5. CASE PendSVSave
  BY <1>5 DEF PendSVSave, PendSVEnter
<1>6. CASE Interrupts
  <2>1. SysTick \/ artos_yield_from_isr
    BY <1>6 DEF Interrupts, SysTick
  <2> QED
    BY <1>1, <1>2, <2>1, StepInv DEF Next, Exceptions
<1>7. ASSUME NEW t \in Slots, TaskCall(t) PROVE ~kern'.failed
  BY <1>1, <1>2, <1>7, TaskCallKeepsCurrent DEF TaskCall
<1>8. ASSUME NEW t \in Slots, UseFPU(t) \/ \E n \in Depths : UseStack(t, n) PROVE ~kern'.failed
  BY <1>8 DEF UseFPU, UseStack, schedVars
<1> QED
  BY <1>3, <1>4, <1>5, <1>6, <1>7, <1>8 DEF PortNext

(* The frame HardFault_Handler finds is the one that the fault has stacked *)
(* on the same of the two stacks, and without FPU context it is basic.     *)
LEMMA FaultRecord ==
    ASSUME PortIInv, rtos_port_hard_fault_c(ExcReturn(OnPSP, live.fpca))
    PROVE  /\ failure_info' = [reason |-> "PORT_FAULT", task |-> kern.cur]
           /\ cpu' = "halting"
           /\ fault_info'.of = live.core
           /\ ~live.fpca => fault_info'.words = BasicFrame
<1>1. PICK lr : lr = ExcReturn(OnPSP, live.fpca)
  OBVIOUS
<1>2. /\ fault_info' = [of |-> FaultFrame(lr).core,
                        words |-> [i \in 1 .. 8 |->
                                     FrameWord(lr.fp, i - 1 + (IF lr.fp THEN 18 ELSE 0))]]
      /\ rtos_record_failure("PORT_FAULT")
  BY <1>1 DEF rtos_port_hard_fault_c
<1>3. lr.psp = OnPSP /\ lr.fp = live.fpca /\ live.fpca \in BOOLEAN
  BY <1>1 DEF ExcReturn, PortIInv, PortTypeOK, Registers
<1>4. \A s : s \in Seq(Frames) => Last(Append(s, HwFrame(live))) = HwFrame(live)
  <2> TAKE s
  <2> HAVE s \in Seq(Frames)
  <2>1. HwFrame(live) \in Frames
    BY DEF HwFrame, Frames, HwFrames, PortIInv, PortTypeOK, Registers, Values
  <2>2. PICK f : f = HwFrame(live)
    OBVIOUS
  <2>3. Len(Append(s, f)) = Len(s) + 1 /\ Append(s, f)[Len(s) + 1] = f
    BY <2>1, <2>2
  <2> QED
    BY <2>2, <2>3 DEF Last
<1>5. FaultFrame(lr) = HwFrame(live)
  <2>1. CASE OnPSP
    <3>1. live.psp \in Tasks
      BY <2>1, PortFacts DEF OnPSP, PortIInv, RunningInv, BootInv, PortTypeOK, KernelType
    <3>2. stack[live.psp] \in Seq(Frames)
      BY <3>1 DEF PortIInv, PortTypeOK
    <3> QED
      BY <2>1, <3>2, <1>3, <1>4 DEF FaultFrame, FaultPSP
  <2>2. CASE ~OnPSP
    <3>1. msp \in Seq(Frames)
      BY DEF PortIInv, PortTypeOK
    <3> QED
      BY <2>2, <3>1, <1>3, <1>4 DEF FaultFrame, FaultMSP
  <2> QED
    BY <2>1, <2>2
<1>6. fault_info'.of = live.core
  BY <1>2, <1>5 DEF HwFrame
<1>7. ASSUME ~live.fpca PROVE fault_info'.words = BasicFrame
  <2>f. lr.fp = FALSE
    BY <1>3, <1>7
  <2>w. fault_info'.words = [i \in 1 .. 8 |->
                               FrameWord(lr.fp, i - 1 + (IF lr.fp THEN 18 ELSE 0))]
    BY <1>2
  <2>s. \A i \in 1 .. 8 : i - 1 + (IF lr.fp THEN 18 ELSE 0) = i - 1
    BY <2>f
  <2>1. fault_info'.words = [i \in 1 .. 8 |-> FrameWord(FALSE, i - 1)]
    BY <2>f, <2>w, <2>s
  <2>2. \A i \in 1 .. 8 : FrameWord(FALSE, i - 1) = BasicFrame[i]
    BY DEF FrameWord
  <2>3. BasicFrame = [i \in 1 .. 8 |-> BasicFrame[i]]
    BY DEF BasicFrame
  <2> QED
    BY <2>1, <2>2, <2>3
<1> QED
  BY <1>2, <1>6, <1>7 DEF rtos_record_failure

(* A step of the kernel: it fails only if the stack check does. *)
LEMMA KernelStepInv ==
    ASSUME DiagIInv, KernelStep
    PROVE  DiagIInv'
<1>1. /\ PortIInv /\ PortNext /\ cpu = "running" /\ ~kern.failed /\ cause = NULL
      /\ setup \in Setups \cup {NULL}
  BY DEF DiagIInv, KernelStep
<1>2. PortIInv'
  BY <1>1, PortStepInv
<1>3. CASE ~kern'.failed
  <2>1. UNCHANGED diagVars
    BY <1>3 DEF KernelStep
  <2> QED
    BY <2>1, <1>1, <1>2, <1>3 DEF DiagIInv, diagVars
<1>4. CASE kern'.failed
  <2>1. SwitchContext
    BY <1>1, <1>4, OnlyTheCheckFails
  <2>2. kern'.cur = kern.cur /\ live.psp = kern.cur /\ kern.cur \in smashed
    BY <2>1, <1>1, <1>4, SwitchContextInv
  <2>3. smashed' = smashed
    BY <2>1 DEF SwitchContext
  <2>4. /\ failure_info' = [reason |-> "STACK_OVERFLOW", task |-> kern.cur] /\ cpu' = "halting"
        /\ cause' = [reason |-> "STACK_OVERFLOW", task |-> live.psp]
        /\ setup' = setup
    BY <1>1, <1>4 DEF KernelStep, rtos_record_failure, FirstCause
  <2>5. RecordInv'
    BY <2>2, <2>3, <2>4 DEF RecordInv
  <2> QED
    BY <2>4, <2>5, <1>1, <1>2 DEF DiagIInv
<1> QED
  BY <1>3, <1>4

(* The code of a task fails. *)
LEMMA FailuresInv ==
    ASSUME DiagIInv, NEW t \in Slots,
           ThreadFails(t, "TASK_RETURN") \/ ThreadFails(t, "ASSERT") \/ HardFault(t)
    PROVE  DiagIInv'
<1>1. /\ PortIInv /\ cpu = "running" /\ Runs(t) /\ cause = NULL
      /\ setup \in Setups \cup {NULL}
  BY DEF DiagIInv, ThreadFails, HardFault
<1>2. /\ kern' = Fail(kern) /\ UNCHANGED <<pend, switching, systick, pc, portVars>>
      /\ setup' = setup
  BY DEF ThreadFails, HardFault
<1>3. PortIInv' /\ kern'.cur = kern.cur
  BY <1>1, <1>2, FailedInv
<1>4. t = kern.cur /\ live.core = t /\ live' = live
  BY <1>1, <1>2, RunningThread, PortFacts DEF portVars
<1>5. ASSUME NEW reason, reason \in {"TASK_RETURN", "ASSERT"}, ThreadFails(t, reason)
      PROVE  cpu' = "halting" /\ RecordInv'
  <2>1. /\ failure_info' = [reason |-> reason, task |-> kern.cur] /\ cpu' = "halting"
        /\ cause' = [reason |-> reason, task |-> t]
    BY <1>1, <1>5 DEF ThreadFails, rtos_record_failure, FirstCause
  <2> QED
    BY <2>1, <1>3, <1>4, <1>5 DEF RecordInv
<1>6. CASE HardFault(t)
  <2>1. rtos_port_hard_fault_c(ExcReturn(OnPSP, live.fpca))
    BY <1>6 DEF HardFault
  <2>2. cause' = [reason |-> "PORT_FAULT", task |-> t]
    BY <1>1, <1>6 DEF HardFault, FirstCause
  <2>3. /\ failure_info' = [reason |-> "PORT_FAULT", task |-> kern.cur]
        /\ cpu' = "halting"
        /\ fault_info'.of = live.core
        /\ ~live.fpca => fault_info'.words = BasicFrame
    BY <2>1, <1>1, FaultRecord
  <2> QED
    BY <2>2, <2>3, <1>1, <1>2, <1>3, <1>4 DEF DiagIInv, RecordInv
<1> QED
  BY <1>1, <1>2, <1>3, <1>5, <1>6 DEF DiagIInv

(* rtos_port_halt, with its breakpoint. *)
LEMMA HaltInv ==
    ASSUME DiagIInv, rtos_port_halt
    PROVE  DiagIInv'
<1>1. PortIInv /\ RecordInv /\ setup \in Setups \cup {NULL}
  BY DEF DiagIInv, rtos_port_halt
<1>2. UNCHANGED vars /\ cause' = cause
  BY DEF rtos_port_halt
<1>3. PortIInv'
  BY <1>1, <1>2, PortStutter
<1>4. kern' = kern /\ live' = live /\ smashed' = smashed
  BY <1>2 DEF vars, schedVars, portVars
<1>5. setup' \in Setups /\ setup' # NULL /\ (setup # NULL => setup' = setup)
  BY <1>1, DiagnosticsAssumption DEF rtos_port_halt
<1>6. CASE cpu' # "running" /\ UNCHANGED <<failure_info, fault_info>>
  <2>1. RecordInv'
    BY <1>1, <1>2, <1>4, <1>5, <1>6 DEF RecordInv
  <2> QED
    BY <2>1, <1>3, <1>5, <1>6 DEF DiagIInv
<1>7. CASE setup'[1] /\ ~setup'[2] /\ rtos_port_hard_fault_c(ExcReturn(OnPSP, live.fpca))
  <2>1. setup' = <<TRUE, FALSE>>
    <3>1. PICK a \in BOOLEAN, b \in BOOLEAN : setup' = <<a, b>>
      BY <1>5, DiagnosticsAssumption
    <3>2. a /\ ~b
      BY <3>1, <1>7
    <3> QED
      BY <3>1, <3>2
  <2>2. /\ failure_info' = [reason |-> "PORT_FAULT", task |-> kern.cur]
        /\ cpu' = "halting"
        /\ fault_info'.of = live.core
        /\ ~live.fpca => fault_info'.words = BasicFrame
    BY <1>1, <1>7, FaultRecord
  <2>3. RecordInv'
    BY <2>1, <2>2, <1>1, <1>2, <1>4, <1>5 DEF RecordInv
  <2> QED
    BY <2>2, <2>3, <1>3, <1>5 DEF DiagIInv
<1> QED
  BY <1>6, <1>7 DEF rtos_port_halt

(* The inductive invariant of the port with its failures. *)
THEOREM DiagInvariance == DiagSpec => []DiagIInv
<1>1. DiagInit => DiagIInv
  <2> SUFFICES ASSUME DiagInit PROVE DiagIInv
    OBVIOUS
  <2>1. PortInit /\ setup = NULL /\ cpu = "running" /\ cause = NULL
    BY DEF DiagInit
  <2>2. PortIInv
    BY <2>1, PortInitInv
  <2>3. ~kern.failed
    <3>1. Len(Prios) <= MaxTasks /\ Len(Prios) > 0
      BY PortFacts, KernelFacts
    <3>2. MainState(kern, Len(Prios))
      BY <2>1, <3>1, PortFacts, TasksCreatedState DEF PortInit
    <3> QED
      BY <3>2 DEF MainState, KInv
  <2> QED
    BY <2>1, <2>2, <2>3 DEF DiagIInv
<1>2. DiagIInv /\ [DiagNext]_allVars => DiagIInv'
  <2> SUFFICES ASSUME DiagIInv, [DiagNext]_allVars PROVE DiagIInv'
    OBVIOUS
  <2>1. CASE DiagNext
    BY <2>1, KernelStepInv, FailuresInv, HaltInv DEF DiagNext
  <2>2. CASE UNCHANGED allVars
    <3>1. UNCHANGED vars /\ UNCHANGED diagVars
      BY <2>2 DEF allVars
    <3>2. PortIInv'
      BY <3>1, PortStutter DEF DiagIInv
    <3> QED
      BY <3>1, <3>2 DEF DiagIInv, RecordInv, vars, diagVars, schedVars, portVars
  <2> QED
    BY <2>1, <2>2
<1> QED
  BY <1>1, <1>2, PTL DEF DiagSpec

-----------------------------------------------------------------------------
(* Whenever thread code executes, the registers, PSP and the stack are its *)
(* own, whatever SVC, PendSV and interrupts did in between, and they stay  *)
(* so when it fails.                                                       *)
THEOREM ContextsIntact == PortSpec \/ DiagSpec => []ContextIntact
<1>1. PortIInv => ContextIntact
  BY ContextsHold
<1>2. DiagIInv => PortIInv
  BY DEF DiagIInv
<1> QED
  BY <1>1, <1>2, PortInvariance, DiagInvariance, PTL

(* The context of every task that is not current is complete and where its *)
(* control block points.                                                   *)
THEOREM ContextsComplete == PortSpec \/ DiagSpec => []ParkedContexts
<1>1. PortIInv => ParkedContexts
  BY ContextsHold
<1>2. DiagIInv => PortIInv
  BY DEF DiagIInv
<1> QED
  BY <1>1, <1>2, PortInvariance, DiagInvariance, PTL

(* A task whose stack guard is overwritten is not switched away from, and  *)
(* only such a task makes the stack check of the context switch fail.      *)
THEOREM OverflowsCaught == DiagSpec => []OverflowCaught
<1>1. DiagIInv => OverflowCaught
  BY DEF DiagIInv, RecordInv, PortIInv, PortTypeOK, OverflowCaught
<1> QED
  BY <1>1, DiagInvariance, PTL

(* rtos_record_failure leaves the task of the first failure, and its       *)
(* reason unless the breakpoint of rtos_port_halt meets no debugger.       *)
THEOREM RecordsTellCause == DiagSpec => []RecordTellsCause
<1>1. DiagIInv => RecordTellsCause
  BY DEF DiagIInv, RecordInv, RecordTellsCause, Halted
<1> QED
  BY <1>1, DiagInvariance, PTL

(* rtos_port_hard_fault_c records the frame of the thread that faulted,    *)
(* from PSP or MSP, and r0-xPSR when the thread has no FPU context.        *)
THEOREM FaultInfosOfThread == DiagSpec => []FaultInfoOfThread
<1>1. DiagIInv => FaultInfoOfThread
  BY DEF DiagIInv, RecordInv, FaultInfoOfThread
<1> QED
  BY <1>1, DiagInvariance, PTL
=============================================================================
