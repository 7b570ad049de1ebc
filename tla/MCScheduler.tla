---------------------------- MODULE MCScheduler ----------------------------
(* Scheduler with a small pool, two priorities and a tick counter that     *)
(* wraps around every TickMod ticks.  No call here reads a wait reason.    *)
EXTENDS Scheduler, KernelView

LiveState == <<LiveKernel(kern, {}), pend, switching, systick, pc>>
=============================================================================
