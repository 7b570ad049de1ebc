---------------------------- MODULE MCSemaphore ----------------------------
(* Three tasks and one semaphore. *)
EXTENDS Semaphore, KernelView

MCTaskSets == {<<1, 0, 0>>}

LiveState ==
    <<CurrentFirst(LiveKernel(kern, {t \in Slots : pc[t] \notin {"app", "switch"}})),
      pend, switching, systick, pc, semVars>>
=============================================================================
