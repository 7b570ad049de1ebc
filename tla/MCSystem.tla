------------------------------ MODULE MCSystem ------------------------------
(* Three tasks, a mutex and a semaphore. *)
EXTENDS System, KernelView

MCTaskSets == {<<1, 0, 0>>}

LiveState ==
    <<CurrentFirst(LiveKernel(kern, {t \in Slots : pc[t] \notin {"app", "switch"}})),
      pend, switching, systick, pc, sem, taking, tokens, owner, locking, inside>>
=============================================================================
