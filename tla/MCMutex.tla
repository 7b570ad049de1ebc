------------------------------ MODULE MCMutex ------------------------------
(* Two tasks, a third that is created at any moment, and two mutexes. *)
EXTENDS Mutex, KernelView

MCTaskSets == {<<1, 0>>}

MutexSymmetry == Permutations(Mutexes)

LiveState ==
    <<CurrentFirst(LiveKernel(kern, {t \in Slots : pc[t] \in {"lock_switch", "lock_woken"}})),
      pend, switching, systick, pc, mutexVars>>
=============================================================================
