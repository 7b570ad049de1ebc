------------------------------ MODULE MCQueue ------------------------------
(* Two tasks and one queue. *)
EXTENDS Queue, KernelView

MCTaskSets == {<<1, 0>>}

ItemSymmetry == Permutations(Items)

(* Left out besides: the item received last, which no step reads, and the  *)
(* slots of the ring outside its contents.                                 *)
LiveState ==
    <<CurrentFirst(LiveKernel(kern, {t \in Slots : pc[t] \notin {"app", "switch"}})),
      pend, switching, systick, pc, calling, gaveup,
      queue.count, queue.read_index, queue.write_index, Contents>>
=============================================================================
