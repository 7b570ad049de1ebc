---------------------------- MODULE MCMutexDemo ----------------------------
(* The two tasks of the demo; a tick stands for 100 ms. *)
EXTENDS MutexDemo

MCTaskSets == {<<0, 1>>}
=============================================================================
