--------------------------- MODULE StartedKernel ---------------------------
(***************************************************************************)
(* The kernel as an application finds it once main has created its tasks   *)
(* and called artos_start: what the modules of the synchronisation objects *)
(* start from.                                                             *)
(***************************************************************************)
EXTENDS Scheduler

CONSTANT
    TaskSets    \* the priorities of the tasks main creates before artos_start,
                \* in order of creation: a set of sequences, one per application

ASSUME TaskSetsAssumption ==
    \A prios \in TaskSets : prios \in Seq(Priorities) /\ Len(prios) \in 1 .. MaxTasks

(* The state in which main has created one task per element of prios, with *)
(* these priorities, and started the kernel.                               *)
StartedWith(prios) ==
    /\ kern = rtos_scheduler_start(TasksCreated(prios))
    /\ pend = FALSE
    /\ switching = FALSE
    /\ systick = "idle"
    /\ pc = [t \in Threads |-> "app"]

Started == \E prios \in TaskSets : StartedWith(prios)
=============================================================================
