------------------------------- MODULE System -------------------------------
(***************************************************************************)
(* Tasks that use mutexes and semaphores together.  The objects share the  *)
(* kernel: a task has one event item, one wait reason and one effective    *)
(* priority for all of them, so that a mutex changes the priority of a     *)
(* task that waits for a semaphore.                                        *)
(***************************************************************************)
EXTENDS Semaphore, Mutex

(* An object is a semaphore or a mutex, and there are no others. *)
ASSUME SystemAssumption ==
    Semaphores \cap Mutexes = {} /\ Semaphores \cup Mutexes = WaitLists

vars == <<schedVars, semVars, mutexVars>>

(* The objects are initialised before artos_start. *)
SysInit == SemInit /\ MutexInit

SysNext ==
    \/ SemNext /\ UNCHANGED mutexVars
    \/ /\ UNCHANGED semVars
       /\ \/ \E t \in Slots :
                \/ LockSwitch(t) \/ LockReturn(t)
                \/ \E m \in Mutexes :
                      \/ \E n \in LockTimeouts : artos_mutex_lock(t, m, n)
                      \/ artos_mutex_unlock(t, m)
          \/ (\E t \in Slots, n \in Delays : artos_wait(t, n)) /\ UNCHANGED mutexVars

SysSpec == SysInit /\ [][SysNext]_vars
-----------------------------------------------------------------------------
(* The waiters of every object stay in decreasing order of effective       *)
(* priority while mutexes raise and lower it: the owner of a mutex that    *)
(* waits for a semaphore moves up in the list of the semaphore when a task *)
(* of higher priority waits for the mutex, and back when that task gives   *)
(* up.                                                                     *)
BoostReordersWaiters == TakersByPriority /\ WaitersByPriority

(* What each object guarantees alone holds when tasks block on one while   *)
(* they hold the other.  The one wait reason of a task is never taken for  *)
(* another call's: a take and a lock return as their own object, or their  *)
(* own timeout, decided.                                                   *)
GuaranteesCompose ==
    /\ TakeHasReason /\ LockHasReason
    /\ TokensConserved /\ NobodyWaitsForAvailable
    /\ OwnershipIsReal /\ HeldCountExact
    /\ OwnerOutranksWaiters /\ BoostEndsWithLastUnlock
=============================================================================
