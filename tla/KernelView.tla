----------------------------- MODULE KernelView -----------------------------
(* The part of the kernel record that matters to the future, for the VIEWs *)
(* of the model-checking modules.                                          *)
EXTENDS Kernel

(* k without dead values: the value of a state item outside the delay      *)
(* lists, of an event item outside the wait lists, the wait reason of a    *)
(* task that is not coming back from a block (the tasks that may be are    *)
(* the set coming), and the order of the suspended tasks.                  *)
LiveKernel(k, coming) ==
    [k EXCEPT !.state_v = [t \in Slots |->
                              IF k.state_c[t] \in DelayLists THEN @[t] ELSE 0],
              !.event_v = [t \in Slots |-> IF k.event_c[t] # NULL THEN @[t] ELSE 0],
              !.reason = [t \in coming |->
                              IF k.event_c[t] = NULL THEN @[t] ELSE "WAIT_NO_REASON"],
              !.state_l[SuspendL] = ToSet(@)]

(* k with the two delay lists renamed so that the current one is DelayedL: *)
(* the code reaches them through cur_delayed and next_delayed only.        *)
CurrentFirst(k) ==
    LET Named(l) == IF l = k.cur_delayed THEN DelayedL
                    ELSE IF l = k.next_delayed THEN DelayedOverflowL ELSE l
    IN  [k EXCEPT !.state_l[DelayedL] = k.state_l[k.cur_delayed],
                  !.state_l[DelayedOverflowL] = k.state_l[k.next_delayed],
                  !.state_c = [t \in Slots |-> Named(@[t])],
                  !.cur_delayed = DelayedL,
                  !.next_delayed = DelayedOverflowL]
=============================================================================
