-------------------------------- MODULE Fifo --------------------------------
(***************************************************************************)
(* What a message queue promises (rtos.h, README.md "Message Queues"): a   *)
(* bounded channel that delivers every item once, in the order of sending. *)
(***************************************************************************)
EXTENDS Naturals, Sequences

CONSTANTS
    Items,      \* the items that can be sent
    Capacity,   \* the items the queue can hold
    Nothing     \* before the first delivery

VARIABLES
    buf,    \* the items in the queue, oldest first
    out     \* the item delivered last

Init == buf = <<>> /\ out = Nothing

Put(d) ==
    /\ Len(buf) < Capacity
    /\ buf' = Append(buf, d)
    /\ UNCHANGED out

Get ==
    /\ buf # <<>>
    /\ out' = Head(buf)
    /\ buf' = Tail(buf)

Next == (\E d \in Items : Put(d)) \/ Get

Spec == Init /\ [][Next]_<<buf, out>>
=============================================================================
