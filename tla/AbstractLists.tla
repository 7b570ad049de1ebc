--------------------------- MODULE AbstractLists ---------------------------
(***************************************************************************)
(* What the lists of src/src/rtos/list.c promise their callers: sequences  *)
(* of items, changed by the operators of module Lists.  An item has a      *)
(* value, set while it is in no list, and is in at most one list.          *)
(***************************************************************************)
EXTENDS Lists

CONSTANTS Items, ListIds, Values

VARIABLES
    seqs,   \* the items of each list, in order
    value,  \* the value field of each item
    call    \* the function called last and its item

listVars == <<seqs, value, call>>

Detached(i) == \A l \in ListIds : ~In(seqs[l], i)

Init ==
    /\ seqs = [l \in ListIds |-> <<>>]
    /\ value = [i \in Items |-> 0]
    /\ call = <<>>

SetValue(i, v) ==
    /\ Detached(i)
    /\ value' = [value EXCEPT ![i] = v]
    /\ UNCHANGED <<seqs, call>>

Change(l, i, name, s) ==
    /\ seqs' = [seqs EXCEPT ![l] = s]
    /\ call' = <<name, i>>
    /\ UNCHANGED value

Insert(l, i) ==
    /\ Detached(i)
    /\ \/ Change(l, i, "insert_end", rtos_list_insert_end(seqs[l], i))
       \/ Change(l, i, "insert_sorted", rtos_list_insert_sorted(seqs[l], i, value))
       \/ Change(l, i, "insert_reversed_sorted",
                 rtos_list_insert_reversed_sorted(seqs[l], i, value))

RemoveItem(l, i) == In(seqs[l], i) /\ Change(l, i, "remove", rtos_list_remove(seqs[l], i))

Next ==
    \E i \in Items :
        \/ \E v \in Values : SetValue(i, v)
        \/ \E l \in ListIds : Insert(l, i) \/ RemoveItem(l, i)

Spec == Init /\ [][Next]_listVars
=============================================================================
