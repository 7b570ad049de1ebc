------------------------------- MODULE Lists -------------------------------
(***************************************************************************)
(* The intrusive lists of src/src/rtos/list.c, seen from their callers: a  *)
(* list is the sequence of the owners of its items, from sentinel.next to  *)
(* sentinel.prev, and val[t] is the value field of t's item.  The          *)
(* container field of an item is kept by the module that owns the lists.   *)
(***************************************************************************)
EXTENDS Integers, SequencesExt

(* The index of the item owned by t. *)
IndexOf(s, t) == CHOOSE i \in DOMAIN s : s[i] = t

rtos_list_insert_end(s, t) == Append(s, t)

rtos_list_remove(s, t) == RemoveAt(s, IndexOf(s, t))

(* Where the forward scan of rtos_list_insert_sorted stops: at the first   *)
(* item whose value exceeds v, or at the sentinel.                         *)
SortedStop(s, val, v) ==
    CHOOSE i \in 1 .. Len(s) + 1 :
        /\ \A j \in 1 .. i - 1 : val[s[j]] <= v
        /\ i <= Len(s) => val[s[i]] > v

(* Fault: the item goes to the end. *)
InsertSorted_AtEnd(s, t, val) == Append(s, t)

rtos_list_insert_sorted(s, t, val) == InsertAt(s, SortedStop(s, val, val[t]), t)

(* Fault: the backward scan also passes items of equal value. *)
ReversedStop_BeforeEqual(s, val, v) ==
    CHOOSE i \in 0 .. Len(s) :
        /\ \A j \in i + 1 .. Len(s) : v >= val[s[j]]
        /\ i > 0 => val[s[i]] > v

(* Where the backward scan of rtos_list_insert_reversed_sorted stops: at   *)
(* the last item whose value is at least v, or at the sentinel (0).        *)
ReversedStop(s, val, v) ==
    CHOOSE i \in 0 .. Len(s) :
        /\ \A j \in i + 1 .. Len(s) : v > val[s[j]]
        /\ i > 0 => val[s[i]] >= v

(* Fault: the item goes to the end. *)
InsertReversed_AtEnd(s, t, val) == Append(s, t)

rtos_list_insert_reversed_sorted(s, t, val) ==
    InsertAt(s, ReversedStop(s, val, val[t]) + 1, t)

-----------------------------------------------------------------------------
(* What the properties say of a list: membership, uniqueness and order.    *)
In(s, t) == \E i \in DOMAIN s : s[i] = t

NoDuplicates(s) == \A i, j \in DOMAIN s : s[i] = s[j] => i = j

SortedBy(s, val) == \A i, j \in DOMAIN s : i <= j => val[s[i]] <= val[s[j]]

Before(s, t, u) == \E i, j \in DOMAIN s : i < j /\ s[i] = t /\ s[j] = u
=============================================================================
