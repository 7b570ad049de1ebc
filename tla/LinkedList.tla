----------------------------- MODULE LinkedList -----------------------------
(***************************************************************************)
(* The intrusive lists of src/src/rtos/list.c, pointer by pointer: rings   *)
(* of items through a sentinel, with a count and back pointers.  A         *)
(* list is named like its sentinel.  The state is one record, a C function *)
(* an operator on it.  The callers mask interrupts, insert only items that *)
(* are in no list and remove only items that are in one.                   *)
(***************************************************************************)
EXTENDS Integers, Sequences, FiniteSets

CONSTANTS
    NULL,
    Items,    \* the list items of the control blocks
    ListIds,  \* the lists, and their sentinels
    Values    \* the values callers give to items

ASSUME LinkedListAssumption ==
    /\ IsFiniteSet(Items) /\ IsFiniteSet(ListIds)
    /\ Items \cap ListIds = {} /\ NULL \notin Items \cup ListIds
    /\ Values \subseteq Nat /\ 0 \in Values

VARIABLES
    heap,  \* the fields next, prev, container and value of the nodes, the
           \* count of the lists, and whether an ARTOS_ASSERT has failed
    call   \* history: the function called last and its item

vars == <<heap, call>>

Nodes == Items \cup ListIds

(* rtos_init_list for every list and rtos_init_list_item for every item. *)
Init ==
    /\ heap = [next |-> [n \in Nodes |-> IF n \in ListIds THEN n ELSE NULL],
               prev |-> [n \in Nodes |-> IF n \in ListIds THEN n ELSE NULL],
               container |-> [n \in Nodes |-> IF n \in ListIds THEN n ELSE NULL],
               value |-> [n \in Nodes |-> 0],
               count |-> [l \in ListIds |-> 0],
               failed |-> FALSE]
    /\ call = <<>>

-----------------------------------------------------------------------------
Checked(h, condition, after) == IF condition THEN after ELSE [h EXCEPT !.failed = TRUE]

(* Fault: the old successor keeps its back pointer. *)
Append_NoBackLink(h, dst, item) ==
    [h EXCEPT !.next = [@ EXCEPT ![dst] = item, ![item] = h.next[dst]],
              !.prev = [@ EXCEPT ![item] = dst],
              !.container[item] = h.container[dst],
              !.count[h.container[dst]] = @ + 1]

(* item goes after dst. *)
rtos_list_append(h, dst, item) ==
    Checked(h, /\ h.container[item] = NULL /\ h.container[dst] # NULL
              /\ h.next[dst] # NULL /\ h.prev[h.next[dst]] = dst,
           [h EXCEPT !.next = [@ EXCEPT ![dst] = item, ![item] = h.next[dst]],
                     !.prev = [@ EXCEPT ![item] = dst, ![h.next[dst]] = item],
                     !.container[item] = h.container[dst],
                     !.count[h.container[dst]] = @ + 1])

(* item goes before dst. *)
rtos_list_prepend(h, dst, item) ==
    Checked(h, /\ h.container[item] = NULL /\ h.container[dst] # NULL
              /\ h.prev[dst] # NULL /\ h.next[h.prev[dst]] = dst,
           [h EXCEPT !.prev = [@ EXCEPT ![dst] = item, ![item] = h.prev[dst]],
                     !.next = [@ EXCEPT ![item] = dst, ![h.prev[dst]] = item],
                     !.container[item] = h.container[dst],
                     !.count[h.container[dst]] = @ + 1])

(* Fault: the count is not updated. *)
Remove_KeepsCount(h, item) ==
    [h EXCEPT !.next = [@ EXCEPT ![h.prev[item]] = h.next[item], ![item] = NULL],
              !.prev = [@ EXCEPT ![h.next[item]] = h.prev[item], ![item] = NULL],
              !.container[item] = NULL]

rtos_list_remove(h, item) ==
    Checked(h, /\ h.container[item] # NULL /\ h.next[item] # NULL /\ h.prev[item] # NULL
              /\ h.prev[h.next[item]] = item /\ h.next[h.prev[item]] = item
              /\ h.count[h.container[item]] > 0 /\ item \notin ListIds,
           [h EXCEPT !.next = [@ EXCEPT ![h.prev[item]] = h.next[item], ![item] = NULL],
                     !.prev = [@ EXCEPT ![h.next[item]] = h.prev[item], ![item] = NULL],
                     !.count[h.container[item]] = @ - 1,
                     !.container[item] = NULL])

rtos_list_insert_end(h, l, item) == rtos_list_prepend(h, l, item)

(* The i-th node after the sentinel of l along the links. *)
Walk(link, l) ==
    LET node[i \in 0 .. Cardinality(Nodes)] ==
            IF i = 0 THEN l ELSE IF node[i - 1] = NULL THEN NULL ELSE link[node[i - 1]]
    IN  node

(* Where a scan along the links stops: at the first node that is the       *)
(* sentinel or that the loop condition does not pass.                      *)
ScanStop(link, l, passed) ==
    LET node == Walk(link, l)
        stops(i) == node[i] = l \/ node[i] \notin passed
    IN  node[CHOOSE i \in 1 .. Cardinality(Nodes) :
                 stops(i) /\ \A j \in 1 .. i - 1 : ~stops(j)]

(* Fault: equal values are not passed. *)
InsertSorted_BeforeEqual(h, l, item) ==
    rtos_list_prepend(h, ScanStop(h.next, l, {n \in Items : h.value[n] < h.value[item]}), item)

rtos_list_insert_sorted(h, l, item) ==
    rtos_list_prepend(h, ScanStop(h.next, l, {n \in Items : h.value[n] <= h.value[item]}), item)

rtos_list_insert_reversed_sorted(h, l, item) ==
    rtos_list_append(h, ScanStop(h.prev, l, {n \in Items : h.value[item] > h.value[n]}), item)

-----------------------------------------------------------------------------
(* A caller sets the value of an item it is about to insert. *)
SetValue(i, v) ==
    /\ ~heap.failed
    /\ heap.container[i] = NULL
    /\ heap' = [heap EXCEPT !.value[i] = v]
    /\ UNCHANGED call

Insert(l, i) ==
    /\ ~heap.failed
    /\ heap.container[i] = NULL
    /\ \/ heap' = rtos_list_insert_end(heap, l, i) /\ call' = <<"insert_end", i>>
       \/ heap' = rtos_list_insert_sorted(heap, l, i) /\ call' = <<"insert_sorted", i>>
       \/ /\ heap' = rtos_list_insert_reversed_sorted(heap, l, i)
          /\ call' = <<"insert_reversed_sorted", i>>

RemoveItem(i) ==
    /\ ~heap.failed
    /\ heap.container[i] # NULL
    /\ heap' = rtos_list_remove(heap, i)
    /\ call' = <<"remove", i>>

Next ==
    \E i \in Items :
        \/ \E v \in Values : SetValue(i, v)
        \/ \E l \in ListIds : Insert(l, i)
        \/ RemoveItem(i)

Spec == Init /\ [][Next]_vars
-----------------------------------------------------------------------------
(* The lists are rings: the links of a node in a list lead to nodes of     *)
(* that list and back, both directions visit its items and return to the   *)
(* sentinel after exactly count steps, an item outside has no links, and   *)
(* so no assertion of list.c on its neighbours fails.                      *)
RingsIntact ==
    /\ ~heap.failed
    /\ \A n \in Nodes :
          IF heap.container[n] = NULL
          THEN heap.next[n] = NULL /\ heap.prev[n] = NULL
          ELSE /\ heap.prev[heap.next[n]] = n /\ heap.next[heap.prev[n]] = n
               /\ heap.container[heap.next[n]] = heap.container[n]
    /\ \A l \in ListIds :
          LET members == {i \in Items : heap.container[i] = l}
          IN  /\ heap.count[l] = Cardinality(members)
              /\ {Walk(heap.next, l)[j] : j \in 1 .. heap.count[l]} = members

(* The linked lists behave as the sequences of items the rest of the       *)
(* kernel is modelled with: each insertion puts the item where the         *)
(* operator of module Lists does, equal values included.                   *)
Forward(l) == [j \in 1 .. heap.count[l] |-> Walk(heap.next, l)[j]]

Sequence == INSTANCE AbstractLists WITH
    seqs <- [l \in ListIds |-> Forward(l)],
    value <- [i \in Items |-> heap.value[i]]
ListsAreSequences == Sequence!Spec
=============================================================================
