---------------------------- MODULE MCLinkedList ----------------------------
(* Four items and two lists; items are interchangeable, and so are lists. *)
EXTENDS LinkedList, TLC

ItemSymmetry == Permutations(Items) \cup Permutations(ListIds)
=============================================================================
