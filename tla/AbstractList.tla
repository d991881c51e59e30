----------------------------- MODULE AbstractList -----------------------------
(***************************************************************************)
(* What the users of lib/list.c rely on: each head is a sequence of nodes, *)
(* and a node is on one list at most.                                      *)
(***************************************************************************)
EXTENDS Integers, SequencesExt

CONSTANTS Heads, Nodes

VARIABLE lists

Init == lists = [h \in Heads |-> <<>>]

Linked == UNION {Range(lists[h]) : h \in Heads}

\* A node that is on no list is linked at some place of list h.
Insert(h, x, k) == lists' = [lists EXCEPT ![h] = InsertAt(@, k, x)]

\* The k-th node of list h is unlinked.
Delete(h, k) == lists' = [lists EXCEPT ![h] = RemoveAt(@, k)]

Next ==
  \E h \in Heads :
    \/ \E x \in Nodes \ Linked, k \in 1..(Len(lists[h]) + 1) : Insert(h, x, k)
    \/ \E k \in 1..Len(lists[h]) : Delete(h, k)

Spec == Init /\ [][Next]_lists
=============================================================================
