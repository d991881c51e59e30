------------------------------ MODULE LinkedList ------------------------------
(***************************************************************************)
(* The doubly linked lists of lib/list.c, which every other part of the    *)
(* kernel keeps its state in: rings of pointers through a ListHead and the *)
(* ListNodes linked into it.                                               *)
(*                                                                         *)
(* A head is all zero until list_init, a node holds anything until it is   *)
(* linked, and unlinking leaves a node's own pointers as they were.  The   *)
(* functions know nothing of which list a node is on; their callers do,    *)
(* and on records it: they link a node that is on no list, unlink one that *)
(* is on a list, and insert behind a head or a node of that head's list.   *)
(***************************************************************************)
EXTENDS Integers, FiniteSets, Sequences

CONSTANTS Heads,   \* the ListHeads
          Nodes,   \* the ListNodes
          NULL

ASSUME CellsAssumption == Heads \cap Nodes = {} /\ NULL \notin Heads \cup Nodes

VARIABLES prev,    \* the prev pointer of each head and node
          next,    \* the next pointer of each head and node
          ready,   \* ghost: the heads list_init has been called for
          on       \* ghost: the head of the list each node is on, or NULL

vars == <<prev, next, ready, on>>

Cells == Heads \cup Nodes
Pointers == Cells \cup {NULL}

Members(h) == {h} \cup {x \in Nodes : on[x] = h}
Unlinked == {x \in Nodes : on[x] = NULL}

-----------------------------------------------------------------------------

Init ==
  /\ \E junk \in Pointers :
       /\ prev = [c \in Cells |-> IF c \in Heads THEN NULL ELSE junk]
       /\ next = [c \in Cells |-> IF c \in Heads THEN NULL ELSE junk]
  /\ ready = {}
  /\ on = [x \in Nodes |-> NULL]

ListInit(h) ==
  /\ h \notin ready
  /\ prev' = [prev EXCEPT ![h] = h]
  /\ next' = [next EXCEPT ![h] = h]
  /\ ready' = ready \cup {h}
  /\ UNCHANGED on

\* Faulty variants of LinkBehind that forget one of the four pointers.
LinkBehindNoPrev(c, x) ==
  /\ next' = [next EXCEPT ![x] = next[c], ![c] = x]
  /\ prev' = [prev EXCEPT ![x] = c]
LinkBehindNoNext(c, x) ==
  /\ next' = [next EXCEPT ![c] = x]
  /\ prev' = [prev EXCEPT ![next[c]] = x, ![x] = c]

\* The four assignments of list_add, list_addtail and list_insert: node x between
\* cell c and the cell behind it.
LinkBehind(c, x) ==
  /\ next' = [next EXCEPT ![x] = next[c], ![c] = x]
  /\ prev' = [prev EXCEPT ![next[c]] = x, ![x] = c]

\* list_add
ListAdd(h, x) ==
  /\ next[h] # NULL
  /\ LinkBehind(h, x)
  /\ on' = [on EXCEPT ![x] = h]
  /\ UNCHANGED ready

\* list_addtail
ListAddTail(h, x) ==
  /\ prev[h] # NULL
  /\ LinkBehind(prev[h], x)
  /\ on' = [on EXCEPT ![x] = h]
  /\ UNCHANGED ready

\* list_insert: x behind old_node, which is on list h or its head
ListInsert(h, x, old_node) ==
  /\ next[old_node] # NULL
  /\ LinkBehind(old_node, x)
  /\ on' = [on EXCEPT ![x] = h]
  /\ UNCHANGED ready

\* A faulty ListUnlink that leaves the pointer of the node behind.
ListUnlinkOneWay(x) ==
  /\ next[x] # NULL /\ prev[x] # NULL
  /\ next' = [next EXCEPT ![prev[x]] = next[x]]
  /\ on' = [on EXCEPT ![x] = NULL]
  /\ UNCHANGED <<prev, ready>>

\* list_unlink; the node's own pointers stay
ListUnlink(x) ==
  /\ next[x] # NULL /\ prev[x] # NULL
  /\ next' = [next EXCEPT ![prev[x]] = next[x]]
  /\ prev' = [prev EXCEPT ![next[x]] = prev[x]]
  /\ on' = [on EXCEPT ![x] = NULL]
  /\ UNCHANGED ready

\* The cell n steps from head h in the direction of the pointers p; NULL from the
\* step on that runs into NULL or, after the first, comes from the head again.
Steps(h, p, n) ==
  LET step[i \in 0..n] ==
        IF i = 0 THEN h
        ELSE IF step[i - 1] = NULL \/ (step[i - 1] = h /\ i > 1) THEN NULL
        ELSE p[step[i - 1]]
  IN  step[n]

\* A faulty ListSearch that gives the head for the place behind the last node.
ListSearchHead(h, index) == Steps(h, next, index + 1)

\* list_search
ListSearch(h, index) ==
  LET cell == Steps(h, next, index + 1) IN IF cell = h THEN NULL ELSE cell

\* list_delete: the node list_search finds is one of list h (SearchIsRight).
ListDelete(h, index) ==
  \E x \in Members(h) \ {h} : x = ListSearch(h, index) /\ ListUnlink(x)

\* list_empty
ListEmpty(h) == next[h] = NULL \/ prev[h] = NULL \/ next[h] = h

Next ==
  \/ \E h \in Heads :
       \/ ListInit(h)
       \/ \E x \in Unlinked :
            \/ ListAdd(h, x)
            \/ ListAddTail(h, x)
            \/ \E old_node \in Members(h) : ListInsert(h, x, old_node)
       \/ \E index \in 0..Cardinality(Nodes) : ListDelete(h, index)
  \/ \E x \in Nodes \ Unlinked : ListUnlink(x)

Spec == Init /\ [][Next]_vars

-----------------------------------------------------------------------------

\* A pointer leads to a head, a node or nowhere, a node is on one list or none.
TypeOK ==
  /\ prev \in [Cells -> Pointers]
  /\ next \in [Cells -> Pointers]
  /\ ready \subseteq Heads
  /\ on \in [Nodes -> Heads \cup {NULL}]

\* The pointers of a list lead only to its own head and nodes, and prev and next
\* undo each other: what two lists do to their neighbours never mixes them up.
RingInv ==
  \A h \in ready : \A c \in Members(h) :
    /\ next[c] \in Members(h) /\ prev[next[c]] = c
    /\ prev[c] \in Members(h) /\ next[prev[c]] = c

\* Nodes are linked only into lists that list_init has set up: the others' heads are
\* still zero, which is what list_add and the others test.
HeadsInv ==
  /\ \A x \in Nodes : on[x] # NULL => on[x] \in ready
  /\ \A h \in Heads \ ready : next[h] = NULL /\ prev[h] = NULL

\* Both, and that all pointers have their type.
ListInv == TypeOK /\ RingInv /\ HeadsInv

Length(h) == Cardinality(Members(h)) - 1

\* From the head, either way, a walk passes every node of the list once and is
\* back at the head: no node is cut off or in a ring of its own.
RingCloses ==
  \A h \in ready :
    /\ Steps(h, next, Length(h) + 1) = h /\ Steps(h, prev, Length(h) + 1) = h
    /\ Members(h) = {h} \cup {Steps(h, next, i) : i \in 1..Length(h)}
    /\ \A i \in 1..Length(h) : Steps(h, next, i) = Steps(h, prev, Length(h) + 1 - i)

\* list_search finds a node of the list at every place up to the last one, a
\* different one at each, and NULL behind it; list_empty tells whether there is any, of
\* heads that were never initialised, too.
SearchIsRight ==
  \A h \in Heads :
    /\ ListEmpty(h) <=> Length(h) = 0
    /\ {ListSearch(h, i) : i \in 0..(Length(h) - 1)} = Members(h) \ {h}
    /\ \A i \in Length(h)..Cardinality(Nodes) : ListSearch(h, i) = NULL

Abstract == INSTANCE AbstractList
              WITH lists <- [h \in Heads |-> [i \in 1..Length(h) |-> Steps(h, next, i)]]

\* Whatever is done to it, a list is a sequence of nodes and no other list changes.
RefinesList == Abstract!Spec
=============================================================================
