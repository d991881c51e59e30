--------------------------- MODULE AbstractAllocator ---------------------------
(***************************************************************************)
(* What both allocators of the kernel promise, memory_alloc/memory_free    *)
(* (kernel/memory.c) and page_alloc/page_free (kernel/page/phypage.c):     *)
(* every block handed out is a run of units nobody else owns, and all of   *)
(* it is free again once its owner has given it back.                      *)
(***************************************************************************)
EXTENDS Integers

CONSTANTS Space,      \* the bytes of the heap, the pages of the zone
          Sizes       \* the sizes callers ask for

VARIABLES free,       \* the units nobody owns
          owned       \* the blocks callers own

vars == <<free, owned>>

Run(start, size) == start..(start + size - 1)

Init == free = Space /\ owned = {}

Alloc(n) ==
  \E a \in free :
    /\ Run(a, n) \subseteq free
    /\ free' = free \ Run(a, n)
    /\ owned' = owned \cup {[start |-> a, size |-> n]}

Free(b) ==
  /\ free' = free \cup Run(b.start, b.size)
  /\ owned' = owned \ {b}

Next == (\E n \in Sizes : Alloc(n)) \/ (\E b \in owned : Free(b))

Spec == Init /\ [][Next]_vars
=============================================================================
