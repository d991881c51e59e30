------------------------------ MODULE KernelHeap ------------------------------
(***************************************************************************)
(* The allocator of kernel memory, kernel/memory.c.                        *)
(*                                                                         *)
(* A fixed table of FreeItem slots describes the heap: each slot in use is *)
(* either on free_list, a free block, or on used_list, an allocated one; a *)
(* slot whose start is 0 is unused.  memory_alloc carves a block off the   *)
(* first free block that is large enough and records it in an unused slot; *)
(* memory_free moves the record back to free_list and runs memory_merger,  *)
(* whose loop is one step per iteration here (cursor is its variable       *)
(* block).  Nothing interrupts these functions: the kernel runs with       *)
(* interrupts disabled, so an operation begins only when none is running.  *)
(*                                                                         *)
(* The lists are sequences of slots, head first; module LinkedList models  *)
(* the pointers they are made of.                                          *)
(***************************************************************************)
EXTENDS Integers, FiniteSets, Sequences, SequencesExt

CONSTANTS NItems,     \* length of free_items (256)
          Regions,    \* the blocks memory_init links, in the order it links them
          Sizes,      \* the sizes callers ask for
          HeadSize,   \* what the build makes of size when a list head is read as an item
          HeadStarts, \* what it may make of start, the word behind the head
          FreesNull   \* callers free NULL

Block == [start : Nat, size : Nat]

ASSUME NItemsAssumption == NItems \in Nat
ASSUME RegionsAssumption ==
  /\ Regions \in Seq(Block)
  /\ Len(Regions) <= NItems
  /\ \A r \in DOMAIN Regions : Regions[r].start > 0 /\ Regions[r].size > 0
  /\ \A r, s \in DOMAIN Regions :
       r # s => \/ Regions[r].start + Regions[r].size <= Regions[s].start
                \/ Regions[s].start + Regions[s].size <= Regions[r].start
ASSUME SizesAssumption == Sizes \subseteq Nat /\ FreesNull \in BOOLEAN
ASSUME HeadsAssumption == HeadSize \in Nat /\ HeadStarts \in (SUBSET Nat) \ {{}}

VARIABLES items,      \* free_items
          free_list,  \* slots of the free blocks
          used_list,  \* slots of the allocated blocks
          cursor,     \* place of memory_merger's block on free_list, 0 when it is not running
          head_taken, \* a list head has been treated as an item: what follows is undefined
          held        \* ghost: the blocks callers own, with the slot that records each

vars == <<items, free_list, used_list, cursor, head_taken, held>>

Slots == 1..NItems
Unrecorded == 0
Unused == [start |-> 0, size |-> 0]
Held == [start : Nat, size : Nat, item : Slots \cup {Unrecorded}]

End(b) == b.start + b.size
Units(b) == b.start..(End(b) - 1)
FreeUnits == UNION {Units(items[free_list[k]]) : k \in DOMAIN free_list}
HeapUnits == UNION {Units(Regions[r]) : r \in DOMAIN Regions}

-----------------------------------------------------------------------------

Init ==
  /\ items = [i \in Slots |-> IF i <= Len(Regions) THEN Regions[i] ELSE Unused]
  /\ free_list = [i \in 1..Len(Regions) |-> i]
  /\ used_list = <<>>
  /\ cursor = 0
  /\ head_taken = FALSE
  /\ held = {}

\* No function of the allocator is running, and its lists are still lists.
Ready == cursor = 0 /\ ~head_taken

\* A faulty FirstFit that takes only larger blocks.
FirstFitStrict(n) ==
  {k \in DOMAIN free_list :
     /\ items[free_list[k]].size > n
     /\ \A j \in 1..(k - 1) : items[free_list[j]].size <= n}

\* The place of the first free block that can hold n bytes, if there is one.
FirstFit(n) ==
  {k \in DOMAIN free_list :
     /\ items[free_list[k]].size >= n
     /\ \A j \in 1..(k - 1) : items[free_list[j]].size < n}

\* The lowest slot with start 0, if there is one.
FirstUnused ==
  {i \in Slots : items[i].start = 0 /\ \A j \in 1..(i - 1) : items[j].start # 0}

\* The place of the first allocated block that starts at p, if there is one.
Recorded(p) ==
  {k \in DOMAIN used_list :
     /\ items[used_list[k]].start = p
     /\ \A j \in 1..(k - 1) : items[used_list[j]].start # p}

\* Faulty variants of Carve: the start stays, a byte too many is cut off.
CarveKeepsStart(b, n) ==
  IF b.size = n THEN Unused ELSE [start |-> b.start, size |-> b.size - n]
CarveOneTooMany(b, n) ==
  IF b.size = n THEN Unused ELSE [start |-> b.start + n, size |-> b.size - n - 1]

\* What is left of the free block b when n bytes are cut off its front.
Carve(b, n) == IF b.size = n THEN Unused ELSE [start |-> b.start + n, size |-> b.size - n]

\* free_list after n bytes are cut off its k-th block.
ListAfterCarve(k, n) ==
  IF items[free_list[k]].size = n THEN RemoveAt(free_list, k) ELSE free_list

\* memory_alloc with a slot to record the block in.
AllocRecorded(n) ==
  /\ Ready
  /\ \E k \in FirstFit(n), u \in FirstUnused :
       LET block == free_list[k]
           start == items[block].start
       IN  /\ items' = [items EXCEPT ![u] = [start |-> start, size |-> n],
                                     ![block] = Carve(@, n)]
           /\ used_list' = Append(used_list, u)
           /\ free_list' = ListAfterCarve(k, n)
           /\ held' = held \cup {[start |-> start, size |-> n, item |-> u]}
  /\ UNCHANGED <<cursor, head_taken>>

\* memory_alloc when all slots are in use: the block is handed out all the same.
AllocUnrecorded(n) ==
  /\ Ready
  /\ FirstUnused = {}
  /\ \E k \in FirstFit(n) :
       LET block == free_list[k]
       IN  /\ items' = [items EXCEPT ![block] = Carve(@, n)]
           /\ free_list' = ListAfterCarve(k, n)
           /\ held' = held \cup {[start |-> items[block].start, size |-> n,
                                  item |-> Unrecorded]}
  /\ UNCHANGED <<used_list, cursor, head_taken>>

\* memory_alloc when no free block fits: its loop looks at the list head, too, and
\* takes it for an item when the word read as its size is large enough.  It then
\* cuts the block off whatever variables the linker put behind free_list: nothing
\* the source says holds afterwards, and no further step is modelled.
AllocFromHead(n) ==
  /\ Ready
  /\ FirstFit(n) = {}
  /\ HeadSize >= n
  /\ head_taken' = TRUE
  /\ UNCHANGED <<items, free_list, used_list, cursor, held>>

\* A faulty InsertPlace: the block goes to the end of the list.
InsertPlaceTail(start) == {Len(free_list) + 1}

\* The place on free_list before which memory_free links a block: that of the
\* first block that does not start below it, or the end.
InsertPlace(start) ==
  {k \in 1..(Len(free_list) + 1) :
     /\ \A j \in 1..(k - 1) : items[free_list[j]].start < start
     /\ k <= Len(free_list) => items[free_list[k]].start >= start}

\* memory_free of a recorded block, up to its call of memory_merger.
FreeRecorded(h) ==
  /\ Ready
  /\ \E k \in Recorded(h.start) : \E place \in InsertPlace(h.start) :
       /\ used_list' = RemoveAt(used_list, k)
       /\ free_list' = InsertAt(free_list, place, used_list[k])
  /\ cursor' = 1
  /\ held' = held \ {h}
  /\ UNCHANGED <<items, head_taken>>

\* memory_free of a block no slot records: nothing is found, the block is lost.
FreeUnrecorded(h) ==
  /\ Ready
  /\ \A k \in DOMAIN used_list : items[used_list[k]].start # h.start
  /\ \E s \in HeadStarts : s # h.start
  /\ held' = held \ {h}
  /\ UNCHANGED <<items, free_list, used_list, cursor, head_taken>>

\* What callers pass to memory_free
Pointers == {h.start : h \in held} \cup (IF FreesNull THEN {0} ELSE {})

\* memory_free(p) when no slot records p but the word behind used_list reads p: the loop
\* reaches the list head, takes it for the block to free and moves it into free_list.
FreeFromHead(p) ==
  /\ Ready
  /\ \A k \in DOMAIN used_list : items[used_list[k]].start # p
  /\ p \in HeadStarts
  /\ head_taken' = TRUE
  /\ UNCHANGED <<items, free_list, used_list, cursor, held>>

\* A faulty MergeNext that does not wipe the slot of the absorbed block.
MergeNextKeepsSlot ==
  /\ cursor # 0
  /\ cursor < Len(free_list)
  /\ LET block == free_list[cursor]
         next == free_list[cursor + 1]
     IN  /\ End(items[block]) = items[next].start
         /\ items' = [items EXCEPT ![block].size = @ + items[next].size]
         /\ free_list' = RemoveAt(free_list, cursor + 1)
  /\ UNCHANGED <<used_list, cursor, head_taken, held>>

\* memory_merger, one iteration: block ends where the next one starts.
MergeNext ==
  /\ cursor # 0
  /\ cursor < Len(free_list)
  /\ LET block == free_list[cursor]
         next == free_list[cursor + 1]
     IN  /\ End(items[block]) = items[next].start
         /\ items' = [items EXCEPT ![block].size = @ + items[next].size,
                                   ![next] = Unused]
         /\ free_list' = RemoveAt(free_list, cursor + 1)
  /\ UNCHANGED <<used_list, cursor, head_taken, held>>

\* The start of the item behind memory_merger's block; that of the last is the list head.
NextStarts ==
  IF cursor < Len(free_list) THEN {items[free_list[cursor + 1]].start} ELSE HeadStarts

\* Faulty variants of MergeAdvance: the loop starts over, or runs past the last block.
MergeAdvanceWraps ==
  /\ cursor # 0
  /\ \E s \in NextStarts : End(items[free_list[cursor]]) # s
  /\ cursor' = IF cursor < Len(free_list) THEN cursor + 1 ELSE 1
  /\ UNCHANGED <<items, free_list, used_list, head_taken, held>>
MergeAdvanceRunsOn ==
  /\ cursor # 0
  /\ \E s \in NextStarts : End(items[free_list[cursor]]) # s
  /\ cursor' = cursor + 1
  /\ UNCHANGED <<items, free_list, used_list, head_taken, held>>

\* memory_merger, one iteration: on to the next block, done behind the last one.
MergeAdvance ==
  /\ cursor # 0
  /\ \E s \in NextStarts : End(items[free_list[cursor]]) # s
  /\ cursor' = IF cursor < Len(free_list) THEN cursor + 1 ELSE 0
  /\ UNCHANGED <<items, free_list, used_list, head_taken, held>>

\* memory_merger, one iteration: the last block ends at the number behind free_list, and the
\* list head is merged into it, unlinked and wiped.
MergeHead ==
  /\ cursor # 0
  /\ cursor = Len(free_list)
  /\ End(items[free_list[cursor]]) \in HeadStarts
  /\ head_taken' = TRUE
  /\ cursor' = 0
  /\ UNCHANGED <<items, free_list, used_list, held>>

Next ==
  \/ \E n \in Sizes : AllocRecorded(n) \/ AllocUnrecorded(n) \/ AllocFromHead(n)
  \/ \E h \in held : FreeRecorded(h) \/ FreeUnrecorded(h)
  \/ \E p \in Pointers : FreeFromHead(p)
  \/ MergeNext
  \/ MergeAdvance
  \/ MergeHead

\* The processor goes on executing memory_merger once it has been called.
Fairness == WF_vars(MergeNext \/ MergeAdvance \/ MergeHead)

Spec == Init /\ [][Next]_vars /\ Fairness

-----------------------------------------------------------------------------

\* The shape of the allocator's data; memory_merger's block is always an element of
\* free_list, never its head.
TypeOK ==
  /\ items \in [Slots -> Block]
  /\ free_list \in Seq(Slots)
  /\ used_list \in Seq(Slots)
  /\ cursor \in 0..Len(free_list)
  /\ head_taken \in BOOLEAN
  /\ held \subseteq Held

\* Two blocks share no byte; a block of no bytes shares none with any.
Apart(a, b) == End(a) <= b.start \/ End(b) <= a.start \/ a.size = 0 \/ b.size = 0

\* No byte belongs to two owners: two callers' blocks never overlap, no free
\* block overlaps a caller's, and no two free blocks overlap, whatever the order
\* of the memory_alloc and memory_free calls and also while blocks are merged.
NoOverlap ==
  /\ \A g, h \in held : g # h => Apart(g, h)
  /\ \A h \in held, k \in DOMAIN free_list : Apart(h, items[free_list[k]])
  /\ \A j, k \in DOMAIN free_list :
       j # k => Apart(items[free_list[j]], items[free_list[k]])

\* Once memory_merger is done no free block ends where another one starts.
Coalesced ==
  Ready => \A j, k \in DOMAIN free_list :
             End(items[free_list[j]]) # items[free_list[k]].start

\* memory_alloc answers NULL only when the free memory really has no run of n
\* bytes: fragmentation never hides one from the first-fit search.
NullMeansFull ==
  Ready => \A n \in Sizes :
             FirstFit(n) = {} => \A a \in HeapUnits : ~(a..(a + n - 1) \subseteq FreeUnits)

\* A call of memory_free returns: memory_merger always gets to the end of the list.
FreeReturns == cursor # 0 ~> cursor = 0

\* To its callers the allocator is AbstractAllocator: each memory_alloc takes one run of
\* free memory, each memory_free gives exactly that back, so no byte is ever lost and no
\* record missing while there are slots; merging is not seen.
Abstract == INSTANCE AbstractAllocator
              WITH Space <- HeapUnits,
                   free <- FreeUnits,
                   owned <- {[start |-> h.start, size |-> h.size] : h \in held}
RefinesAllocator == Abstract!Spec

-----------------------------------------------------------------------------
(***************************************************************************)
(* The inductive invariant behind NoOverlap (proved in KernelHeapProof),   *)
(* for callers that ask for at least one byte.                             *)
(***************************************************************************)

\* No request is small enough for the head of free_list.
FairCallers == \A n \in Sizes : n > HeadSize

FreeSlots == Range(free_list)
UsedSlots == Range(used_list)

\* A slot is on one list at one place, or on none and zero.
SlotsInv ==
  /\ IsInjective(free_list)
  /\ IsInjective(used_list)
  /\ FreeSlots \cap UsedSlots = {}
  /\ \A i \in FreeSlots \cup UsedSlots : items[i].start > 0 /\ items[i].size > 0
  /\ \A i \in Slots \ (FreeSlots \cup UsedSlots) : items[i] = Unused

\* Free blocks and callers' blocks are pairwise apart.
BlocksInv ==
  /\ \A i, j \in FreeSlots : i # j => Apart(items[i], items[j])
  /\ \A h \in held, i \in FreeSlots : Apart(h, items[i])
  /\ \A g, h \in held : g # h => Apart(g, h)

\* used_list records callers' blocks only, and each record is right: memory_free
\* never finds the record of another block under the address it is given.
RecordsInv ==
  /\ \A h \in held : h.start > 0 /\ h.size > 0
  /\ \A h \in held : h.item # Unrecorded =>
       h.item \in UsedSlots /\ items[h.item] = [start |-> h.start, size |-> h.size]
  /\ \A u \in UsedSlots : \E h \in held : h.item = u

\* What makes NoOverlap hold of memory_alloc, memory_free and memory_merger: slots,
\* blocks and records agree at every step.
HeapInv == SlotsInv /\ BlocksInv /\ RecordsInv
=============================================================================
