--------------------------- MODULE KernelHeapProof ---------------------------
(***************************************************************************)
(* Proofs about the allocator of kernel/memory.c, for every table size,    *)
(* heap layout and set of request sizes, as long as callers ask for at     *)
(* least one byte: no two blocks overlap; with one region, free blocks are *)
(* merged completely and memory_alloc fails only for want of memory; with  *)
(* a slot for each record it is the abstract allocator; memory_merger gets *)
(* nearer to its end with every iteration; and the list heads stay heads,  *)
(* if what lies behind them is no address of the heap.                     *)
(*                                                                         *)
(* NoOverlap is a part of HeapInv.  It is not inductive alone: memory_free *)
(* finds the block to free by its address, so what it links into free_list *)
(* is the caller's block only because every record on used_list is that of *)
(* a block somebody holds and those do not overlap (RecordsInv); and       *)
(* memory_merger and memory_alloc wipe and reuse slots safely only because *)
(* a slot is on one list at one place and is zero otherwise (SlotsInv).    *)
(***************************************************************************)
EXTENDS KernelHeap, ListLemmas, WellFoundedInduction, TLAPS

\* The table memory_init sets up satisfies the invariant.
LEMMA InitInv == Init => TypeOK /\ HeapInv
<1> SUFFICES ASSUME Init PROVE TypeOK /\ HeapInv
  OBVIOUS
<1> USE NItemsAssumption, RegionsAssumption
<1>1. Len(Regions) \in Nat /\ Len(Regions) <= NItems
      /\ \A r \in 1..Len(Regions) :
           /\ Regions[r] \in Block
           /\ Regions[r].start > 0 /\ Regions[r].size > 0
  BY LenProperties, ElementOfSeq
<1>2. DOMAIN Regions = 1..Len(Regions)
  BY LenProperties
<1>3. /\ free_list \in Seq(Slots)
      /\ DOMAIN free_list = 1..Len(Regions)
      /\ Len(free_list) = Len(Regions)
      /\ \A i \in 1..Len(Regions) : free_list[i] = i
  BY <1>1 DEF Init, Slots
<1>4. IsInjective(free_list) /\ FreeSlots = 1..Len(Regions)
  BY <1>3 DEF IsInjective, FreeSlots, Range
<1>5. IsInjective(used_list) /\ UsedSlots = {}
  BY DEF Init, IsInjective, UsedSlots, Range
<1>6. TypeOK
  <2>1. items \in [Slots -> Block]
    <3>1. Unused \in Block
      BY DEF Unused, Block
    <3>2. \A i \in Slots : i <= Len(Regions) => Regions[i] \in Block
      BY <1>1 DEF Slots
    <3> QED BY <3>1, <3>2 DEF Init
  <2>2. used_list \in Seq(Slots) /\ cursor \in 0..Len(free_list) /\ held \subseteq Held
    BY <1>1, <1>3 DEF Init
  <2> QED BY <1>3, <2>1, <2>2 DEF Init, TypeOK
<1>7. \A i \in 1..Len(Regions) : items[i] = Regions[i]
  BY <1>1 DEF Init, Slots
<1>8. SlotsInv
  BY <1>1, <1>4, <1>5, <1>7 DEF SlotsInv, Init, Slots
<1>9. BlocksInv
  BY <1>2, <1>4, <1>7 DEF BlocksInv, Init, Apart, End
<1>10. RecordsInv
  BY <1>5 DEF RecordsInv, Init
<1> QED BY <1>6, <1>8, <1>9, <1>10 DEF HeapInv

-----------------------------------------------------------------------------
(***************************************************************************)
(* Facts about a state that satisfies the invariant.                       *)
(***************************************************************************)

\* The places, slots and neighbours the functions of memory.c work on are of the
\* expected type.
LEMMA ListTypes ==
  ASSUME TypeOK
  PROVE  /\ Len(free_list) \in Nat /\ DOMAIN free_list = 1..Len(free_list)
         /\ Len(used_list) \in Nat /\ DOMAIN used_list = 1..Len(used_list)
         /\ \A k \in DOMAIN free_list : free_list[k] \in FreeSlots
         /\ \A k \in DOMAIN used_list : used_list[k] \in UsedSlots
         /\ FreeSlots \subseteq Slots /\ UsedSlots \subseteq Slots
         /\ \A i \in FreeSlots : \E k \in DOMAIN free_list : i = free_list[k]
         /\ \A i \in UsedSlots : \E k \in DOMAIN used_list : i = used_list[k]
         /\ \A i \in Slots : items[i] \in Block
         /\ Slots \subseteq Nat \ {0}
<1>1. free_list \in Seq(Slots) /\ used_list \in Seq(Slots) /\ items \in [Slots -> Block]
  BY DEF TypeOK
<1>2. /\ Len(free_list) \in Nat /\ DOMAIN free_list = 1..Len(free_list)
      /\ Len(used_list) \in Nat /\ DOMAIN used_list = 1..Len(used_list)
  BY <1>1, LenProperties
<1>3. /\ \A k \in DOMAIN free_list : free_list[k] \in Slots
      /\ \A k \in DOMAIN used_list : used_list[k] \in Slots
  BY <1>1, <1>2, ElementOfSeq
<1>4. Slots \subseteq Nat \ {0}
  BY DEF Slots
<1> QED BY <1>1, <1>2, <1>3, <1>4 DEF FreeSlots, UsedSlots, Range

\* What memory_alloc leaves of free_list once it has cut n bytes off block k.
LEMMA CarveList ==
  ASSUME TypeOK, SlotsInv, NEW n \in Nat, NEW k \in DOMAIN free_list,
         free_list' = ListAfterCarve(k, n)
  PROVE  /\ free_list' \in Seq(Slots)
         /\ IsInjective(free_list')
         /\ FreeSlots' = IF items[free_list[k]].size = n
                         THEN FreeSlots \ {free_list[k]} ELSE FreeSlots
<1>1. free_list \in Seq(Slots) /\ k \in 1..Len(free_list) /\ IsInjective(free_list)
  BY ListTypes DEF TypeOK, SlotsInv
<1>2. CASE items[free_list[k]].size = n
  <2>1. free_list' = RemoveAt(free_list, k)
    BY <1>2 DEF ListAfterCarve
  <2> QED BY <1>1, <1>2, <2>1, RemoveAtProps, RemoveAtRange DEF FreeSlots
<1>3. CASE items[free_list[k]].size # n
  BY <1>1, <1>3 DEF ListAfterCarve, FreeSlots
<1> QED BY <1>2, <1>3

\* The front of a free block is apart from whatever the block was apart from,
\* and so is what is left of it.
LEMMA CarveApart ==
  ASSUME NEW b \in Block, NEW n \in Nat \ {0}, n <= b.size, b.start > 0
  PROVE  /\ Carve(b, n) \in Block
         /\ b.size = n => Carve(b, n) = Unused
         /\ b.size # n =>
              /\ Carve(b, n).start > 0 /\ Carve(b, n).size > 0
              /\ Carve(b, n) = [start |-> b.start + n, size |-> b.size - n]
  BY DEF Carve, Block, Unused

\* What memory_alloc leaves on free_list is apart from everything the blocks on it
\* were apart from, and from the block it hands out; start > 0 and size > 0 stay.
LEMMA CarveBlocks ==
  ASSUME TypeOK, SlotsInv, BlocksInv,
         NEW n \in Nat \ {0}, NEW k \in DOMAIN free_list, n <= items[free_list[k]].size,
         free_list' = ListAfterCarve(k, n),
         items'[free_list[k]] = Carve(items[free_list[k]], n),
         \A i \in FreeSlots : i # free_list[k] => items'[i] = items[i],
         NEW new \in Held, new.start = items[free_list[k]].start, new.size = n
  PROVE  /\ \A i \in FreeSlots' : items'[i].start > 0 /\ items'[i].size > 0
         /\ \A i, j \in FreeSlots' : i # j => Apart(items'[i], items'[j])
         /\ \A h \in held, i \in FreeSlots' : Apart(h, items'[i])
         /\ \A i \in FreeSlots' : Apart(new, items'[i])
         /\ \A h \in held : Apart(h, new)
<1> DEFINE b == free_list[k]
<1>1. /\ b \in FreeSlots /\ items[b] \in Block
      /\ items[b].start > 0 /\ items[b].size > 0
      /\ \A i \in FreeSlots : items[i] \in Block /\ items[i].start > 0 /\ items[i].size > 0
  BY ListTypes DEF SlotsInv
<1>2. FreeSlots' = IF items[b].size = n THEN FreeSlots \ {b} ELSE FreeSlots
  BY CarveList
<1>3. /\ n <= items[b].size
      /\ items'[b] = Carve(items[b], n)
      /\ \A i \in FreeSlots : i # b => items'[i] = items[i]
      /\ new.start = items[b].start
  OBVIOUS
<1> HIDE DEF b
<1>4. \A i \in FreeSlots' :
        /\ i \in FreeSlots /\ items'[i].start \in Nat /\ items'[i].size \in Nat
        /\ items'[i].start > 0 /\ items'[i].size > 0
        /\ items[i].start <= items'[i].start
        /\ items'[i].start + items'[i].size = items[i].start + items[i].size
  <2> SUFFICES ASSUME NEW i \in FreeSlots'
               PROVE  /\ i \in FreeSlots /\ items'[i].start \in Nat /\ items'[i].size \in Nat
                      /\ items'[i].start > 0 /\ items'[i].size > 0
                      /\ items[i].start <= items'[i].start
                      /\ items'[i].start + items'[i].size = items[i].start + items[i].size
    OBVIOUS
  <2>1. CASE i = b
    <3>1. items[b].size # n /\ i \in FreeSlots
      BY <1>1, <1>2, <2>1
    <3>2. items'[b] = [start |-> items[b].start + n, size |-> items[b].size - n]
      BY <1>3, <3>1 DEF Carve
    <3> QED BY <1>1, <1>3, <2>1, <3>1, <3>2 DEF Block
  <2>2. CASE i # b
    BY <1>1, <1>2, <1>3, <2>2 DEF Block
  <2> QED BY <2>1, <2>2
<1>5. \A i \in FreeSlots' : i = b => items'[b].start = items[b].start + n
  <2>1. b \in FreeSlots' => items[b].size # n
    BY <1>1, <1>2
  <2> QED BY <1>3, <2>1 DEF Carve
<1>6. \A h \in held : h \in Held
  BY DEF TypeOK
<1>7. \A i, j \in FreeSlots' : i # j => Apart(items'[i], items'[j])
  <2>1. \A i, j \in FreeSlots' : i # j => Apart(items[i], items[j])
    BY <1>4 DEF BlocksInv
  <2> QED BY <1>1, <1>4, <2>1 DEF Apart, End, Block
<1>8. \A h \in held, i \in FreeSlots' : Apart(h, items'[i])
  <2>1. \A h \in held, i \in FreeSlots' : Apart(h, items[i])
    BY <1>4 DEF BlocksInv
  <2> QED BY <1>1, <1>4, <1>6, <2>1 DEF Apart, End, Block, Held
<1>9. \A i \in FreeSlots' : Apart(new, items'[i])
  <2> SUFFICES ASSUME NEW i \in FreeSlots' PROVE Apart(new, items'[i])
    OBVIOUS
  <2>1. CASE i = b
    BY <1>1, <1>3, <1>4, <1>5, <2>1 DEF Apart, End, Block, Held
  <2>2. CASE i # b
    <3>1. Apart(items[b], items[i])
      BY <1>1, <1>4, <2>2 DEF BlocksInv
    <3> QED BY <1>1, <1>3, <1>4, <3>1 DEF Apart, End, Block, Held
  <2> QED BY <2>1, <2>2
<1>10. \A h \in held : Apart(h, new)
  <2>1. \A h \in held : Apart(h, items[b])
    BY <1>1 DEF BlocksInv
  <2> QED BY <1>1, <1>3, <1>6, <2>1 DEF Apart, End, Block, Held
<1> QED BY <1>4, <1>7, <1>8, <1>9, <1>10

-----------------------------------------------------------------------------

\* memory_alloc keeps the invariant: the block it hands out is apart from all others and
\* its record is the only one of its address.
LEMMA AllocRecordedInv ==
  ASSUME TypeOK, HeapInv, FairCallers, NEW n \in Sizes, AllocRecorded(n)
  PROVE  TypeOK' /\ HeapInv'
<1>0. n \in Nat \ {0}
  BY SizesAssumption, HeadsAssumption DEF FairCallers
<1>1. PICK k \in FirstFit(n), u \in FirstUnused :
        /\ items' = [items EXCEPT ![u] = [start |-> items[free_list[k]].start, size |-> n],
                                  ![free_list[k]] = Carve(@, n)]
        /\ used_list' = Append(used_list, u)
        /\ free_list' = ListAfterCarve(k, n)
        /\ held' = held \cup {[start |-> items[free_list[k]].start, size |-> n, item |-> u]}
  BY DEF AllocRecorded
<1> DEFINE b == free_list[k]
           new == [start |-> items[b].start, size |-> n, item |-> u]
<1>2. /\ k \in DOMAIN free_list /\ b \in FreeSlots /\ b \in Slots
      /\ items[b] \in Block /\ n <= items[b].size /\ items[b].start > 0
  BY <1>0, ListTypes DEF FirstFit, Block, HeapInv, SlotsInv
<1>3. u \in Slots /\ items[u].start = 0
  BY DEF FirstUnused
<1>4. u \notin FreeSlots /\ u \notin UsedSlots /\ u # b
  BY <1>2, <1>3 DEF HeapInv, SlotsInv
<1>5. /\ items'[u] = [start |-> items[b].start, size |-> n]
      /\ items'[b] = Carve(items[b], n)
      /\ \A i \in Slots : i # u /\ i # b => items'[i] = items[i]
  BY <1>1, <1>2, <1>3, <1>4 DEF TypeOK
<1>6. new \in Held
  BY <1>0, <1>2, <1>3 DEF Held, Block
<1>7. /\ free_list' \in Seq(Slots) /\ IsInjective(free_list')
      /\ FreeSlots' = IF items[b].size = n THEN FreeSlots \ {b} ELSE FreeSlots
  BY <1>0, <1>1, <1>2, CarveList DEF HeapInv
<1>8. /\ used_list' \in Seq(Slots) /\ IsInjective(used_list')
      /\ UsedSlots' = UsedSlots \cup {u}
  <2>1. used_list \in Seq(Slots) /\ IsInjective(used_list) /\ u \notin Range(used_list)
    BY <1>4 DEF TypeOK, HeapInv, SlotsInv, UsedSlots
  <2> QED BY <1>1, <1>3, <2>1, AppendProperties, AppendRange DEF UsedSlots
<1>9. /\ \A i \in FreeSlots' : items'[i].start > 0 /\ items'[i].size > 0
      /\ \A i, j \in FreeSlots' : i # j => Apart(items'[i], items'[j])
      /\ \A h \in held, i \in FreeSlots' : Apart(h, items'[i])
      /\ \A i \in FreeSlots' : Apart(new, items'[i])
      /\ \A h \in held : Apart(h, new)
  <2>1. \A i \in FreeSlots : i # b => items'[i] = items[i]
    BY <1>4, <1>5, ListTypes
  <2>2. new.start = items[b].start /\ new.size = n
    OBVIOUS
  <2> HIDE DEF new
  <2> QED BY <1>0, <1>1, <1>2, <1>5, <1>6, <2>1, <2>2, CarveBlocks DEF HeapInv
<1>10. TypeOK'
  <2>1. items' \in [Slots -> Block]
    <3>1. Carve(items[b], n) \in Block /\ [start |-> items[b].start, size |-> n] \in Block
      BY <1>0, <1>2, CarveApart DEF Block
    <3> QED BY <1>1, <3>1 DEF TypeOK
  <2>2. held' \subseteq Held
    BY <1>1, <1>6 DEF TypeOK
  <2>3. cursor' \in 0..Len(free_list')
    <3>1. cursor' = 0
      BY DEF AllocRecorded, Ready
    <3> QED BY <1>7, <3>1, LenProperties
  <2> QED BY <1>7, <1>8, <2>1, <2>2, <2>3 DEF TypeOK, AllocRecorded
<1>11. SlotsInv'
  <2>1. FreeSlots' \cap UsedSlots' = {}
    BY <1>4, <1>7, <1>8 DEF HeapInv, SlotsInv
  <2>2. \A i \in UsedSlots' : items'[i].start > 0 /\ items'[i].size > 0
    <3>1. \A i \in UsedSlots : i # b /\ i \in Slots
      BY <1>2, ListTypes DEF HeapInv, SlotsInv
    <3> QED BY <1>0, <1>2, <1>4, <1>5, <1>8, <3>1 DEF HeapInv, SlotsInv
  <2>3. \A i \in Slots \ (FreeSlots' \cup UsedSlots') : items'[i] = Unused
    <3> SUFFICES ASSUME NEW i \in Slots \ (FreeSlots' \cup UsedSlots')
                 PROVE  items'[i] = Unused
      OBVIOUS
    <3>1. CASE i = b
      BY <1>2, <1>5, <1>7, <3>1 DEF Carve
    <3>2. CASE i # b
      BY <1>5, <1>7, <1>8, <3>2 DEF HeapInv, SlotsInv
    <3> QED BY <3>1, <3>2
  <2> QED BY <1>7, <1>8, <1>9, <2>1, <2>2, <2>3 DEF SlotsInv
<1>12. BlocksInv'
  <2>1. held' = held \cup {new}
    BY <1>1
  <2>2. \A h \in held : Apart(new, h)
    BY <1>9 DEF Apart
  <2> HIDE DEF new
  <2> QED BY <1>9, <2>1, <2>2 DEF BlocksInv, HeapInv
<1>13. RecordsInv'
  <2>1. held' = held \cup {new}
    BY <1>1
  <2>2. \A h \in held' : h.start > 0 /\ h.size > 0
    BY <1>0, <1>2, <2>1 DEF RecordsInv, HeapInv
  <2>3. ASSUME NEW h \in held', h.item # Unrecorded
        PROVE  h.item \in UsedSlots' /\ items'[h.item] = [start |-> h.start, size |-> h.size]
    <3>1. CASE h = new
      BY <1>5, <1>8, <3>1
    <3>2. CASE h \in held
      <4>1. /\ h.item \in UsedSlots
            /\ items[h.item] = [start |-> h.start, size |-> h.size]
        BY <2>3, <3>2 DEF RecordsInv, HeapInv
      <4>2. h.item # u /\ h.item # b /\ h.item \in Slots
        BY <1>2, <1>4, <4>1, ListTypes DEF HeapInv, SlotsInv
      <4> QED BY <1>5, <1>8, <4>1, <4>2
    <3> QED BY <2>1, <3>1, <3>2
  <2>4. \A v \in UsedSlots' : \E h \in held' : h.item = v
    <3>1. \A v \in UsedSlots : \E h \in held' : h.item = v
      BY <2>1 DEF RecordsInv, HeapInv
    <3>2. new \in held' /\ new.item = u
      BY <2>1
    <3> QED BY <1>8, <3>1, <3>2
  <2> QED BY <2>2, <2>3, <2>4 DEF RecordsInv
<1> QED BY <1>10, <1>11, <1>12, <1>13 DEF HeapInv

\* memory_alloc keeps the invariant also when no slot is left for the record.
LEMMA AllocUnrecordedInv ==
  ASSUME TypeOK, HeapInv, FairCallers, NEW n \in Sizes, AllocUnrecorded(n)
  PROVE  TypeOK' /\ HeapInv'
<1>0. n \in Nat \ {0}
  BY SizesAssumption, HeadsAssumption DEF FairCallers
<1>1. PICK k \in FirstFit(n) :
        /\ items' = [items EXCEPT ![free_list[k]] = Carve(@, n)]
        /\ free_list' = ListAfterCarve(k, n)
        /\ held' = held \cup {[start |-> items[free_list[k]].start, size |-> n,
                               item |-> Unrecorded]}
  BY DEF AllocUnrecorded
<1> DEFINE b == free_list[k]
           new == [start |-> items[b].start, size |-> n, item |-> Unrecorded]
<1>2. /\ k \in DOMAIN free_list /\ b \in FreeSlots /\ b \in Slots
      /\ items[b] \in Block /\ n <= items[b].size /\ items[b].start > 0
  BY <1>0, ListTypes DEF FirstFit, Block, HeapInv, SlotsInv
<1>3. /\ items'[b] = Carve(items[b], n)
      /\ \A i \in Slots : i # b => items'[i] = items[i]
  BY <1>1, <1>2 DEF TypeOK
<1>4. new \in Held
  BY <1>0, <1>2 DEF Held, Block
<1>5. /\ free_list' \in Seq(Slots) /\ IsInjective(free_list')
      /\ FreeSlots' = IF items[b].size = n THEN FreeSlots \ {b} ELSE FreeSlots
  BY <1>0, <1>1, <1>2, CarveList DEF HeapInv
<1>6. used_list' = used_list /\ UsedSlots' = UsedSlots
  BY DEF AllocUnrecorded, UsedSlots
<1>7. /\ \A i \in FreeSlots' : items'[i].start > 0 /\ items'[i].size > 0
      /\ \A i, j \in FreeSlots' : i # j => Apart(items'[i], items'[j])
      /\ \A h \in held, i \in FreeSlots' : Apart(h, items'[i])
      /\ \A i \in FreeSlots' : Apart(new, items'[i])
      /\ \A h \in held : Apart(h, new)
  <2>1. \A i \in FreeSlots : i # b => items'[i] = items[i]
    BY <1>3, ListTypes
  <2>2. new.start = items[b].start /\ new.size = n
    OBVIOUS
  <2> HIDE DEF new
  <2> QED BY <1>0, <1>1, <1>2, <1>3, <1>4, <2>1, <2>2, CarveBlocks DEF HeapInv
<1>8. TypeOK'
  <2>1. items' \in [Slots -> Block]
    <3>1. Carve(items[b], n) \in Block
      BY <1>0, <1>2, CarveApart DEF Block
    <3> QED BY <1>1, <3>1 DEF TypeOK
  <2>2. held' \subseteq Held
    BY <1>1, <1>4 DEF TypeOK
  <2>3. cursor' \in 0..Len(free_list')
    <3>1. cursor' = 0
      BY DEF AllocUnrecorded, Ready
    <3> QED BY <1>5, <3>1, LenProperties
  <2> QED BY <1>5, <1>6, <2>1, <2>2, <2>3 DEF TypeOK, AllocUnrecorded
<1>9. \A i \in UsedSlots : i # b /\ i \in Slots
  BY <1>2, ListTypes DEF HeapInv, SlotsInv
<1>10. SlotsInv'
  <2>1. FreeSlots' \cap UsedSlots' = {}
    BY <1>5, <1>6 DEF HeapInv, SlotsInv
  <2>2. \A i \in UsedSlots' : items'[i].start > 0 /\ items'[i].size > 0
    BY <1>3, <1>6, <1>9 DEF HeapInv, SlotsInv
  <2>3. \A i \in Slots \ (FreeSlots' \cup UsedSlots') : items'[i] = Unused
    <3> SUFFICES ASSUME NEW i \in Slots \ (FreeSlots' \cup UsedSlots')
                 PROVE  items'[i] = Unused
      OBVIOUS
    <3>1. CASE i = b
      BY <1>2, <1>3, <1>5, <3>1 DEF Carve
    <3>2. CASE i # b
      BY <1>3, <1>5, <1>6, <3>2 DEF HeapInv, SlotsInv
    <3> QED BY <3>1, <3>2
  <2> QED BY <1>5, <1>6, <1>7, <2>1, <2>2, <2>3 DEF SlotsInv, HeapInv
<1>11. held' = held \cup {new}
  BY <1>1
<1>12. BlocksInv'
  <2>1. \A h \in held : Apart(new, h)
    BY <1>7 DEF Apart
  <2> HIDE DEF new
  <2> QED BY <1>7, <1>11, <2>1 DEF BlocksInv, HeapInv
<1>13. RecordsInv'
  <2>1. \A h \in held' : h.start > 0 /\ h.size > 0
    BY <1>0, <1>2, <1>11 DEF RecordsInv, HeapInv
  <2>2. ASSUME NEW h \in held', h.item # Unrecorded
        PROVE  h.item \in UsedSlots' /\ items'[h.item] = [start |-> h.start, size |-> h.size]
    BY <1>3, <1>6, <1>9, <1>11, <2>2 DEF RecordsInv, HeapInv
  <2>3. \A v \in UsedSlots' : \E h \in held' : h.item = v
    BY <1>6, <1>11 DEF RecordsInv, HeapInv
  <2> QED BY <2>1, <2>2, <2>3 DEF RecordsInv
<1> QED BY <1>8, <1>10, <1>12, <1>13 DEF HeapInv

\* The record memory_free finds under a block's address is that block's own.
LEMMA RecordIsOwn ==
  ASSUME TypeOK, HeapInv, NEW h \in held, NEW k \in Recorded(h.start)
  PROVE  /\ k \in 1..Len(used_list) /\ h.item = used_list[k] /\ h.item # Unrecorded
         /\ items[used_list[k]] = [start |-> h.start, size |-> h.size]
<1>1. /\ k \in DOMAIN used_list /\ used_list[k] \in UsedSlots
      /\ items[used_list[k]].start = h.start
      /\ used_list[k] \in Slots /\ used_list[k] # Unrecorded
  BY ListTypes DEF Recorded, Unrecorded
<1>2. PICK g \in held : g.item = used_list[k]
  BY <1>1 DEF HeapInv, RecordsInv
<1>3. items[used_list[k]] = [start |-> g.start, size |-> g.size]
  BY <1>1, <1>2 DEF HeapInv, RecordsInv
<1>4. g = h
  <2> SUFFICES ASSUME g # h PROVE FALSE
    OBVIOUS
  <2>1. Apart(g, h)
    BY DEF HeapInv, BlocksInv
  <2>2. g.start = h.start /\ g.size > 0 /\ h.size > 0
    BY <1>1, <1>3 DEF HeapInv, RecordsInv
  <2>3. g \in Held /\ h \in Held
    BY DEF TypeOK
  <2> QED BY <2>1, <2>2, <2>3 DEF Apart, End, Held
<1> QED BY <1>1, <1>2, <1>3, <1>4, ListTypes

\* memory_free of a recorded block keeps the invariant: the slot it moves to free_list
\* is that of the block given back.
LEMMA FreeRecordedInv ==
  ASSUME TypeOK, HeapInv, NEW h \in held, FreeRecorded(h)
  PROVE  TypeOK' /\ HeapInv'
<1>1. PICK k \in Recorded(h.start), place \in InsertPlace(h.start) :
        /\ used_list' = RemoveAt(used_list, k)
        /\ free_list' = InsertAt(free_list, place, used_list[k])
  BY DEF FreeRecorded
<1> DEFINE u == used_list[k]
<1>2. /\ cursor' = 1 /\ held' = held \ {h}
      /\ items' = items /\ head_taken' = head_taken
  BY DEF FreeRecorded
<1>3. /\ k \in 1..Len(used_list) /\ h.item = u /\ h.item # Unrecorded
      /\ items[u] = [start |-> h.start, size |-> h.size]
  BY <1>1, RecordIsOwn
<1>4. u \in UsedSlots /\ u \in Slots /\ u \notin FreeSlots
  BY <1>3, ListTypes DEF HeapInv, SlotsInv
<1>5. /\ used_list' \in Seq(Slots) /\ IsInjective(used_list')
      /\ UsedSlots' = UsedSlots \ {u}
  BY <1>1, <1>3, RemoveAtProps, RemoveAtRange DEF UsedSlots, TypeOK, HeapInv, SlotsInv
<1>6. /\ free_list' \in Seq(Slots) /\ IsInjective(free_list')
      /\ FreeSlots' = FreeSlots \cup {u}
      /\ Len(free_list') = Len(free_list) + 1
  <2>1. /\ free_list \in Seq(Slots) /\ IsInjective(free_list)
        /\ u \notin Range(free_list) /\ place \in 1..(Len(free_list) + 1)
    BY <1>4 DEF TypeOK, HeapInv, SlotsInv, FreeSlots, InsertPlace
  <2>2. /\ InsertAt(free_list, place, u) \in Seq(Slots)
        /\ Len(InsertAt(free_list, place, u)) = Len(free_list) + 1
    BY <1>4, <2>1, InsertAtProps
  <2>3. /\ IsInjective(InsertAt(free_list, place, u))
        /\ Range(InsertAt(free_list, place, u)) = Range(free_list) \cup {u}
    BY <1>4, <2>1, InsertAtRange
  <2> QED BY <1>1, <2>2, <2>3 DEF FreeSlots
<1>7. TypeOK'
  <2>1. Len(free_list) \in Nat
    BY ListTypes
  <2>2. cursor' \in 0..Len(free_list')
    BY <1>2, <1>6, <2>1
  <2> QED BY <1>2, <1>5, <1>6, <2>2 DEF TypeOK
<1>8. SlotsInv'
  BY <1>2, <1>4, <1>5, <1>6 DEF SlotsInv, HeapInv
<1>9. BlocksInv'
  <2>1. \A g \in held : g # h => Apart(g, h) /\ Apart(h, g)
    BY DEF BlocksInv, HeapInv
  <2>2. \A g \in held : g # h => Apart(g, items[u])
    BY <1>3, <2>1 DEF Apart, End
  <2>3. \A i \in FreeSlots : Apart(h, items[i])
    BY DEF BlocksInv, HeapInv
  <2>4. \A i \in FreeSlots : Apart(items[u], items[i]) /\ Apart(items[i], items[u])
    BY <1>3, <2>3 DEF Apart, End
  <2> QED BY <1>2, <1>4, <1>6, <2>2, <2>4 DEF BlocksInv, HeapInv
<1>10. RecordsInv'
  <2>1. ASSUME NEW g \in held', g.item # Unrecorded PROVE g.item # u
    <3> SUFFICES ASSUME g.item = u PROVE FALSE
      OBVIOUS
    <3>1. /\ g \in held /\ g # h
          /\ items[u] = [start |-> g.start, size |-> g.size]
      BY <1>2, <1>3, <2>1 DEF HeapInv, RecordsInv
    <3>2. Apart(g, h) /\ g.start = h.start /\ g.size > 0 /\ h.size > 0
      BY <1>3, <3>1 DEF HeapInv, BlocksInv, RecordsInv
    <3>3. g \in Held /\ h \in Held
      BY <3>1 DEF TypeOK
    <3> QED BY <3>2, <3>3 DEF Apart, End, Held
  <2>2. ASSUME NEW v \in UsedSlots' PROVE \E g \in held' : g.item = v
    BY <1>2, <1>3, <1>5 DEF HeapInv, RecordsInv
  <2> QED BY <1>2, <1>5, <2>1, <2>2 DEF HeapInv, RecordsInv
<1> QED BY <1>7, <1>8, <1>9, <1>10 DEF HeapInv

\* memory_free of a block without a record finds no record and keeps the invariant.
LEMMA FreeUnrecordedInv ==
  ASSUME TypeOK, HeapInv, NEW h \in held, FreeUnrecorded(h)
  PROVE  TypeOK' /\ HeapInv'
<1>1. /\ held' = held \ {h}
      /\ \A k \in DOMAIN used_list : items[used_list[k]].start # h.start
      /\ UNCHANGED <<items, free_list, used_list, cursor, head_taken>>
  BY DEF FreeUnrecorded
<1>2. TypeOK' /\ SlotsInv' /\ BlocksInv'
  BY <1>1 DEF TypeOK, HeapInv, SlotsInv, BlocksInv, FreeSlots, UsedSlots
<1>3. h.item \notin UsedSlots
  <2> SUFFICES ASSUME h.item \in UsedSlots PROVE FALSE
    OBVIOUS
  <2>1. h.item # Unrecorded
    BY ListTypes DEF Unrecorded
  <2>2. items[h.item] = [start |-> h.start, size |-> h.size]
    BY <2>1 DEF HeapInv, RecordsInv
  <2>3. items[h.item].start = h.start
    BY <2>2
  <2> QED BY <1>1, <2>3, ListTypes
<1>4. RecordsInv'
  <2>1. UsedSlots' = UsedSlots
    BY <1>1 DEF UsedSlots
  <2>2. \A v \in UsedSlots' : \E g \in held' : g.item = v
    BY <1>1, <1>3, <2>1 DEF HeapInv, RecordsInv
  <2> QED BY <1>1, <2>1, <2>2 DEF HeapInv, RecordsInv
<1> QED BY <1>2, <1>4 DEF HeapInv

\* What an iteration of memory_merger that absorbs the next block does to the table.
LEMMA MergeEffect ==
  ASSUME TypeOK, HeapInv, MergeNext
  PROVE  LET b == free_list[cursor]
             next == free_list[cursor + 1]
         IN  /\ cursor \in Nat \ {0} /\ cursor < Len(free_list) /\ cursor' = cursor
             /\ cursor + 1 \in DOMAIN free_list /\ cursor \in DOMAIN free_list
             /\ UNCHANGED <<used_list, head_taken, held>>
             /\ b \in FreeSlots /\ next \in FreeSlots /\ b # next
             /\ b \in Slots /\ next \in Slots /\ b \notin UsedSlots /\ next \notin UsedSlots
             /\ items[b] \in Block /\ items[next] \in Block
             /\ items[b].start > 0 /\ items[b].size > 0 /\ items[next].size > 0
             /\ End(items[b]) = items[next].start
             /\ items'[b] = [start |-> items[b].start, size |-> items[b].size + items[next].size]
             /\ items'[next] = Unused
             /\ \A i \in Slots : i # b /\ i # next => items'[i] = items[i]
             /\ items' \in [Slots -> Block]
             /\ free_list' \in Seq(Slots) /\ IsInjective(free_list')
             /\ Len(free_list') = Len(free_list) - 1 /\ Len(free_list) \in Nat
             /\ FreeSlots' = FreeSlots \ {next}
<1> DEFINE b == free_list[cursor]
           next == free_list[cursor + 1]
<1>1. /\ cursor # 0 /\ cursor < Len(free_list)
      /\ End(items[b]) = items[next].start
      /\ items' = [items EXCEPT ![b].size = @ + items[next].size, ![next] = Unused]
      /\ free_list' = RemoveAt(free_list, cursor + 1)
      /\ UNCHANGED <<used_list, cursor, head_taken, held>>
  BY DEF MergeNext
<1>2. /\ cursor \in Nat \ {0} /\ Len(free_list) \in Nat
      /\ cursor \in DOMAIN free_list /\ cursor + 1 \in DOMAIN free_list
      /\ cursor + 1 \in 1..Len(free_list)
  BY <1>1, ListTypes DEF TypeOK
<1>3. /\ b \in FreeSlots /\ next \in FreeSlots /\ b # next
      /\ b \in Slots /\ next \in Slots
      /\ b \notin UsedSlots /\ next \notin UsedSlots
  <2>1. b # next
    BY <1>2 DEF HeapInv, SlotsInv, IsInjective
  <2> QED BY <1>2, <2>1, ListTypes DEF HeapInv, SlotsInv
<1>4. /\ items[b] \in Block /\ items[next] \in Block
      /\ items[b].start > 0 /\ items[b].size > 0 /\ items[next].size > 0
  BY <1>3, ListTypes DEF HeapInv, SlotsInv
<1>5. /\ items'[b] = [start |-> items[b].start, size |-> items[b].size + items[next].size]
      /\ items'[next] = Unused
      /\ \A i \in Slots : i # b /\ i # next => items'[i] = items[i]
      /\ items' \in [Slots -> Block]
  <2>1. items \in [Slots -> Block]
    BY DEF TypeOK
  <2>2. items' = [items EXCEPT ![b] = [items[b] EXCEPT !.size = items[b].size + items[next].size],
                               ![next] = Unused]
    BY <1>1
  <2>3. [items[b] EXCEPT !.size = items[b].size + items[next].size]
          = [start |-> items[b].start, size |-> items[b].size + items[next].size]
    BY <1>4 DEF Block
  <2>4. [start |-> items[b].start, size |-> items[b].size + items[next].size] \in Block
        /\ Unused \in Block
    BY <1>4 DEF Block, Unused
  <2> HIDE DEF b, next
  <2> QED BY <1>3, <2>1, <2>2, <2>3, <2>4
<1>6. /\ free_list' \in Seq(Slots) /\ IsInjective(free_list')
      /\ Len(free_list') = Len(free_list) - 1
      /\ FreeSlots' = FreeSlots \ {next}
  <2>1. free_list \in Seq(Slots) /\ IsInjective(free_list)
    BY DEF TypeOK, HeapInv, SlotsInv
  <2>2. /\ RemoveAt(free_list, cursor + 1) \in Seq(Slots)
        /\ Len(RemoveAt(free_list, cursor + 1)) = Len(free_list) - 1
    BY <1>2, <2>1, RemoveAtProps
  <2>3. /\ IsInjective(RemoveAt(free_list, cursor + 1))
        /\ Range(RemoveAt(free_list, cursor + 1)) = Range(free_list) \ {next}
    BY <1>2, <2>1, RemoveAtRange
  <2> QED BY <1>1, <2>2, <2>3 DEF FreeSlots
<1> QED BY <1>1, <1>2, <1>3, <1>4, <1>5, <1>6

\* An iteration of memory_merger that absorbs the next block keeps the invariant.
LEMMA MergeNextInv ==
  ASSUME TypeOK, HeapInv, MergeNext
  PROVE  TypeOK' /\ HeapInv'
<1> DEFINE b == free_list[cursor]
           next == free_list[cursor + 1]
<1>1. /\ cursor # 0 /\ cursor < Len(free_list)
      /\ End(items[b]) = items[next].start
      /\ UNCHANGED <<used_list, cursor, head_taken, held>>
  BY MergeEffect
<1>2. cursor \in Nat \ {0} /\ Len(free_list) \in Nat
  BY MergeEffect
<1>3. /\ b \in FreeSlots /\ next \in FreeSlots /\ b # next
      /\ b \in Slots /\ next \in Slots
      /\ b \notin UsedSlots /\ next \notin UsedSlots
  BY MergeEffect
<1>4. /\ items[b] \in Block /\ items[next] \in Block
      /\ items[b].start > 0 /\ items[b].size > 0 /\ items[next].size > 0
  BY MergeEffect
<1>5. /\ items'[b] = [start |-> items[b].start, size |-> items[b].size + items[next].size]
      /\ items'[next] = Unused
      /\ \A i \in Slots : i # b /\ i # next => items'[i] = items[i]
      /\ items' \in [Slots -> Block]
  BY MergeEffect
<1>6. /\ free_list' \in Seq(Slots) /\ IsInjective(free_list')
      /\ Len(free_list') = Len(free_list) - 1
      /\ FreeSlots' = FreeSlots \ {next}
  BY MergeEffect
<1>7. UsedSlots' = UsedSlots /\ used_list' = used_list /\ held' = held
  BY <1>1 DEF UsedSlots
<1> HIDE DEF b, next
<1>8. TypeOK'
  <2>1. cursor' \in 0..Len(free_list')
    BY <1>1, <1>2, <1>6
  <2> QED BY <1>1, <1>5, <1>6, <2>1 DEF TypeOK
<1>9. SlotsInv'
  <2>1. \A i \in FreeSlots' \cup UsedSlots' : items'[i].start > 0 /\ items'[i].size > 0
    <3> SUFFICES ASSUME NEW i \in FreeSlots' \cup UsedSlots'
                 PROVE  items'[i].start > 0 /\ items'[i].size > 0
      OBVIOUS
    <3>1. i \in Slots /\ i # next /\ i \in FreeSlots \cup UsedSlots
      BY <1>3, <1>6, <1>7, ListTypes
    <3>2. CASE i = b
      BY <1>4, <1>5, <3>2 DEF Block
    <3>3. CASE i # b
      BY <1>5, <3>1, <3>3 DEF HeapInv, SlotsInv
    <3> QED BY <3>2, <3>3
  <2>2. \A i \in Slots \ (FreeSlots' \cup UsedSlots') : items'[i] = Unused
    BY <1>3, <1>5, <1>6, <1>7 DEF HeapInv, SlotsInv
  <2>3. FreeSlots' \cap UsedSlots' = {}
    BY <1>6, <1>7 DEF HeapInv, SlotsInv
  <2> QED BY <1>6, <1>7, <2>1, <2>2, <2>3 DEF SlotsInv, HeapInv
<1>10. ASSUME NEW x, x.start \in Nat, x.size \in Nat,
              Apart(x, items[b]), Apart(x, items[next]), x.size > 0
       PROVE  Apart(x, items'[b])
  <2>1. /\ items[b].start \in Nat /\ items[b].size \in Nat
        /\ items[next].start \in Nat /\ items[next].size \in Nat
    BY <1>4 DEF Block
  <2>2. /\ items'[b].start = items[b].start
        /\ items'[b].size = items[b].size + items[next].size
    BY <1>5
  <2>3. items[b].start + items[b].size = items[next].start
    BY <1>1 DEF End
  <2>4. \/ x.start + x.size <= items[b].start
        \/ items[b].start + items[b].size <= x.start
    BY <1>4, <1>10 DEF Apart, End
  <2>5. \/ x.start + x.size <= items[next].start
        \/ items[next].start + items[next].size <= x.start
    BY <1>4, <1>10 DEF Apart, End
  <2> QED BY <1>4, <1>10, <2>1, <2>2, <2>3, <2>4, <2>5 DEF Apart, End
<1>11. BlocksInv'
  <2>1. \A i, j \in FreeSlots : i # j => Apart(items[i], items[j])
    BY DEF HeapInv, BlocksInv
  <2>2. ASSUME NEW i \in FreeSlots', i # b
        PROVE  /\ i \in FreeSlots /\ items'[i] = items[i]
               /\ Apart(items[i], items'[b]) /\ Apart(items'[b], items[i])
    <3>1. i \in FreeSlots /\ i # next /\ i \in Slots
      BY <1>6, ListTypes
    <3>2. items'[i] = items[i]
      BY <1>5, <2>2, <3>1
    <3>3. items[i] \in Block /\ items[i].size > 0
      BY <3>1, ListTypes DEF HeapInv, SlotsInv
    <3>4. Apart(items[i], items[b]) /\ Apart(items[i], items[next])
      BY <1>3, <2>1, <2>2, <3>1
    <3>5. Apart(items[i], items'[b])
      BY <1>10, <3>3, <3>4 DEF Block
    <3>6. Apart(items'[b], items[i])
      BY <3>5 DEF Apart
    <3> QED BY <3>1, <3>2, <3>5, <3>6
  <2>3. ASSUME NEW i \in FreeSlots', NEW j \in FreeSlots', i # j
        PROVE  Apart(items'[i], items'[j])
    <3>1. CASE i = b
      BY <2>2, <2>3, <3>1
    <3>2. CASE j = b
      BY <2>2, <2>3, <3>2
    <3>3. CASE i # b /\ j # b
      BY <2>1, <2>2, <2>3, <3>3
    <3> QED BY <3>1, <3>2, <3>3
  <2>4. ASSUME NEW h \in held, NEW i \in FreeSlots'
        PROVE  Apart(h, items'[i])
    <3>1. Apart(h, items[b]) /\ Apart(h, items[next])
      BY <1>3 DEF HeapInv, BlocksInv
    <3>2. h \in Held /\ h.size > 0
      BY DEF TypeOK, HeapInv, RecordsInv
    <3>3. CASE i = b
      BY <1>10, <3>1, <3>2, <3>3 DEF Held
    <3>4. CASE i # b
      BY <2>2, <3>4 DEF HeapInv, BlocksInv
    <3> QED BY <3>3, <3>4
  <2> QED BY <1>7, <2>3, <2>4 DEF BlocksInv, HeapInv
<1>12. RecordsInv'
  <2>1. \A u \in UsedSlots : u \in Slots /\ items'[u] = items[u]
    BY <1>3, <1>5, ListTypes
  <2> QED BY <1>7, <2>1 DEF RecordsInv, HeapInv
<1> QED BY <1>8, <1>9, <1>11, <1>12 DEF HeapInv

\* To take a list head for an item ends what is modelled, and keeps the invariant.
LEMMA HeadTakenInv ==
  ASSUME TypeOK, HeapInv, MergeHead \/ \E p \in Pointers : FreeFromHead(p)
  PROVE  TypeOK' /\ HeapInv'
<1>1. /\ UNCHANGED <<items, free_list, used_list, held>>
      /\ head_taken' = TRUE /\ cursor' \in {0, cursor}
  BY DEF MergeHead, FreeFromHead
<1>2. cursor' \in 0..Len(free_list')
  BY <1>1, ListTypes DEF TypeOK
<1> QED BY <1>1, <1>2 DEF TypeOK, HeapInv, SlotsInv, BlocksInv, RecordsInv,
                          FreeSlots, UsedSlots

\* An iteration of memory_merger that moves on keeps the invariant.
LEMMA MergeAdvanceInv ==
  ASSUME TypeOK, HeapInv, MergeAdvance
  PROVE  TypeOK' /\ HeapInv'
<1>1. /\ UNCHANGED <<items, free_list, used_list, head_taken, held>>
      /\ cursor' = IF cursor < Len(free_list) THEN cursor + 1 ELSE 0
  BY DEF MergeAdvance
<1>2. cursor' \in 0..Len(free_list')
  BY <1>1, ListTypes DEF TypeOK
<1> QED BY <1>1, <1>2 DEF TypeOK, HeapInv, SlotsInv, BlocksInv, RecordsInv,
                          FreeSlots, UsedSlots

-----------------------------------------------------------------------------

\* The invariant holds in every state the allocator reaches.
THEOREM HeapInvariance ==
  ASSUME FairCallers
  PROVE  Spec => [](TypeOK /\ HeapInv)
<1>1. Init => TypeOK /\ HeapInv
  BY InitInv
<1>2. TypeOK /\ HeapInv /\ [Next]_vars => TypeOK' /\ HeapInv'
  <2> SUFFICES ASSUME TypeOK, HeapInv, [Next]_vars
               PROVE  TypeOK' /\ HeapInv'
    OBVIOUS
  <2>1. ASSUME NEW n \in Sizes, AllocRecorded(n) PROVE TypeOK' /\ HeapInv'
    BY <2>1, AllocRecordedInv
  <2>2. ASSUME NEW n \in Sizes, AllocUnrecorded(n) PROVE TypeOK' /\ HeapInv'
    BY <2>2, AllocUnrecordedInv
  <2>3. ASSUME NEW n \in Sizes, AllocFromHead(n) PROVE TypeOK' /\ HeapInv'
    BY <2>3, SizesAssumption, HeadsAssumption DEF AllocFromHead, FairCallers
  <2>4. ASSUME NEW h \in held, FreeRecorded(h) PROVE TypeOK' /\ HeapInv'
    BY <2>4, FreeRecordedInv
  <2>5. ASSUME NEW h \in held, FreeUnrecorded(h) PROVE TypeOK' /\ HeapInv'
    BY <2>5, FreeUnrecordedInv
  <2>6. CASE MergeHead \/ \E p \in Pointers : FreeFromHead(p)
    BY <2>6, HeadTakenInv
  <2>7. CASE MergeNext
    BY <2>7, MergeNextInv
  <2>8. CASE MergeAdvance
    BY <2>8, MergeAdvanceInv
  <2>9. CASE UNCHANGED vars
    BY <2>9 DEF vars, TypeOK, HeapInv, SlotsInv, BlocksInv, RecordsInv,
                FreeSlots, UsedSlots
  <2> QED BY <2>1, <2>2, <2>3, <2>4, <2>5, <2>6, <2>7, <2>8, <2>9 DEF Next
<1> QED BY <1>1, <1>2, PTL DEF Spec

\* Type correctness.
THEOREM TypeCorrect ==
  ASSUME FairCallers
  PROVE  Spec => []TypeOK
<1> QED BY HeapInvariance, PTL

\* memory_alloc never hands out memory somebody owns, and the blocks callers own
\* and the free ones never overlap: for every number of slots, layout of regions
\* and set of sizes, also when the table of slots is full.
THEOREM HeapNoOverlap ==
  ASSUME FairCallers
  PROVE  Spec => []NoOverlap
<1>1. TypeOK /\ HeapInv => NoOverlap
  <2> SUFFICES ASSUME TypeOK, HeapInv PROVE NoOverlap
    OBVIOUS
  <2>1. \A k \in DOMAIN free_list : free_list[k] \in FreeSlots
    BY ListTypes
  <2>2. \A j, k \in DOMAIN free_list : j # k => free_list[j] # free_list[k]
    BY DEF HeapInv, SlotsInv, IsInjective
  <2> QED BY <2>1, <2>2 DEF NoOverlap, HeapInv, BlocksInv
<1> QED BY <1>1, HeapInvariance, PTL

-----------------------------------------------------------------------------
(***************************************************************************)
(* The order of free_list, when memory_init links the regions in the order *)
(* of their addresses and no two of them touch: up to 512M there is only   *)
(* one.  While memory_merger runs, the blocks in front of its own are      *)
(* already apart by more than nothing from all behind them.                *)
(***************************************************************************)

RegionsAscending ==
  \A r, s \in DOMAIN Regions : r < s => End(Regions[r]) < Regions[s].start

FreeBlock(k) == items[free_list[k]]

OrderInv ==
  \A j, k \in DOMAIN free_list : j < k =>
    /\ End(FreeBlock(j)) <= FreeBlock(k).start
    /\ (cursor = 0 \/ j < cursor) => End(FreeBlock(j)) < FreeBlock(k).start

\* The blocks on free_list are blocks of at least one byte, each at one place.
LEMMA FreeBlocks ==
  ASSUME TypeOK, HeapInv
  PROVE  /\ Len(free_list) \in Nat /\ DOMAIN free_list = 1..Len(free_list)
         /\ \A k \in DOMAIN free_list :
              /\ free_list[k] \in FreeSlots /\ free_list[k] \in Slots
              /\ FreeBlock(k) \in Block /\ End(FreeBlock(k)) \in Nat
              /\ FreeBlock(k).start \in Nat /\ FreeBlock(k).start < End(FreeBlock(k))
         /\ \A j, k \in DOMAIN free_list : j # k =>
              /\ free_list[j] # free_list[k]
              /\ \/ End(FreeBlock(j)) <= FreeBlock(k).start
                 \/ End(FreeBlock(k)) <= FreeBlock(j).start
<1>1. Len(free_list) \in Nat /\ DOMAIN free_list = 1..Len(free_list)
  BY ListTypes
<1>2. ASSUME NEW k \in DOMAIN free_list
      PROVE  /\ free_list[k] \in FreeSlots /\ free_list[k] \in Slots
             /\ FreeBlock(k) \in Block /\ FreeBlock(k).size > 0
  BY ListTypes DEF HeapInv, SlotsInv, FreeBlock
<1>3. ASSUME NEW k \in DOMAIN free_list
      PROVE  /\ End(FreeBlock(k)) \in Nat /\ FreeBlock(k).start \in Nat
             /\ FreeBlock(k).start < End(FreeBlock(k))
  BY <1>2 DEF Block, End
<1>4. ASSUME NEW j \in DOMAIN free_list, NEW k \in DOMAIN free_list, j # k
      PROVE  /\ free_list[j] # free_list[k]
             /\ \/ End(FreeBlock(j)) <= FreeBlock(k).start
                \/ End(FreeBlock(k)) <= FreeBlock(j).start
  <2>1. free_list[j] # free_list[k]
    BY <1>4 DEF HeapInv, SlotsInv, IsInjective
  <2>2. Apart(FreeBlock(j), FreeBlock(k))
    BY <1>2, <2>1 DEF HeapInv, BlocksInv, FreeBlock
  <2> QED BY <1>2, <2>1, <2>2 DEF Apart, Block
<1> QED BY <1>1, <1>2, <1>3, <1>4

LEMMA InitOrder ==
  ASSUME RegionsAscending, Init
  PROVE  OrderInv
<1>1. Len(Regions) \in Nat /\ Len(Regions) <= NItems /\ DOMAIN Regions = 1..Len(Regions)
      /\ \A r \in DOMAIN Regions : Regions[r] \in Block
  BY RegionsAssumption, LenProperties, ElementOfSeq
<1>2. /\ DOMAIN free_list = 1..Len(Regions)
      /\ \A k \in 1..Len(Regions) : FreeBlock(k) = Regions[k]
  BY <1>1, NItemsAssumption DEF Init, FreeBlock, Slots
<1>3. \A r, s \in DOMAIN Regions : r < s => End(Regions[r]) < Regions[s].start
  BY DEF RegionsAscending
<1>4. \A r \in DOMAIN Regions : End(Regions[r]) \in Nat /\ Regions[r].start \in Nat
  BY <1>1 DEF Block, End
<1> QED BY <1>1, <1>2, <1>3, <1>4 DEF OrderInv

\* memory_alloc cuts the front off a block: the gaps before and behind it only grow.
LEMMA CarveOrder ==
  ASSUME TypeOK, HeapInv, OrderInv, cursor = 0, cursor' = 0,
         NEW n \in Nat \ {0}, NEW k \in DOMAIN free_list, n <= FreeBlock(k).size,
         free_list' = ListAfterCarve(k, n),
         items'[free_list[k]] = Carve(FreeBlock(k), n),
         \A i \in FreeSlots : i # free_list[k] => items'[i] = items[i]
  PROVE  OrderInv'
<1>1. /\ Len(free_list) \in Nat /\ DOMAIN free_list = 1..Len(free_list)
      /\ \A j \in DOMAIN free_list :
           /\ free_list[j] \in FreeSlots /\ FreeBlock(j) \in Block
           /\ FreeBlock(j).start \in Nat /\ End(FreeBlock(j)) \in Nat
      /\ \A j \in DOMAIN free_list : j # k => free_list[j] # free_list[k]
  BY FreeBlocks
<1>2. \A i, j \in DOMAIN free_list : i < j => End(FreeBlock(i)) < FreeBlock(j).start
  BY DEF OrderInv
<1>3. \A j \in DOMAIN free_list : j # k => items'[free_list[j]] = FreeBlock(j)
  BY <1>1 DEF FreeBlock
<1>4. CASE FreeBlock(k).size = n
  <2> DEFINE old(i) == IF i < k THEN i ELSE i + 1
  <2>1. free_list' = RemoveAt(free_list, k)
    BY <1>4 DEF ListAfterCarve, FreeBlock
  <2>2. /\ free_list' \in Seq(Slots) /\ Len(free_list') = Len(free_list) - 1
        /\ \A i \in 1..(Len(free_list) - 1) : free_list'[i] = free_list[old(i)]
    <3>1. free_list \in Seq(Slots) /\ k \in 1..Len(free_list)
      BY <1>1 DEF TypeOK
    <3>2. /\ RemoveAt(free_list, k) \in Seq(Slots)
          /\ Len(RemoveAt(free_list, k)) = Len(free_list) - 1
          /\ \A i \in 1..(Len(free_list) - 1) :
               RemoveAt(free_list, k)[i] = IF i < k THEN free_list[i] ELSE free_list[i + 1]
      BY <3>1, RemoveAtProps
    <3> QED BY <2>1, <3>2
  <2>3. DOMAIN free_list' = 1..(Len(free_list) - 1)
    BY <2>2, LenProperties
  <2>4. \A i \in DOMAIN free_list' : old(i) \in DOMAIN free_list /\ old(i) # k
    BY <1>1, <2>3
  <2>5. \A i \in DOMAIN free_list' : items'[free_list'[i]] = FreeBlock(old(i))
    BY <1>3, <2>2, <2>3, <2>4
  <2>6. \A i, j \in DOMAIN free_list' : i < j => old(i) < old(j)
    BY <1>1, <2>3
  <2> HIDE DEF old
  <2>7. \A i, j \in DOMAIN free_list' : i < j =>
          End(FreeBlock(old(i))) < FreeBlock(old(j)).start
    BY <1>2, <2>4, <2>6
  <2>8. \A i \in DOMAIN free_list' :
          End(FreeBlock(old(i))) \in Nat /\ FreeBlock(old(i)).start \in Nat
    BY <1>1, <2>4
  <2> QED BY <2>5, <2>7, <2>8 DEF OrderInv, FreeBlock
<1>5. CASE FreeBlock(k).size # n
  <2>1. free_list' = free_list
    BY <1>5 DEF ListAfterCarve, FreeBlock
  <2>2. items'[free_list[k]] = [start |-> FreeBlock(k).start + n, size |-> FreeBlock(k).size - n]
    BY <1>5 DEF Carve
  <2>3. \A j \in DOMAIN free_list :
          /\ End(items'[free_list[j]]) = End(FreeBlock(j))
          /\ items'[free_list[j]].start \in Nat
          /\ items'[free_list[j]].start >= FreeBlock(j).start
    <3> TAKE j \in DOMAIN free_list
    <3>1. CASE j = k
      <4> DEFINE left == items'[free_list[k]]
      <4>1. FreeBlock(k).start \in Nat /\ FreeBlock(k).size \in Nat
        BY <1>1 DEF Block
      <4>2. left.start = FreeBlock(k).start + n /\ left.size = FreeBlock(k).size - n
        BY <2>2
      <4> HIDE DEF left
      <4>3. left.start + left.size = FreeBlock(k).start + FreeBlock(k).size
        BY <4>1, <4>2
      <4>4. End(left) = End(FreeBlock(k)) /\ left.start \in Nat /\ left.start >= FreeBlock(k).start
        BY <4>1, <4>2, <4>3 DEF End
      <4> QED BY <3>1, <4>4 DEF left
    <3>2. CASE j # k
      BY <1>1, <1>3, <3>2
    <3> QED BY <3>1, <3>2
  <2>4. \A i, j \in DOMAIN free_list : i < j =>
          End(items'[free_list[i]]) < items'[free_list[j]].start
    BY <1>1, <1>2, <2>3
  <2> QED BY <1>1, <2>1, <2>3, <2>4 DEF OrderInv, FreeBlock
<1> QED BY <1>4, <1>5

\* memory_free links the block in front of the first one that starts behind it.
LEMMA FreeOrder ==
  ASSUME TypeOK, HeapInv, OrderInv, NEW h \in held, FreeRecorded(h)
  PROVE  OrderInv'
<1>1. PICK k \in Recorded(h.start), place \in InsertPlace(h.start) :
        free_list' = InsertAt(free_list, place, used_list[k])
  BY DEF FreeRecorded
<1> DEFINE u == used_list[k]
           b == items[u]
           new(i) == IF i < place THEN i ELSE i - 1
<1>2. cursor' = 1 /\ items' = items
  BY DEF FreeRecorded
<1>3. k \in 1..Len(used_list) /\ b = [start |-> h.start, size |-> h.size]
  BY <1>1, RecordIsOwn
<1>4. u \in UsedSlots /\ u \in Slots
  BY <1>3, ListTypes
<1>5. b.start = h.start /\ b.start \in Nat /\ End(b) \in Nat /\ b.start < End(b) /\ b \in Block
      /\ b.size > 0
  BY <1>3, <1>4, ListTypes DEF HeapInv, RecordsInv, Block, End
<1>6. /\ Len(free_list) \in Nat /\ DOMAIN free_list = 1..Len(free_list)
      /\ \A j \in DOMAIN free_list :
           /\ free_list[j] \in FreeSlots /\ FreeBlock(j) \in Block
           /\ FreeBlock(j).start \in Nat /\ End(FreeBlock(j)) \in Nat
           /\ FreeBlock(j).start < End(FreeBlock(j))
  BY FreeBlocks
\* The block was its caller's, so no free block overlaps it.
<1>7. \A j \in DOMAIN free_list :
        End(b) <= FreeBlock(j).start \/ End(FreeBlock(j)) <= b.start
  <2> TAKE j \in DOMAIN free_list
  <2>1. Apart(h, FreeBlock(j)) /\ FreeBlock(j).size > 0
    BY <1>6 DEF HeapInv, BlocksInv, SlotsInv, FreeBlock
  <2>2. End(h) = End(b) /\ h.size = b.size
    BY <1>3 DEF End
  <2> QED BY <1>5, <1>6, <2>1, <2>2 DEF Apart, Block
<1>8. /\ place \in 1..(Len(free_list) + 1)
      /\ \A j \in 1..(place - 1) : FreeBlock(j).start < b.start
      /\ place <= Len(free_list) => FreeBlock(place).start >= b.start
  BY <1>5, <1>6 DEF InsertPlace, FreeBlock
<1>9. /\ free_list' \in Seq(Slots) /\ Len(free_list') = Len(free_list) + 1
      /\ \A i \in 1..(Len(free_list) + 1) :
           free_list'[i] = IF i < place THEN free_list[i]
                           ELSE IF i = place THEN u ELSE free_list[i - 1]
  <2>1. free_list \in Seq(Slots) /\ place \in 1..(Len(free_list) + 1)
    BY <1>8 DEF TypeOK
  <2>2. /\ InsertAt(free_list, place, u) \in Seq(Slots)
        /\ Len(InsertAt(free_list, place, u)) = Len(free_list) + 1
    BY <1>4, <2>1, InsertAtProps
  <2>3. \A i \in 1..(Len(free_list) + 1) :
          InsertAt(free_list, place, u)[i] = IF i < place THEN free_list[i]
                                             ELSE IF i = place THEN u ELSE free_list[i - 1]
    BY <1>4, <2>1, InsertAtProps
  <2> QED BY <1>1, <2>2, <2>3
<1> HIDE DEF b, u
<1>10. DOMAIN free_list' = 1..(Len(free_list) + 1)
  BY <1>9, LenProperties
<1>11. \A i \in DOMAIN free_list' :
         /\ i # place => new(i) \in DOMAIN free_list /\ items'[free_list'[i]] = FreeBlock(new(i))
         /\ i = place => items'[free_list'[i]] = b
  BY <1>2, <1>6, <1>8, <1>9, <1>10 DEF FreeBlock, b
<1>12. \A i, j \in DOMAIN free_list : i < j => End(FreeBlock(i)) <= FreeBlock(j).start
  BY DEF OrderInv
<1>13. \A i, j \in DOMAIN free_list' : i < j =>
         End(items'[free_list'[i]]) <= items'[free_list'[j]].start
  <2> SUFFICES ASSUME NEW i \in DOMAIN free_list', NEW j \in DOMAIN free_list', i < j
               PROVE  End(items'[free_list'[i]]) <= items'[free_list'[j]].start
    OBVIOUS
  <2>1. CASE i # place /\ j # place
    <3>1. new(i) < new(j)
      BY <1>8, <1>10, <2>1
    <3> QED BY <1>11, <1>12, <2>1, <3>1
  <2>2. CASE j = place
    <3>1. i \in 1..(place - 1) /\ new(i) = i
      BY <1>8, <1>10, <2>2
    <3>2. FreeBlock(i).start < b.start /\ i \in DOMAIN free_list
      BY <1>6, <1>8, <3>1
    <3>3. End(FreeBlock(i)) <= b.start
      BY <1>5, <1>6, <1>7, <3>2
    <3> QED BY <1>11, <2>2, <3>1, <3>3
  <2>3. CASE i = place
    <3>1. j - 1 \in DOMAIN free_list /\ new(j) = j - 1 /\ place <= j - 1 /\ place \in DOMAIN free_list
      BY <1>6, <1>8, <1>10, <2>3
    <3>2. FreeBlock(j - 1).start >= b.start
      <4>1. FreeBlock(place).start >= b.start
        BY <1>6, <1>8, <3>1
      <4>2. CASE j - 1 = place
        BY <4>1, <4>2
      <4>3. CASE place < j - 1
        <5>1. End(FreeBlock(place)) <= FreeBlock(j - 1).start
          BY <1>12, <3>1, <4>3
        <5> QED BY <1>5, <1>6, <3>1, <4>1, <5>1
      <4> QED BY <3>1, <4>2, <4>3, <1>6
    <3>3. End(b) <= FreeBlock(j - 1).start
      BY <1>5, <1>6, <1>7, <3>1, <3>2
    <3>4. items'[free_list'[i]] = b
      BY <1>11, <2>3
    <3>5. j # place
      BY <1>8, <2>3
    <3>6. items'[free_list'[j]] = FreeBlock(j - 1)
      BY <1>11, <3>1, <3>5
    <3> QED BY <3>3, <3>4, <3>6
  <2> QED BY <2>1, <2>2, <2>3
<1>14. \A i \in DOMAIN free_list' : ~(i < 1)
  BY <1>6, <1>10
<1> QED BY <1>2, <1>13, <1>14 DEF OrderInv, FreeBlock

\* memory_merger's block absorbs the next one: what is behind it stays behind it.
LEMMA MergeNextOrder ==
  ASSUME TypeOK, HeapInv, OrderInv, MergeNext
  PROVE  OrderInv'
<1> DEFINE b == free_list[cursor]
           next == free_list[cursor + 1]
           old(i) == IF i <= cursor THEN i ELSE i + 1
           merged == [start |-> FreeBlock(cursor).start,
                      size |-> FreeBlock(cursor).size + FreeBlock(cursor + 1).size]
<1>1. /\ End(FreeBlock(cursor)) = FreeBlock(cursor + 1).start /\ cursor' = cursor
      /\ free_list' = RemoveAt(free_list, cursor + 1)
  BY DEF MergeNext, FreeBlock
<1>2. /\ cursor \in Nat \ {0} /\ Len(free_list) \in Nat /\ DOMAIN free_list = 1..Len(free_list)
      /\ cursor \in DOMAIN free_list /\ cursor + 1 \in DOMAIN free_list
      /\ cursor + 1 \in 1..Len(free_list)
  BY MergeEffect, ListTypes
<1>3. /\ \A j \in DOMAIN free_list :
           /\ free_list[j] \in Slots /\ FreeBlock(j) \in Block
           /\ FreeBlock(j).start \in Nat /\ End(FreeBlock(j)) \in Nat
           /\ FreeBlock(j).start < End(FreeBlock(j))
      /\ \A i, j \in DOMAIN free_list : i # j => free_list[i] # free_list[j]
  BY FreeBlocks
<1>4. /\ items'[b] = merged
      /\ \A i \in Slots : i # b /\ i # next => items'[i] = items[i]
  BY MergeEffect DEF FreeBlock
<1>5. merged.start = FreeBlock(cursor).start /\ End(merged) = End(FreeBlock(cursor + 1))
  <2>1. /\ FreeBlock(cursor).start \in Nat /\ FreeBlock(cursor).size \in Nat
        /\ FreeBlock(cursor + 1).start \in Nat /\ FreeBlock(cursor + 1).size \in Nat
    BY <1>2, <1>3 DEF Block
  <2>2. FreeBlock(cursor).start + FreeBlock(cursor).size = FreeBlock(cursor + 1).start
    BY <1>1 DEF End
  <2> QED BY <2>1, <2>2 DEF End
<1> HIDE DEF merged
<1>6. /\ free_list' \in Seq(Slots) /\ Len(free_list') = Len(free_list) - 1
      /\ \A i \in 1..(Len(free_list) - 1) :
           free_list'[i] = IF i < cursor + 1 THEN free_list[i] ELSE free_list[i + 1]
  <2>1. free_list \in Seq(Slots) /\ cursor + 1 \in 1..Len(free_list)
    BY <1>2 DEF TypeOK
  <2> QED BY <1>1, <2>1, RemoveAtProps
<1>7. DOMAIN free_list' = 1..(Len(free_list) - 1)
  BY <1>6, LenProperties
<1>8. \A i \in DOMAIN free_list' :
        /\ old(i) \in DOMAIN free_list /\ old(i) # cursor + 1
        /\ free_list'[i] = free_list[old(i)]
        /\ i = cursor <=> old(i) = cursor
  BY <1>2, <1>6, <1>7
<1>9. \A i, j \in DOMAIN free_list' : i < j =>
        /\ old(i) < old(j) /\ (i < cursor => old(i) < cursor)
        /\ i = cursor => cursor + 1 < old(j)
        /\ i # cursor => old(j) # cursor + 1
  BY <1>2, <1>7
<1> HIDE DEF old
<1>10. \A i \in DOMAIN free_list' : i # cursor => items'[free_list'[i]] = FreeBlock(old(i))
  <2> SUFFICES ASSUME NEW i \in DOMAIN free_list', i # cursor
               PROVE  items'[free_list'[i]] = FreeBlock(old(i))
    OBVIOUS
  <2>1. /\ old(i) \in DOMAIN free_list /\ old(i) # cursor + 1 /\ old(i) # cursor
        /\ free_list'[i] = free_list[old(i)]
    BY <1>8
  <2>2. free_list[old(i)] # b /\ free_list[old(i)] # next /\ free_list[old(i)] \in Slots
    BY <1>2, <1>3, <2>1
  <2> QED BY <1>4, <2>1, <2>2 DEF FreeBlock
<1>11. cursor \in DOMAIN free_list' => items'[free_list'[cursor]] = merged
  BY <1>4, <1>8
<1>12. \A i \in DOMAIN free_list' : items'[free_list'[i]].start = FreeBlock(old(i)).start
  BY <1>5, <1>8, <1>10, <1>11
<1>13. \A i, j \in DOMAIN free_list : i < j =>
         /\ End(FreeBlock(i)) <= FreeBlock(j).start
         /\ i < cursor => End(FreeBlock(i)) < FreeBlock(j).start
  BY DEF OrderInv
<1>14. ASSUME NEW i \in DOMAIN free_list', NEW j \in DOMAIN free_list', i < j
       PROVE  /\ End(items'[free_list'[i]]) <= items'[free_list'[j]].start
              /\ i < cursor => End(items'[free_list'[i]]) < items'[free_list'[j]].start
  <2>1. /\ old(i) \in DOMAIN free_list /\ old(j) \in DOMAIN free_list /\ old(i) < old(j)
        /\ i < cursor => old(i) < cursor
        /\ items'[free_list'[j]].start = FreeBlock(old(j)).start
    BY <1>8, <1>9, <1>12, <1>14
  <2>2. CASE i # cursor
    BY <1>10, <1>13, <2>1, <2>2
  <2>3. CASE i = cursor
    <3>1. items'[free_list'[i]] = merged /\ cursor + 1 < old(j)
      BY <1>9, <1>11, <1>14, <2>3
    <3>2. End(FreeBlock(cursor + 1)) <= FreeBlock(old(j)).start
      BY <1>2, <1>13, <2>1, <3>1
    <3>3. ~(i < cursor)
      BY <1>2, <2>3
    <3> QED BY <1>5, <2>1, <3>1, <3>2, <3>3
  <2> QED BY <2>2, <2>3
<1> QED BY <1>1, <1>2, <1>14 DEF OrderInv, FreeBlock

\* memory_merger moves on only from a block that does not touch the next one.
LEMMA MergeAdvanceOrder ==
  ASSUME TypeOK, HeapInv, OrderInv, MergeAdvance \/ MergeHead
  PROVE  OrderInv'
<1>1. /\ cursor # 0
      /\ cursor < Len(free_list) => End(FreeBlock(cursor)) # FreeBlock(cursor + 1).start
      /\ cursor' = IF cursor < Len(free_list) THEN cursor + 1 ELSE 0
      /\ UNCHANGED <<items, free_list>>
  <2>1. CASE MergeAdvance
    BY <2>1 DEF MergeAdvance, NextStarts, FreeBlock
  <2>2. CASE MergeHead
    <3>1. cursor = Len(free_list) /\ Len(free_list) \in Nat /\ cursor # 0 /\ cursor' = 0
          /\ UNCHANGED <<items, free_list>>
      BY <2>2, ListTypes DEF MergeHead
    <3> QED BY <3>1
  <2> QED BY <2>1, <2>2
<1>2. /\ cursor \in Nat \ {0} /\ cursor <= Len(free_list)
      /\ Len(free_list) \in Nat /\ DOMAIN free_list = 1..Len(free_list)
  BY <1>1, ListTypes DEF TypeOK
<1>3. \A j \in DOMAIN free_list :
        /\ FreeBlock(j).start \in Nat /\ End(FreeBlock(j)) \in Nat
        /\ FreeBlock(j).start < End(FreeBlock(j))
  BY FreeBlocks
<1>4. \A i, j \in DOMAIN free_list : i < j =>
        /\ End(FreeBlock(i)) <= FreeBlock(j).start
        /\ i < cursor => End(FreeBlock(i)) < FreeBlock(j).start
  BY DEF OrderInv
<1>5. ASSUME NEW j \in DOMAIN free_list, cursor < j
      PROVE  End(FreeBlock(cursor)) < FreeBlock(j).start
  <2>1. cursor \in DOMAIN free_list /\ cursor + 1 \in DOMAIN free_list /\ cursor < cursor + 1
    BY <1>2, <1>5
  <2>2. End(FreeBlock(cursor)) < FreeBlock(cursor + 1).start
    <3>1. End(FreeBlock(cursor)) <= FreeBlock(cursor + 1).start
      BY <1>4, <2>1
    <3>2. End(FreeBlock(cursor)) # FreeBlock(cursor + 1).start
      BY <1>1, <1>2, <1>5
    <3> QED BY <1>3, <2>1, <3>1, <3>2
  <2>3. CASE j = cursor + 1
    BY <2>2, <2>3
  <2>4. CASE cursor + 1 < j
    <3>1. End(FreeBlock(cursor + 1)) <= FreeBlock(j).start
      BY <1>4, <2>1, <2>4
    <3> QED BY <1>3, <2>1, <2>2, <3>1
  <2> QED BY <1>2, <1>5, <2>3, <2>4
<1>6. ASSUME NEW i \in DOMAIN free_list, NEW j \in DOMAIN free_list, i < j
      PROVE  /\ End(FreeBlock(i)) <= FreeBlock(j).start
             /\ (cursor' = 0 \/ i < cursor') => End(FreeBlock(i)) < FreeBlock(j).start
  <2>1. End(FreeBlock(i)) <= FreeBlock(j).start
    BY <1>4, <1>6
  <2>2. ASSUME cursor' = 0 \/ i < cursor' PROVE i <= cursor
    BY <1>1, <1>2, <1>6, <2>2
  <2>3. CASE i < cursor
    BY <1>4, <1>6, <2>1, <2>3
  <2>4. CASE i = cursor
    BY <1>5, <1>6, <2>1, <2>4
  <2> QED BY <1>2, <2>1, <2>2, <2>3, <2>4
<1> QED BY <1>1, <1>6 DEF OrderInv, FreeBlock

LEMMA OrderStep ==
  ASSUME FairCallers, TypeOK, HeapInv, OrderInv, [Next]_vars
  PROVE  OrderInv'
<1>1. ASSUME NEW n \in Sizes, AllocRecorded(n) PROVE OrderInv'
  <2>1. PICK k \in FirstFit(n), u \in FirstUnused :
          /\ items' = [items EXCEPT ![u] = [start |-> items[free_list[k]].start, size |-> n],
                                    ![free_list[k]] = Carve(@, n)]
          /\ free_list' = ListAfterCarve(k, n)
    BY <1>1 DEF AllocRecorded
  <2>2. cursor = 0 /\ cursor' = 0
    BY <1>1 DEF AllocRecorded, Ready
  <2>3. n \in Nat \ {0} /\ k \in DOMAIN free_list /\ n <= FreeBlock(k).size
    BY SizesAssumption, HeadsAssumption, ListTypes DEF FairCallers, FirstFit, FreeBlock, Block
  <2>4. /\ u \in Slots /\ u \notin FreeSlots /\ free_list[k] \in FreeSlots /\ FreeSlots \subseteq Slots
    BY <2>3, ListTypes DEF FirstUnused, HeapInv, SlotsInv
  <2>5. /\ items'[free_list[k]] = Carve(FreeBlock(k), n)
        /\ \A i \in FreeSlots : i # free_list[k] => items'[i] = items[i]
    BY <2>1, <2>4 DEF TypeOK, FreeBlock
  <2> QED BY <2>1, <2>2, <2>3, <2>5, CarveOrder
<1>2. ASSUME NEW n \in Sizes, AllocUnrecorded(n) PROVE OrderInv'
  <2>1. PICK k \in FirstFit(n) :
          /\ items' = [items EXCEPT ![free_list[k]] = Carve(@, n)]
          /\ free_list' = ListAfterCarve(k, n)
    BY <1>2 DEF AllocUnrecorded
  <2>2. cursor = 0 /\ cursor' = 0
    BY <1>2 DEF AllocUnrecorded, Ready
  <2>3. n \in Nat \ {0} /\ k \in DOMAIN free_list /\ n <= FreeBlock(k).size
    BY SizesAssumption, HeadsAssumption, ListTypes DEF FairCallers, FirstFit, FreeBlock, Block
  <2>4. free_list[k] \in FreeSlots /\ FreeSlots \subseteq Slots
    BY <2>3, ListTypes
  <2>5. /\ items'[free_list[k]] = Carve(FreeBlock(k), n)
        /\ \A i \in FreeSlots : i # free_list[k] => items'[i] = items[i]
    BY <2>1, <2>4 DEF TypeOK, FreeBlock
  <2> QED BY <2>1, <2>2, <2>3, <2>5, CarveOrder
<1>3. ASSUME NEW n \in Sizes, AllocFromHead(n) PROVE OrderInv'
  BY <1>3, SizesAssumption, HeadsAssumption DEF AllocFromHead, FairCallers
<1>4. ASSUME NEW h \in held, FreeRecorded(h) PROVE OrderInv'
  BY <1>4, FreeOrder
<1>5. ASSUME NEW h \in held, FreeUnrecorded(h) PROVE OrderInv'
  BY <1>5 DEF FreeUnrecorded, OrderInv, FreeBlock
<1>6. CASE \E p \in Pointers : FreeFromHead(p)
  BY <1>6 DEF FreeFromHead, OrderInv, FreeBlock
<1>7. CASE MergeNext
  BY <1>7, MergeNextOrder
<1>8. CASE MergeAdvance \/ MergeHead
  BY <1>8, MergeAdvanceOrder
<1>9. CASE UNCHANGED vars
  BY <1>9 DEF vars, OrderInv, FreeBlock
<1> QED BY <1>1, <1>2, <1>3, <1>4, <1>5, <1>6, <1>7, <1>8, <1>9 DEF Next

LEMMA OrderInvariance ==
  ASSUME FairCallers, RegionsAscending
  PROVE  Spec => [](TypeOK /\ HeapInv /\ OrderInv)
<1>1. Init => OrderInv
  BY InitOrder
<1>2. OrderInv /\ (TypeOK /\ HeapInv) /\ [Next]_vars => OrderInv'
  BY OrderStep
<1> QED BY <1>1, <1>2, HeapInvariance, PTL DEF Spec

\* Between two free blocks there is a block that is not free.
LEMMA OrderCoalesced ==
  ASSUME TypeOK, HeapInv, OrderInv
  PROVE  Coalesced
<1> SUFFICES ASSUME cursor = 0, NEW j \in DOMAIN free_list, NEW k \in DOMAIN free_list
             PROVE  End(FreeBlock(j)) # FreeBlock(k).start
  BY DEF Coalesced, Ready, FreeBlock
<1>1. /\ FreeBlock(j).start \in Nat /\ End(FreeBlock(j)) \in Nat
      /\ FreeBlock(k).start \in Nat /\ End(FreeBlock(k)) \in Nat
      /\ FreeBlock(j).start < End(FreeBlock(j)) /\ FreeBlock(k).start < End(FreeBlock(k))
      /\ j \in Nat /\ k \in Nat
  BY FreeBlocks
<1>2. CASE j < k
  <2>1. End(FreeBlock(j)) < FreeBlock(k).start
    BY <1>2 DEF OrderInv
  <2> QED BY <1>1, <2>1
<1>3. CASE k < j
  <2>1. End(FreeBlock(k)) < FreeBlock(j).start
    BY <1>3 DEF OrderInv
  <2> QED BY <1>1, <2>1
<1> QED BY <1>1, <1>2, <1>3

\* When memory_free returns no free block touches another one, for every heap up to 512M
\* (one region) and every order of allocations (kernel/memory.c).
THEOREM HeapCoalesced ==
  ASSUME FairCallers, RegionsAscending
  PROVE  Spec => []Coalesced
<1>1. TypeOK /\ HeapInv /\ OrderInv => Coalesced
  BY OrderCoalesced
<1> QED BY <1>1, OrderInvariance, PTL

\* The search of memory_alloc finds a block if there is one that is large enough.
LEMMA FirstFitFinds ==
  ASSUME TypeOK, NEW n \in Nat, FirstFit(n) = {}
  PROVE  \A k \in DOMAIN free_list : items[free_list[k]].size < n
<1> DEFINE T == {k \in DOMAIN free_list : items[free_list[k]].size >= n}
<1>1. \A k \in DOMAIN free_list : items[free_list[k]].size \in Nat /\ k \in Nat
  BY ListTypes DEF Block
<1> SUFFICES ASSUME T # {} PROVE FALSE
  BY <1>1
<1>2. T \subseteq Nat
  BY <1>1
<1>3. PICK x \in T : \A y \in T : <<y, x>> \notin OpToRel(<, Nat)
  BY <1>2, NatLessThanWellFounded, WFMin
<1>4. x \in DOMAIN free_list /\ items[free_list[x]].size >= n /\ x \in Nat
  BY <1>2
<1>5. ASSUME NEW j \in 1..(x - 1) PROVE items[free_list[j]].size < n
  <2> SUFFICES ASSUME ~(items[free_list[j]].size < n) PROVE FALSE
    OBVIOUS
  <2>1. j \in DOMAIN free_list /\ j < x /\ j \in Nat
    BY <1>4, ListTypes
  <2>2. j \in T
    BY <1>1, <2>1
  <2> QED BY <1>2, <1>3, <1>4, <2>1, <2>2 DEF OpToRel
<1>6. x \in FirstFit(n)
  BY <1>4, <1>5 DEF FirstFit
<1> QED BY <1>6

\* memory_alloc fails only when there is no run of free bytes that is long enough, for
\* every heap up to 512M and every order of allocations (kernel/memory.c).
THEOREM HeapNullMeansFull ==
  ASSUME FairCallers, RegionsAscending
  PROVE  Spec => []NullMeansFull
<1>1. TypeOK /\ HeapInv /\ OrderInv => NullMeansFull
  <2> SUFFICES ASSUME TypeOK, HeapInv, Coalesced, Ready, NEW n \in Sizes, FirstFit(n) = {},
                      NEW a \in HeapUnits, a..(a + n - 1) \subseteq FreeUnits
               PROVE  FALSE
    BY OrderCoalesced DEF NullMeansFull
  <2>1. n \in Nat \ {0}
    BY SizesAssumption, HeadsAssumption DEF FairCallers
  <2>2. a \in Int
    <3>1. PICK r \in DOMAIN Regions : a \in Units(Regions[r])
      BY DEF HeapUnits
    <3>2. Regions[r] \in Block
      BY RegionsAssumption, ElementOfSeq, LenProperties
    <3> QED BY <3>1, <3>2 DEF Units, End, Block
  <2>3. ASSUME NEW x \in Int, x >= a, x < a + n
        PROVE  \E k \in DOMAIN free_list :
                 FreeBlock(k).start <= x /\ x < End(FreeBlock(k))
    <3>1. x \in a..(a + n - 1)
      BY <2>1, <2>2, <2>3
    <3>2. x \in FreeUnits
      BY <3>1
    <3>3. PICK k \in DOMAIN free_list : x \in Units(FreeBlock(k))
      BY <3>2 DEF FreeUnits, FreeBlock
    <3>4. FreeBlock(k).start \in Nat /\ End(FreeBlock(k)) \in Nat
      BY FreeBlocks
    <3> QED BY <3>3, <3>4 DEF Units
  <2>4. PICK j \in DOMAIN free_list : FreeBlock(j).start <= a /\ a < End(FreeBlock(j))
    BY <2>1, <2>2, <2>3
  <2>5. FreeBlock(j).start \in Nat /\ End(FreeBlock(j)) \in Nat
    BY FreeBlocks
  <2>6. End(FreeBlock(j)) < a + n
    <3>1. FreeBlock(j).size < n /\ FreeBlock(j) \in Block
      BY <2>1, FirstFitFinds, FreeBlocks DEF FreeBlock
    <3> QED BY <2>1, <2>2, <2>4, <3>1 DEF End, Block
  <2>7. PICK k \in DOMAIN free_list :
          FreeBlock(k).start <= End(FreeBlock(j)) /\ End(FreeBlock(j)) < End(FreeBlock(k))
    BY <2>2, <2>3, <2>4, <2>5, <2>6
  <2>8. FreeBlock(k).start \in Nat /\ End(FreeBlock(k)) \in Nat
    BY FreeBlocks
  <2>9. j # k
    BY <2>5, <2>7
  <2>10. \/ End(FreeBlock(j)) <= FreeBlock(k).start
         \/ End(FreeBlock(k)) <= FreeBlock(j).start
    BY <2>9, FreeBlocks
  <2>11. End(FreeBlock(j)) = FreeBlock(k).start
    BY <2>2, <2>4, <2>5, <2>7, <2>8, <2>10
  <2> QED BY <2>11 DEF Coalesced, FreeBlock
<1> QED BY <1>1, OrderInvariance, PTL

-----------------------------------------------------------------------------
(***************************************************************************)
(* To callers who leave a slot for each record the allocator is            *)
(* AbstractAllocator: memory_alloc takes one run out of the free bytes,    *)
(* memory_free gives exactly that run back, memory_merger changes nothing. *)
(***************************************************************************)

\* Every block has the record memory_free will look for.
AllRecorded == \A h \in held : h.item # Unrecorded

LEMMA FreeUnitsOf ==
  /\ FreeUnits = UNION {Units(items[i]) : i \in FreeSlots}
  /\ FreeUnits' = UNION {Units(items'[i]) : i \in FreeSlots'}
  BY DEF FreeUnits, FreeSlots, Range

\* An interval without its first n members.
LEMMA IntervalTail ==
  ASSUME NEW a \in Nat, NEW s \in Nat, NEW n \in Nat, n <= s
  PROVE  (a + n)..(a + n + (s - n) - 1) = (a..(a + s - 1)) \ (a..(a + n - 1))
  OBVIOUS

\* What memory_alloc takes is free, and the rest of the free memory stays free.
LEMMA CarveUnits ==
  ASSUME TypeOK, HeapInv,
         NEW n \in Nat \ {0}, NEW k \in DOMAIN free_list, n <= items[free_list[k]].size,
         free_list' = ListAfterCarve(k, n),
         items'[free_list[k]] = Carve(items[free_list[k]], n),
         \A i \in FreeSlots : i # free_list[k] => items'[i] = items[i]
  PROVE  LET start == items[free_list[k]].start
         IN  /\ start \in FreeUnits /\ Abstract!Run(start, n) \subseteq FreeUnits
             /\ FreeUnits' = FreeUnits \ Abstract!Run(start, n)
<1> DEFINE b == free_list[k]
           start == items[b].start
           size == items[b].size
           R == start..(start + n - 1)
<1>1. /\ b \in FreeSlots /\ start \in Nat /\ size \in Nat /\ n <= size
      /\ \A i \in FreeSlots : items[i] \in Block /\ items[i].size > 0
  BY ListTypes DEF HeapInv, SlotsInv, Block
<1>2. FreeSlots' = IF size = n THEN FreeSlots \ {b} ELSE FreeSlots
  BY CarveList DEF HeapInv
<1>3. Units(items[b]) = start..(start + size - 1)
  BY <1>1 DEF Units, End
<1>4. R \subseteq Units(items[b]) /\ start \in R
  BY <1>1, <1>3
<1>5. ASSUME NEW i \in FreeSlots, i # b
      PROVE  i \in FreeSlots' /\ items'[i] = items[i] /\ Units(items[i]) \cap R = {}
  <2>1. Apart(items[i], items[b])
    BY <1>1, <1>5 DEF HeapInv, BlocksInv
  <2>2. Units(items[i]) \cap Units(items[b]) = {}
    BY <1>1, <2>1 DEF Apart, Units, End, Block
  <2> QED BY <1>2, <1>4, <1>5, <2>2
<1>6. CASE size = n
  <2>1. R = Units(items[b]) /\ b \notin FreeSlots'
    BY <1>2, <1>3, <1>6
  <2> HIDE DEF R, b
  <2>2. \A i \in FreeSlots' : i \in FreeSlots /\ i # b
    BY <1>2, <1>6
  <2>3. FreeUnits' = FreeUnits \ R
    BY <1>1, <1>5, <2>1, <2>2, FreeUnitsOf
  <2>4. R \subseteq FreeUnits
    BY <1>1, <2>1, FreeUnitsOf
  <2> QED BY <1>4, <2>3, <2>4 DEF R, b, Abstract!Run
<1>7. CASE size # n
  <2>1. items'[b] = [start |-> start + n, size |-> size - n] /\ b \in FreeSlots'
    BY <1>1, <1>2, <1>7 DEF Carve
  <2>2. Units(items'[b]) = (start + n)..(start + n + (size - n) - 1)
    <3> DEFINE left == items'[b]
    <3>1. left.start = start + n /\ left.size = size - n
      BY <2>1
    <3> HIDE DEF left
    <3>2. End(left) - 1 = start + n + (size - n) - 1
      BY <1>1, <3>1 DEF End
    <3> QED BY <3>1, <3>2 DEF Units, left
  <2>3. Units(items'[b]) = Units(items[b]) \ R
    <3> HIDE DEF start, size
    <3> QED BY <1>1, <1>3, <2>2, IntervalTail
  <2> HIDE DEF R, b
  <2>4. FreeSlots' = FreeSlots
    BY <1>2, <1>7
  <2>5. FreeUnits' = FreeUnits \ R
    BY <1>1, <1>5, <2>3, <2>4, FreeUnitsOf
  <2>6. R \subseteq FreeUnits
    BY <1>1, <1>4, FreeUnitsOf
  <2> QED BY <1>4, <2>5, <2>6 DEF R, b, Abstract!Run
<1> QED BY <1>6, <1>7

\* Whenever memory_alloc may be called there is a slot for the record.
SlotLeft == Ready => FirstUnused # {}

\* The blocks callers own, without the slots that record them.
Owned(blocks) == {[start |-> h.start, size |-> h.size] : h \in blocks}

LEMMA OwnedIs ==
  /\ {[start |-> h.start, size |-> h.size] : h \in held} = Owned(held)
  /\ {[start |-> h.start, size |-> h.size] : h \in held'} = Owned(held')
  BY DEF Owned

LEMMA InitRefines == Init => AllRecorded /\ Abstract!Init
<1> SUFFICES ASSUME Init PROVE AllRecorded /\ Abstract!Init
  OBVIOUS
<1>1. /\ Len(Regions) \in Nat /\ Len(Regions) <= NItems /\ NItems \in Nat
      /\ DOMAIN Regions = 1..Len(Regions)
  BY RegionsAssumption, NItemsAssumption, LenProperties
<1>2. /\ DOMAIN free_list = 1..Len(Regions)
      /\ \A i \in 1..Len(Regions) : free_list[i] = i /\ items[i] = Regions[i]
  BY <1>1 DEF Init, Slots
<1>3. FreeUnits = HeapUnits
  BY <1>1, <1>2 DEF FreeUnits, HeapUnits
<1>4. held = {}
  BY DEF Init
<1> QED BY <1>3, <1>4 DEF AllRecorded, Abstract!Init

\* memory_alloc takes one run of n free bytes.
LEMMA AllocRefines ==
  ASSUME TypeOK, HeapInv, FairCallers, AllRecorded, NEW n \in Sizes, AllocRecorded(n)
  PROVE  AllRecorded' /\ Abstract!Alloc(n)
<1>0. n \in Nat \ {0}
  BY SizesAssumption, HeadsAssumption DEF FairCallers
<1>1. PICK k \in FirstFit(n), u \in FirstUnused :
        /\ items' = [items EXCEPT ![u] = [start |-> items[free_list[k]].start, size |-> n],
                                  ![free_list[k]] = Carve(@, n)]
        /\ free_list' = ListAfterCarve(k, n)
        /\ held' = held \cup {[start |-> items[free_list[k]].start, size |-> n, item |-> u]}
  BY DEF AllocRecorded
<1> DEFINE b == free_list[k]
           start == items[b].start
           new == [start |-> start, size |-> n, item |-> u]
<1>2. /\ k \in DOMAIN free_list /\ b \in FreeSlots /\ b \in Slots
      /\ items[b] \in Block /\ n <= items[b].size
  BY <1>0, ListTypes DEF FirstFit, Block
<1>3. u \in Slots /\ u # Unrecorded /\ u \notin FreeSlots /\ u # b
  BY <1>2, ListTypes DEF FirstUnused, HeapInv, SlotsInv, Unrecorded
<1>4. /\ items'[b] = Carve(items[b], n)
      /\ \A i \in FreeSlots : i # b => items'[i] = items[i]
  BY <1>1, <1>2, <1>3, ListTypes DEF TypeOK
<1>5. /\ start \in FreeUnits /\ Abstract!Run(start, n) \subseteq FreeUnits
      /\ FreeUnits' = FreeUnits \ Abstract!Run(start, n)
  BY <1>0, <1>1, <1>2, <1>4, CarveUnits
<1>6. held' = held \cup {new} /\ new.item # Unrecorded
  BY <1>1, <1>3
<1>7. AllRecorded'
  BY <1>6 DEF AllRecorded
<1>8. Owned(held') = Owned(held) \cup {[start |-> start, size |-> n]}
  <2> HIDE DEF start
  <2>1. [start |-> new.start, size |-> new.size] = [start |-> start, size |-> n]
    OBVIOUS
  <2> HIDE DEF new
  <2> QED BY <1>6, <2>1 DEF Owned
<1> HIDE DEF start
<1> QED BY <1>5, <1>7, <1>8, OwnedIs DEF Abstract!Alloc

\* memory_free gives exactly the bytes of the caller's block back.
LEMMA FreeRefines ==
  ASSUME TypeOK, HeapInv, AllRecorded, NEW h \in held, FreeRecorded(h)
  PROVE  /\ AllRecorded'
         /\ [start |-> h.start, size |-> h.size] \in Owned(held)
         /\ Abstract!Free([start |-> h.start, size |-> h.size])
<1> DEFINE block == [start |-> h.start, size |-> h.size]
<1>1. PICK k \in Recorded(h.start), place \in InsertPlace(h.start) :
        free_list' = InsertAt(free_list, place, used_list[k])
  BY DEF FreeRecorded
<1>2. held' = held \ {h} /\ items' = items
  BY DEF FreeRecorded
<1> DEFINE u == used_list[k]
<1>3. k \in 1..Len(used_list) /\ items[u] = block
  BY <1>1, RecordIsOwn
<1>4. u \in Slots /\ u \notin FreeSlots
  BY <1>3, ListTypes DEF HeapInv, SlotsInv
<1>5. FreeSlots' = FreeSlots \cup {u}
  <2>1. /\ free_list \in Seq(Slots) /\ IsInjective(free_list)
        /\ u \notin Range(free_list) /\ place \in 1..(Len(free_list) + 1)
    BY <1>4 DEF TypeOK, HeapInv, SlotsInv, FreeSlots, InsertPlace
  <2>2. Range(InsertAt(free_list, place, u)) = Range(free_list) \cup {u}
    BY <1>4, <2>1, InsertAtRange
  <2> QED BY <1>1, <2>2 DEF FreeSlots
<1>6. Units(items[u]) = Abstract!Run(block.start, block.size)
  <2>1. /\ items[u].start = block.start /\ items[u].size = block.size
        /\ block.start \in Nat /\ block.size \in Nat
    BY <1>3 DEF TypeOK, Held
  <2> HIDE DEF u, block
  <2> QED BY <2>1 DEF Units, End, Abstract!Run
<1>7. FreeUnits' = FreeUnits \cup Abstract!Run(block.start, block.size)
  <2> HIDE DEF u, block
  <2> QED BY <1>2, <1>5, <1>6, FreeUnitsOf
<1>8. \A g \in held : g # h => [start |-> g.start, size |-> g.size] # block
  <2> SUFFICES ASSUME NEW g \in held, g # h, g.start = h.start PROVE FALSE
    OBVIOUS
  <2>1. Apart(g, h) /\ g.size > 0 /\ h.size > 0
    BY DEF HeapInv, BlocksInv, RecordsInv
  <2>2. g \in Held /\ h \in Held
    BY DEF TypeOK
  <2> QED BY <2>1, <2>2 DEF Apart, End, Held
<1>9. Owned(held') = Owned(held) \ {block} /\ block \in Owned(held)
  <2> HIDE DEF block
  <2>1. block = [start |-> h.start, size |-> h.size]
    BY DEF block
  <2> QED BY <1>2, <1>8, <2>1 DEF Owned
<1>10. AllRecorded'
  BY <1>2 DEF AllRecorded
<1> HIDE DEF block
<1> QED BY <1>7, <1>9, <1>10, OwnedIs DEF Abstract!Free, block

\* memory_merger neither gains nor loses a free byte.
LEMMA MergeRefines ==
  ASSUME TypeOK, HeapInv, MergeNext
  PROVE  FreeUnits' = FreeUnits
<1> DEFINE b == free_list[cursor]
           next == free_list[cursor + 1]
<1>1. /\ b \in FreeSlots /\ next \in FreeSlots /\ b # next
      /\ items[b] \in Block /\ items[next] \in Block
      /\ End(items[b]) = items[next].start
      /\ items'[b] = [start |-> items[b].start, size |-> items[b].size + items[next].size]
      /\ \A i \in Slots : i # b /\ i # next => items'[i] = items[i]
      /\ FreeSlots' = FreeSlots \ {next}
  BY MergeEffect
<1>2. FreeSlots \subseteq Slots
  BY ListTypes
<1> HIDE DEF b, next
<1>3. Units(items'[b]) = Units(items[b]) \cup Units(items[next])
  <2>1. /\ items[b].start \in Nat /\ items[b].size \in Nat /\ items[next].size \in Nat
        /\ items[b].start + items[b].size = items[next].start
    BY <1>1 DEF Block, End
  <2>2. /\ items'[b].start = items[b].start
        /\ items'[b].size = items[b].size + items[next].size
    BY <1>1
  <2> QED BY <2>1, <2>2 DEF Units, End
<1>4. ASSUME NEW x PROVE x \in FreeUnits' <=> x \in FreeUnits
  <2>1. ASSUME NEW i \in FreeSlots', x \in Units(items'[i]) PROVE x \in FreeUnits
    <3>1. CASE i = b
      BY <1>1, <1>3, <2>1, <3>1, FreeUnitsOf
    <3>2. CASE i # b
      BY <1>1, <1>2, <2>1, <3>2, FreeUnitsOf
    <3> QED BY <3>1, <3>2
  <2>2. ASSUME NEW i \in FreeSlots, x \in Units(items[i]) PROVE x \in FreeUnits'
    <3>1. CASE i = b \/ i = next
      BY <1>1, <1>3, <2>2, <3>1, FreeUnitsOf
    <3>2. CASE i # b /\ i # next
      BY <1>1, <1>2, <2>2, <3>2, FreeUnitsOf
    <3> QED BY <3>1, <3>2
  <2> QED BY <2>1, <2>2, FreeUnitsOf
<1> QED BY <1>4

\* Each step of the allocator is one of AbstractAllocator, or changes nothing its callers see.
LEMMA StepRefines ==
  ASSUME TypeOK, HeapInv, FairCallers, AllRecorded, SlotLeft, [Next]_vars
  PROVE  AllRecorded' /\ [Abstract!Next]_(Abstract!vars)
<1>1. ASSUME NEW n \in Sizes, AllocRecorded(n)
      PROVE  AllRecorded' /\ [Abstract!Next]_(Abstract!vars)
  BY <1>1, AllocRefines DEF Abstract!Next
<1>2. ASSUME NEW n \in Sizes, AllocUnrecorded(n) PROVE FALSE
  BY <1>2 DEF AllocUnrecorded, SlotLeft
<1>3. ASSUME NEW n \in Sizes, AllocFromHead(n) PROVE FALSE
  BY <1>3, SizesAssumption, HeadsAssumption DEF AllocFromHead, FairCallers
<1>4. ASSUME NEW h \in held, FreeRecorded(h)
      PROVE  AllRecorded' /\ [Abstract!Next]_(Abstract!vars)
  BY <1>4, FreeRefines, OwnedIs DEF Abstract!Next
<1>5. ASSUME NEW h \in held, FreeUnrecorded(h) PROVE FALSE
  <2>1. /\ h.item \in UsedSlots
        /\ items[h.item] = [start |-> h.start, size |-> h.size]
    BY DEF AllRecorded, HeapInv, RecordsInv
  <2>2. items[h.item].start = h.start
    BY <2>1
  <2> QED BY <1>5, <2>1, <2>2, ListTypes DEF FreeUnrecorded
<1>7. CASE MergeNext
  <2>1. held' = held
    BY <1>7 DEF MergeNext
  <2> QED BY <1>7, <2>1, MergeRefines DEF AllRecorded, Abstract!vars
<1>8. CASE MergeAdvance \/ MergeHead \/ (\E p \in Pointers : FreeFromHead(p)) \/ UNCHANGED vars
  <2>1. held' = held /\ items' = items /\ free_list' = free_list
    BY <1>8 DEF MergeAdvance, MergeHead, FreeFromHead, vars
  <2>2. FreeUnits' = FreeUnits
    BY <2>1 DEF FreeUnits
  <2> QED BY <2>1, <2>2 DEF AllRecorded, Abstract!vars
<1> QED BY <1>1, <1>2, <1>3, <1>4, <1>5, <1>7, <1>8 DEF Next

\* To callers who leave a slot for each record memory_alloc and memory_free are the
\* abstract allocator: no byte is lost, none is given back twice or to two owners.
THEOREM HeapRefines ==
  ASSUME FairCallers
  PROVE  Spec /\ []SlotLeft => RefinesAllocator
<1>1. Init => AllRecorded /\ Abstract!Init
  BY InitRefines
<1>2. TypeOK /\ HeapInv /\ AllRecorded /\ SlotLeft /\ [Next]_vars
        => AllRecorded' /\ [Abstract!Next]_(Abstract!vars)
  BY StepRefines
<1> QED BY <1>1, <1>2, HeapInvariance, PTL DEF Spec, RefinesAllocator, Abstract!Spec

-----------------------------------------------------------------------------
(***************************************************************************)
(* How memory_merger comes to its end.                                     *)
(***************************************************************************)

\* The number of free blocks from the one memory_merger has come to
BlocksLeft == IF cursor = 0 THEN 0 ELSE Len(free_list) + 1 - cursor

\* An iteration of memory_merger leaves one block less before it, whether it merges the
\* next block or goes on to it, and no other function runs in between.
NearerEnd == cursor # 0 => BlocksLeft \in Nat /\ BlocksLeft' \in Nat /\ BlocksLeft' < BlocksLeft

\* memory_free gets nearer to its return with every iteration of memory_merger
\* (src/kernel/memory.c:193): for every number of slots, layout and set of sizes.
THEOREM MergerNearsEnd ==
  ASSUME FairCallers
  PROVE  Spec => [][NearerEnd]_vars
<1>1. TypeOK /\ [Next]_vars => [NearerEnd]_vars
  <2> SUFFICES ASSUME TypeOK, Next, cursor # 0
               PROVE  BlocksLeft \in Nat /\ BlocksLeft' \in Nat /\ BlocksLeft' < BlocksLeft
    BY DEF NearerEnd
  <2>1. cursor \in 1..Len(free_list) /\ Len(free_list) \in Nat
    BY DEF TypeOK
  <2>2. CASE MergeNext
    <3>1. /\ cursor < Len(free_list) /\ cursor' = cursor
          /\ free_list' = RemoveAt(free_list, cursor + 1)
      BY <2>2 DEF MergeNext
    <3>2. Len(free_list') = Len(free_list) - 1
      BY <2>1, <3>1, RemoveAtProps DEF TypeOK
    <3> QED BY <2>1, <3>1, <3>2 DEF BlocksLeft
  <2>3. CASE MergeAdvance
    <3>1. /\ free_list' = free_list
          /\ cursor' = IF cursor < Len(free_list) THEN cursor + 1 ELSE 0
      BY <2>3 DEF MergeAdvance
    <3> QED BY <2>1, <3>1 DEF BlocksLeft
  <2>4. CASE MergeHead
    BY <2>1, <2>4 DEF MergeHead, BlocksLeft
  <2> QED BY <2>2, <2>3, <2>4 DEF Next, Ready, AllocRecorded, AllocUnrecorded, AllocFromHead,
              FreeRecorded, FreeUnrecorded, FreeFromHead
<1> QED BY <1>1, TypeCorrect, PTL DEF Spec

-----------------------------------------------------------------------------
(***************************************************************************)
(* The list heads are not taken for items.                                 *)
(***************************************************************************)

\* What lies behind the heads is no address of the heap: a pointer into the kernel's image,
\* say, which lies below it; and it is not 0 if callers free NULL.
HeadsInImage ==
  \A s \in HeadStarts : (s = 0 => ~FreesNull) /\ \A r \in DOMAIN Regions : s < Regions[r].start

\* Every block, free or not, with or without a record, lies above the heads' numbers.
AboveHeads ==
  \A s \in HeadStarts :
    /\ \A i \in Slots : items[i].start = 0 \/ s < items[i].start
    /\ \A h \in held : s < h.start

LEMMA CarveAbove ==
  ASSUME TypeOK, HeapInv, AboveHeads, NEW n \in Nat, NEW k \in FirstFit(n), NEW s \in HeadStarts
  PROVE  /\ free_list[k] \in Slots /\ s < items[free_list[k]].start
         /\ Carve(items[free_list[k]], n).start = 0 \/ s < Carve(items[free_list[k]], n).start
<1> DEFINE b == free_list[k]
<1>1. b \in FreeSlots /\ b \in Slots /\ items[b] \in Block /\ s \in Nat
  BY ListTypes, HeadsAssumption DEF FirstFit
<1>2. items[b].start > 0 /\ items[b].start \in Nat
  BY <1>1 DEF HeapInv, SlotsInv, Block
<1>3. s < items[b].start
  BY <1>1, <1>2 DEF AboveHeads
<1>4. Carve(items[b], n).start = 0 \/ Carve(items[b], n).start = items[b].start + n
  BY DEF Carve, Unused
<1> QED BY <1>1, <1>2, <1>3, <1>4

LEMMA AboveStep ==
  ASSUME FairCallers, HeadsInImage, TypeOK, HeapInv, AboveHeads, ~head_taken, [Next]_vars
  PROVE  AboveHeads' /\ ~head_taken'
<1>0. \A n \in Sizes : n \in Nat
  BY SizesAssumption
<1>1. ASSUME NEW n \in Sizes, AllocRecorded(n) PROVE AboveHeads' /\ ~head_taken'
  <2>1. PICK k \in FirstFit(n), u \in FirstUnused :
          /\ items' = [items EXCEPT ![u] = [start |-> items[free_list[k]].start, size |-> n],
                                    ![free_list[k]] = Carve(@, n)]
          /\ held' = held \cup {[start |-> items[free_list[k]].start, size |-> n, item |-> u]}
          /\ head_taken' = head_taken
    BY <1>1 DEF AllocRecorded
  <2> DEFINE b == free_list[k]
  <2>2. u \in Slots /\ b \in Slots /\ b # u
    <3>1. u \in Slots /\ items[u].start = 0
      BY DEF FirstUnused
    <3>2. b \in FreeSlots /\ b \in Slots
      BY ListTypes DEF FirstFit
    <3> QED BY <3>1, <3>2 DEF HeapInv, SlotsInv
  <2>3. /\ items'[b] = Carve(items[b], n) /\ items'[u].start = items[b].start
        /\ \A i \in Slots : i # b /\ i # u => items'[i] = items[i]
    BY <2>1, <2>2 DEF TypeOK
  <2>4. ASSUME NEW s \in HeadStarts
        PROVE  /\ \A i \in Slots : items'[i].start = 0 \/ s < items'[i].start
               /\ \A h \in held' : s < h.start
    <3>1. s < items[b].start /\ (Carve(items[b], n).start = 0 \/ s < Carve(items[b], n).start)
      BY <1>0, CarveAbove
    <3>2. \A i \in Slots : items'[i].start = 0 \/ s < items'[i].start
      BY <2>3, <3>1 DEF AboveHeads
    <3>3. \A h \in held' : s < h.start
      BY <2>1, <3>1 DEF AboveHeads
    <3> QED BY <3>2, <3>3
  <2> QED BY <2>1, <2>4 DEF AboveHeads
<1>2. ASSUME NEW n \in Sizes, AllocUnrecorded(n) PROVE AboveHeads' /\ ~head_taken'
  <2>1. PICK k \in FirstFit(n) :
          /\ items' = [items EXCEPT ![free_list[k]] = Carve(@, n)]
          /\ held' = held \cup {[start |-> items[free_list[k]].start, size |-> n,
                                 item |-> Unrecorded]}
          /\ head_taken' = head_taken
    BY <1>2 DEF AllocUnrecorded
  <2> DEFINE b == free_list[k]
  <2>2. b \in Slots
    BY ListTypes DEF FirstFit
  <2>3. /\ items'[b] = Carve(items[b], n)
        /\ \A i \in Slots : i # b => items'[i] = items[i]
    BY <2>1, <2>2 DEF TypeOK
  <2>4. ASSUME NEW s \in HeadStarts
        PROVE  /\ \A i \in Slots : items'[i].start = 0 \/ s < items'[i].start
               /\ \A h \in held' : s < h.start
    <3>1. s < items[b].start /\ (Carve(items[b], n).start = 0 \/ s < Carve(items[b], n).start)
      BY <1>0, CarveAbove
    <3>2. \A i \in Slots : items'[i].start = 0 \/ s < items'[i].start
      BY <2>3, <3>1 DEF AboveHeads
    <3>3. \A h \in held' : s < h.start
      BY <2>1, <3>1 DEF AboveHeads
    <3> QED BY <3>2, <3>3
  <2> QED BY <2>1, <2>4 DEF AboveHeads
<1>3. ASSUME NEW n \in Sizes, AllocFromHead(n) PROVE FALSE
  BY <1>3, SizesAssumption, HeadsAssumption DEF AllocFromHead, FairCallers
<1>4. ASSUME NEW h \in held, FreeRecorded(h) \/ FreeUnrecorded(h)
      PROVE  AboveHeads' /\ ~head_taken'
  <2>1. items' = items /\ held' \subseteq held /\ head_taken' = head_taken
    BY <1>4 DEF FreeRecorded, FreeUnrecorded
  <2> QED BY <2>1 DEF AboveHeads
<1>5. ASSUME NEW p \in Pointers, FreeFromHead(p) PROVE FALSE
  <2>1. p \in HeadStarts /\ p \in Nat
    BY <1>5, HeadsAssumption DEF FreeFromHead
  <2>2. CASE p = 0
    <3>1. \A h \in held : h.start # p
      BY <2>1 DEF AboveHeads
    <3> QED BY <2>1, <2>2, <3>1 DEF Pointers, HeadsInImage
  <2>3. CASE p # 0
    <3>1. PICK h \in held : p = h.start
      BY <2>3 DEF Pointers
    <3> QED BY <2>1, <3>1 DEF AboveHeads
  <2> QED BY <2>2, <2>3
<1>6. CASE MergeNext
  <2> DEFINE b == free_list[cursor]
             c == free_list[cursor + 1]
  <2>1. /\ items' = [items EXCEPT ![b].size = @ + items[c].size, ![c] = Unused]
        /\ held' = held /\ head_taken' = head_taken
        /\ cursor # 0 /\ cursor < Len(free_list)
    BY <1>6 DEF MergeNext
  <2>2. b \in Slots /\ c \in Slots
    <3>1. cursor \in DOMAIN free_list /\ cursor + 1 \in DOMAIN free_list
      BY <2>1, ListTypes DEF TypeOK
    <3> QED BY <3>1, ListTypes
  <2> HIDE DEF b, c
  <2>3. \A i \in Slots : items'[i].start = 0 \/ items'[i].start = items[i].start
    <3>1. Unused.start = 0
      BY DEF Unused
    <3>2. \A i \in Slots : items[i] \in Block
      BY ListTypes
    <3> QED BY <2>1, <2>2, <3>1, <3>2 DEF TypeOK, Block
  <2> QED BY <2>1, <2>3 DEF AboveHeads
<1>7. CASE MergeAdvance \/ UNCHANGED vars
  <2>1. items' = items /\ held' = held /\ head_taken' = head_taken
    BY <1>7 DEF MergeAdvance, vars
  <2> QED BY <2>1 DEF AboveHeads
<1>8. CASE MergeHead
  <2> DEFINE b == free_list[cursor]
  <2>1. cursor # 0 /\ cursor = Len(free_list) /\ End(items[b]) \in HeadStarts
    BY <1>8 DEF MergeHead
  <2>2. b \in FreeSlots /\ b \in Slots /\ items[b] \in Block
    <3>1. cursor \in DOMAIN free_list
      BY <2>1, ListTypes
    <3> QED BY <3>1, ListTypes
  <2> HIDE DEF b
  <2>3. items[b].start > 0 /\ items[b].start \in Nat /\ items[b].size \in Nat
    BY <2>2 DEF HeapInv, SlotsInv, Block
  <2>4. End(items[b]) < items[b].start
    BY <2>1, <2>2, <2>3 DEF AboveHeads
  <2> QED BY <2>3, <2>4 DEF End
<1> QED BY <1>1, <1>2, <1>3, <1>4, <1>5, <1>6, <1>7, <1>8 DEF Next

\* memory_alloc, memory_free and memory_merger never take a list head for an item, whatever
\* they are asked for and however full the heap and its table are, if requests are larger
\* than what reads as the size of free_list's head, and what reads as start of a head lies
\* below the heap (src/kernel/memory.c:110, :153, :199).
THEOREM HeadsLeftAlone ==
  ASSUME FairCallers, HeadsInImage
  PROVE  Spec => []~head_taken
<1>1. Init => AboveHeads /\ ~head_taken
  <2> SUFFICES ASSUME Init PROVE AboveHeads /\ ~head_taken
    OBVIOUS
  <2>1. held = {} /\ ~head_taken
    BY DEF Init
  <2>2. ASSUME NEW s \in HeadStarts, NEW i \in Slots
        PROVE  items[i].start = 0 \/ s < items[i].start
    <3>1. items[i] = IF i <= Len(Regions) THEN Regions[i] ELSE Unused
      BY DEF Init
    <3>2. i <= Len(Regions) => i \in DOMAIN Regions
      BY RegionsAssumption, NItemsAssumption DEF Slots
    <3>3. Unused.start = 0
      BY DEF Unused
    <3> QED BY <3>1, <3>2, <3>3 DEF HeadsInImage
  <2> QED BY <2>1, <2>2 DEF AboveHeads
<1>2. TypeOK /\ HeapInv /\ AboveHeads /\ ~head_taken /\ [Next]_vars => AboveHeads' /\ ~head_taken'
  BY AboveStep
<1> QED BY <1>1, <1>2, HeapInvariance, PTL DEF Spec
=============================================================================
