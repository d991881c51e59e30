-------------------------------- MODULE Buddy --------------------------------
(***************************************************************************)
(* The buddy allocator of page frames, kernel/page/phypage.c.              *)
(*                                                                         *)
(* A page is the index of its descriptor.  free_area[k] lists the first    *)
(* pages of the free blocks of 2^k pages; a descriptor says whether its    *)
(* block is in use (PG_BUSY) and how large it is (private).  buddy_init    *)
(* writes only the descriptors of the largest blocks, so all others start  *)
(* with whatever the memory held.                                          *)
(*                                                                         *)
(* The loops of page_alloc and page_free are given by their effect: the    *)
(* k-th pass of either touches only free_area[k] and the block split off   *)
(* or merged at that order, and no pass reads what an earlier one wrote.   *)
(***************************************************************************)
EXTENDS Integers, Sequences, FiniteSets, SequencesExt

CONSTANTS MaxOrder,   \* order of the largest blocks (10)
          Pow2,       \* 1 << k, for each order k
          PageCount,  \* zone.page_count
          DescOrder,  \* order of the block buddy_init takes for the descriptors
          JunkBusy,   \* the pages whose unwritten descriptor may read as busy
          JunkOrders, \* what private of an unwritten descriptor may read
          PageOrders, \* orders callers of page_alloc ask for
          SysSizes    \* numbers of pages callers of alloc ask for

Orders == 0..MaxOrder

BIGGEST_SIZE == Pow2[MaxOrder]

\* The number of largest blocks buddy_init links; their descriptors are base[0],
\* base[1], ..., not BIGGEST_SIZE apart.
BiggestCount == PageCount \div BIGGEST_SIZE + 1

\* The descriptors buddy_init links as largest blocks.
TopPages == 0..(BiggestCount - 1)

\* Every descriptor a block or the buddy of one may have.
Pages == 0..(BiggestCount * BIGGEST_SIZE - 1)

\* What Page_To_Addr(NULL) is taken for by the caller of alloc.
NoPage == -1

ASSUME MaxOrderAssumption == MaxOrder \in Nat
ASSUME Pow2Assumption ==
  /\ Pow2 \in [Orders -> Nat]
  /\ Pow2[0] = 1
  /\ \A k \in 1..MaxOrder : Pow2[k] = 2 * Pow2[k - 1]
ASSUME CountAssumption == PageCount \in Nat /\ BiggestCount <= BIGGEST_SIZE
ASSUME OrdersAssumption ==
  DescOrder \in Orders /\ PageOrders \subseteq Orders /\ JunkOrders \subseteq Nat
ASSUME JunkAssumption == JunkBusy \subseteq SUBSET Pages
ASSUME SysSizesAssumption == SysSizes \subseteq 1..BIGGEST_SIZE

VARIABLES free_area,  \* the lists, first block first
          nr_free,    \* their counters
          free_pages, \* zone.free_pages
          busy,       \* the pages whose descriptor has PG_BUSY set
          private,    \* the descriptors' private
          booted,     \* buddy_init has taken the block for the descriptors
          wild,       \* list_unlink was called for a descriptor on no list
          reserved,   \* ghost: the block buddy_init took
          held        \* ghost: the blocks callers own

zone == <<free_area, nr_free, free_pages, busy, private, wild>>
vars == <<zone, booted, reserved, held>>

\* A block somebody owns; sys: it was given out as an address, by alloc.
Owned == [page : Pages \cup {NoPage}, order : Orders, sys : BOOLEAN]

Listed(k) == Range(free_area[k])

-----------------------------------------------------------------------------

\* buddy_init up to its call of page_alloc.
Init ==
  /\ free_area = [k \in Orders |->
                    IF k = MaxOrder THEN [i \in 1..BiggestCount |-> i - 1] ELSE <<>>]
  /\ nr_free = [k \in Orders |-> 0]
  /\ free_pages = BiggestCount * BIGGEST_SIZE
  /\ busy \in JunkBusy
  /\ \E junk \in JunkOrders :
       private = [p \in Pages |-> IF p \in TopPages THEN BIGGEST_SIZE ELSE junk]
  /\ booted = FALSE
  /\ wild = FALSE
  /\ reserved = {}
  /\ held = {}

\* page_search: the smallest order with a free block, if there is one.
PageSearch(order) ==
  {k \in order..MaxOrder :
     free_area[k] # <<>> /\ \A j \in order..(k - 1) : free_area[j] = <<>>}

\* page_alloc: page becomes the start of a block of this order.  It is split off a
\* block of order curr, whose upper halves are put on the lists in between; private
\* of page keeps curr.
PageAlloc(order, page) ==
  \E curr \in PageSearch(order) :
    LET Split == order..(curr - 1)
        Half(k) == page + Pow2[k]
    IN  /\ page = Head(free_area[curr])
        /\ free_area' = [k \in Orders |->
                           IF k = curr THEN Tail(free_area[k])
                           ELSE IF k \in Split THEN <<Half(k)>> \o free_area[k]
                           ELSE free_area[k]]
        /\ nr_free' = [k \in Orders |->
                         IF k = curr THEN nr_free[k] - 1
                         ELSE IF k \in Split THEN nr_free[k] + 1
                         ELSE nr_free[k]]
        /\ free_pages' = free_pages - Pow2[order]
        /\ busy' = busy \cup {page}
        /\ private' = [p \in Pages |->
                         IF p = page THEN curr
                         ELSE IF \E k \in Split : p = Half(k)
                              THEN CHOOSE k \in Split : p = Half(k)
                         ELSE private[p]]
        /\ UNCHANGED wild

\* page ^ (1 << k)
BuddyOf(page, k) ==
  IF (page \div Pow2[k]) % 2 = 0 THEN page + Pow2[k] ELSE page - Pow2[k]

\* A faulty MergedPage: the merged block keeps the index of the freed one.
MergedPageUnmoved(page, order, k) == page

\* page with the bits from order up to k - 1 cleared, page_idx after those merges
MergedPage(page, order, k) == page - (page % Pow2[k]) + (page % Pow2[order])

\* A faulty PageIsBuddy that does not look at PG_BUSY.
PageIsBuddyInUse(page, k) == private[page] = k

\* page_is_buddy
PageIsBuddy(page, k) == private[page] = k /\ page \notin busy

\* The order of the block that page_free(page, order) ends up with.
MergedOrder(page, order) ==
  CHOOSE m \in order..MaxOrder :
    /\ \A k \in order..(m - 1) : PageIsBuddy(BuddyOf(MergedPage(page, order, k), k), k)
    /\ m < MaxOrder => ~PageIsBuddy(BuddyOf(MergedPage(page, order, m), m), m)

\* A faulty Unlink: the merged buddy stays on its list.
UnlinkNothing(s, x) == s

\* list_unlink: the sequence s without the node x.
Unlink(s, x) == IF x \in Range(s) THEN RemoveAt(s, CHOOSE i \in DOMAIN s : s[i] = x) ELSE s

\* page_free: free buddies are merged into the block, order by order.
PageFree(page, order) ==
  LET m == MergedOrder(page, order)
      Merged == order..(m - 1)
      Buddy(k) == BuddyOf(MergedPage(page, order, k), k)
      Buddies == {Buddy(k) : k \in Merged}
      coalesced == MergedPage(page, order, m)
  IN  /\ free_area' = [k \in Orders |->
                         IF k \in Merged THEN Unlink(free_area[k], Buddy(k))
                         ELSE IF k = m THEN <<coalesced>> \o free_area[k]
                         ELSE free_area[k]]
      /\ nr_free' = [k \in Orders |->
                       IF k \in Merged THEN nr_free[k] - 1
                       ELSE IF k = m THEN nr_free[k] + 1
                       ELSE nr_free[k]]
      /\ free_pages' = free_pages + Pow2[order]
      /\ busy' = busy \ (Buddies \cup {coalesced})
      /\ private' = [p \in Pages |->
                       IF p = coalesced THEN m
                       ELSE IF p \in Buddies THEN 0
                       ELSE private[p]]
      /\ wild' = (wild \/ \E k \in Merged : Buddy(k) \notin Listed(k))

\* The block buddy_init takes for the descriptors; nobody gives it back.
Reserve ==
  /\ ~booted
  /\ \E page \in Pages :
       PageAlloc(DescOrder, page) /\ reserved' = {[page |-> page, order |-> DescOrder]}
  /\ booted' = TRUE
  /\ UNCHANGED held

\* A caller of page_alloc gets a descriptor, or NULL and nothing happens.
AllocPages(order) ==
  /\ booted
  /\ \E page \in Pages :
       /\ PageAlloc(order, page)
       /\ held' = held \cup {[page |-> page, order |-> order, sys |-> FALSE]}
  /\ UNCHANGED <<booted, reserved>>

FreePages(b) ==
  /\ ~b.sys
  /\ PageFree(b.page, b.order)
  /\ held' = held \ {b}
  /\ UNCHANGED <<booted, reserved>>

\* PagesToOrder
PagesToOrder(pages) ==
  CHOOSE k \in Orders : pages <= Pow2[k] /\ \A j \in 0..(k - 1) : Pow2[j] < pages

\* alloc: the address of the block page_alloc finds.
SysAlloc(pages) ==
  /\ booted
  /\ \E page \in Pages :
       /\ PageAlloc(PagesToOrder(pages), page)
       /\ held' = held \cup {[page |-> page, order |-> PagesToOrder(pages), sys |-> TRUE]}
  /\ UNCHANGED <<booted, reserved>>

\* alloc when page_alloc returns NULL: NULL is converted to an address like any
\* descriptor.
SysAllocNull(pages) ==
  /\ booted
  /\ PageSearch(PagesToOrder(pages)) = {}
  /\ held' = held \cup {[page |-> NoPage, order |-> PagesToOrder(pages), sys |-> TRUE]}
  /\ UNCHANGED <<zone, booted, reserved>>

\* free: the size of the block is what private of its first page says.
SysFree(b) ==
  /\ b.sys
  /\ b.page # NoPage
  /\ PageFree(b.page, private[b.page])
  /\ held' = held \ {b}
  /\ UNCHANGED <<booted, reserved>>

Next ==
  \/ Reserve
  \/ \E order \in PageOrders : AllocPages(order)
  \/ \E pages \in SysSizes : SysAlloc(pages) \/ SysAllocNull(pages)
  \/ \E b \in held : FreePages(b) \/ SysFree(b)

Spec == Init /\ [][Next]_vars

-----------------------------------------------------------------------------

\* The shape of the zone: every page a list, a descriptor or an owner names has a
\* descriptor, for all that BuddyOf and the merging compute.
TypeOK ==
  /\ free_area \in [Orders -> Seq(Pages)]
  /\ nr_free \in [Orders -> Int]
  /\ free_pages \in Int
  /\ busy \subseteq Pages
  /\ private \in [Pages -> Nat]
  /\ booted \in BOOLEAN
  /\ wild \in BOOLEAN
  /\ reserved \subseteq [page : Pages, order : Orders]
  /\ held \subseteq Owned

\* The blocks on the lists, and those with an owner, buddy_init's among them.  The
\* NULL that alloc took for a descriptor is no block.
FreeBlocks == UNION {{[page |-> p, order |-> k] : p \in Listed(k)} : k \in Orders}
OwnedBlocks ==
  reserved \cup {[page |-> b.page, order |-> b.order] : b \in {h \in held : h.page # NoPage}}

PagesOf(b) == b.page..(b.page + Pow2[b.order] - 1)
FreePageSet == UNION {PagesOf(b) : b \in FreeBlocks}
OwnedPageSet == UNION {PagesOf(b) : b \in OwnedBlocks}
ZonePages == UNION {p..(p + BIGGEST_SIZE - 1) : p \in TopPages}

\* No page frame belongs to two blocks, be they free or owned, whatever the order in
\* which blocks are split and merged and whatever the descriptors held at boot.
NoSharedPage ==
  /\ FreeBlocks \cap OwnedBlocks = {}
  /\ \A a, b \in FreeBlocks \cup OwnedBlocks :
       a # b => PagesOf(a) \cap PagesOf(b) = {}

\* Splitting and merging lose no page frame: together the free and the owned blocks are
\* what buddy_init started from, and zone.free_pages is the number of pages on the lists.
\* A merge unlinks only blocks that are on the list of its order: page_is_buddy is never
\* deceived by a descriptor that is not the first of a free block.
PagesConserved ==
  /\ TypeOK
  /\ FreePageSet \cup OwnedPageSet = ZonePages
  /\ free_pages = Cardinality(FreePageSet)
  /\ ~wild

\* To callers that give a block back with the order they took it with the zone is
\* AbstractAllocator: splitting and merging are not seen.
Abstract == INSTANCE AbstractAllocator
              WITH Space <- ZonePages,
                   Sizes <- {Pow2[k] : k \in Orders},
                   free <- FreePageSet,
                   owned <- {[start |-> b.page, size |-> Pow2[b.order]] : b \in OwnedBlocks}
RefinesAllocator == Abstract!Spec

-----------------------------------------------------------------------------
(***************************************************************************)
(* The inductive invariant behind NoSharedPage, PagesConserved and         *)
(* RefinesAllocator (proved in BuddyProof), for a zone of less than one    *)
(* largest block and as long as alloc's blocks come back with their order. *)
(***************************************************************************)

\* What free relies on: private of a block that alloc gave out is still its order.
RightOrders == \A b \in held : (b.sys /\ b.page # NoPage) => private[b.page] = b.order

AllBlocks == FreeBlocks \cup OwnedBlocks

\* Blocks begin where blocks of their size may, so that either of two blocks lies within
\* the other or they are apart; and they leave no gap.
TilingInv ==
  /\ \A b \in AllBlocks : b.page % Pow2[b.order] = 0 /\ PagesOf(b) \subseteq Pages
  /\ \A p \in Pages : \E b \in AllBlocks : p \in PagesOf(b)

\* No descriptor is linked twice, no block has two owners, and only alloc takes NULL for
\* a block.
OnceInv ==
  /\ \A k \in Orders : IsInjective(free_area[k])
  /\ \A g, h \in held : (g.page = h.page /\ g.page # NoPage) => g = h
  /\ \A r \in reserved, h \in held : r.page # h.page
  /\ \A h \in held : h.page = NoPage => h.sys

\* The descriptors that page_is_buddy may look at were all written: buddies within a
\* larger block, whose descriptors hold anything, are never asked for.
DescriptorsInv ==
  /\ booted => \A b \in FreeBlocks : private[b.page] = b.order
  /\ \A b \in OwnedBlocks : b.page \in busy
  /\ ~booted => /\ FreeBlocks = {[page |-> p, order |-> MaxOrder] : p \in TopPages}
                /\ reserved = {} /\ held = {}

\* What page_alloc and page_free keep: the blocks tile the zone, and the descriptors of
\* their first pages, and only those, say what they are.
BuddyInv == PagesConserved /\ NoSharedPage /\ TilingInv /\ OnceInv /\ DescriptorsInv
=============================================================================
