# GreenLeafOS 0.02: formal models

TLA+ models of the kernel's data structures and memory management, the TLC runs that
check them on small instances, and TLAPS proofs of what matters most for every
instance.  `PROJECT.json` lists the runs, the source lines behind each definition,
the known hazards and the theorems.

- [The system](#the-system)
- [Modules](#modules)
- [Runs](#runs)
- [Proofs](#proofs)
- [Where the code and its comments part](#where-the-code-and-its-comments-part)
- [What is not modelled](#what-is-not-modelled)
- [Plan](#plan)

## The system

GreenLeafOS is a 32-bit x86 kernel that boots, sets up memory and stops in `hlt`
(`kernel/start.s`): `memory_init`, `arch_init`, `page_init`, halt.  The boot loader
disables interrupts (`boot/loader.s:175`), nobody enables them and the interrupt table
is never loaded (`kernel/arch/irq.c:56` is commented out).  So the functions of the
kernel run one at a time, each to its end; what is hard about most of them is not
interleaving but long sequences of calls, state in the pointers and descriptors that
earlier calls left behind, and limits.  The exceptions are the parts written for
interrupts: the entry stubs and the mask functions, the atomic data and the ring queue.
They are modelled as they are written, with interrupts that do come.

| Component | State | Operations | Used by | What makes it correct |
|---|---|---|---|---|
| Lists, `lib/list.c` | `prev`, `next` of heads and nodes | init, add, addtail, insert, unlink, delete, search, empty | heap, pages, linear spaces | a list is a ring of its own nodes, whatever happens to other lists |
| Kernel heap, `kernel/memory.c` | `free_items[256]`, `free_list`, `used_list` | `memory_alloc`, `memory_free` (with `memory_merger`) | kernel code (none yet) | a byte has one owner, none is lost, free neighbours are merged |
| Memory layout, `memory_init` | `mem_size`, `phypage_base`, the first free items | one call at boot | heap, pages, mapping | the regions lie in the kernel's memory and apart from the page descriptors |
| Page frames, `kernel/page/phypage.c` | `free_area[11]`, descriptors (`flags`, `private`), counters | `buddy_init`, `page_alloc`, `page_free`, `alloc`, `free` | handles, linear spaces | a page has one owner, none is lost, merges touch free blocks only |
| Kernel mapping, `kernel/page/page_init.c` | page directory and tables | one call at boot | - | the kernel's memory is mapped once and completely |
| Handles, `kernel/handle/handle.c` | bitmaps, `free_item` of 256 tables | `new`, `delete` | linear spaces | a live handle is unique and never 0 |
| Hash table, `lib/hash_table.c` | key/value slots | set, get, getaddr, del | linear spaces | a map from keys to values, as long as there is room |
| Linear spaces, `kernel/page/linearspace.c` | lists of blocks, page tables, two hash tables | create, alloc, add, del, switch | - | blocks of a space do not overlap; what is mapped is what is in the list |
| Interrupt controllers, `kernel/arch/i8259.c`, `kernel/include/irq.inc` | two mask registers, the interrupt flag | `enable_irq`, `disable_irq`, entry stubs | - | no handler is entered twice, no change of a mask is lost, every unmasked device is served |
| Descriptor tables, `kernel/arch/protect.c`, `segment.c`, `tss.c` | `gdt_table`, `idt_table`, `tss` | add, remove, set, get, load | - | an index belongs to one owner, the fixed selectors name what they should |
| Ring queue, stack array, atomics, `lib/include` | indices, counts, values | add, delete; add-and-read | - | FIFO/LIFO order, bounded; what is lent or kept stays as it is; a count of zero is told, and is right |
| Strings, numbers, `lib/stdlib.c`, `string.c`, `bcd.c` | - | conversions | - | the digits are those of the number |
| Boot, `boot/` | BIOS parameter area, disk geometry, temporary page tables | partition search, LBA and CHS reads, memory map, paging, ELF loading | kernel | what is read is what was asked for; the kernel finds its image, stack and parameters where they were |

Components interact by plain calls.  `memory_init` decides where the page descriptors
are and what the heap may hand out; `buddy_init` writes descriptors there; handles and
linear spaces take pages with `alloc`; linear spaces look up both kinds of objects in
hash tables keyed by handles and link them with the lists; every list in the kernel is
one of `lib/list.c`.

Hard behaviours, with their lines, are the `hazards` of `PROJECT.json`.  In short:
records found by address (`memory.c:153`), merging that relies on a list's order
(`memory.c:199`), tables that fill up (`memory.c:115`, `handle.c:43`), loops that look
at the list head as if it were an item (`memory.c:136`), stale page descriptors
(`phypage.c:150`, `:106`), sizes that are rounded or wrap (`phypage.c:31`,
`memory.c:87`), probe limits that are off by one (`hash_table.c:49`), a node linked into
two lists (`linearspace.c:38`), a mask restored in the wrong controller
(`irq.inc:190`), reads after an atomic operation (`atomic.h:62`), calls of a queue that
preempt one another (`round_queue.h:55`), a buffer used for two things (`disk.inc:140`), and a
loop that clears one place beside what it should (`memory.c:35`).

## Modules

### `LinkedList`, `AbstractList`

`LinkedList` models `lib/list.c` at the level of the pointers.  `prev` and `next` are
functions on the cells (heads and nodes); `ready` and `on` are ghosts that record which
heads were initialised and which list each node is on.  The code does not know the
latter; its callers do, so `on` states the protocol they follow: link a node that is on
no list, unlink one that is on some list.  Heads start zero (the kernel clears its bss),
nodes start with anything, and unlinking leaves a node's own pointers as they were.
`list_search` and `list_empty` are operators, compared with the lists in every state.

`AbstractList` is what the other models assume: a list is a sequence of nodes, the
operations insert at a place or delete one element, and no operation on one list changes
another.  `LinkedList` implements it (`RefinesList`); the refinement mapping reads each
list off by walking `next` from its head.

### `KernelHeap`

| Code | Model |
|---|---|
| `free_items[i]` | `items[i]`, a record of `start` and `size`; a start of 0 is an unused slot |
| `free_list`, `used_list` | sequences of slots, head first |
| the local `block` of `memory_merger` | `cursor`, its place on `free_list`, 0 outside |
| `memory_alloc` | `AllocRecorded`, `AllocUnrecorded` (no slot is left), `AllocFromHead` (no block fits) |
| `memory_free` | `FreeRecorded`, `FreeUnrecorded` (no slot has the address), `FreeFromHead` |
| one iteration of `memory_merger` | `MergeNext`, `MergeAdvance`, `MergeHead` |
| what callers hold | the ghost `held` |

`memory_free` calls `memory_merger` before it returns, and no other operation can begin
before (`Ready`): the merger's iterations are steps of their own only so that the
invariants are checked, and proved, between them and that its termination is something
to show.  `AllocFromHead`, `FreeFromHead` and `MergeHead` are the steps in which a loop
treats a list head as an item: each of the three loops tests for the head only after its
body.  What happens then depends on the variables the linker puts behind the heads, so the
model stops there.  `HeadSize` and `HeadStarts` are what the two words behind a head may
read, `FreesNull` is whether callers free NULL; they say when such a step can happen.

### `Buddy`

A page is the index of its descriptor.  `free_area` are the lists, `private` and `busy`
the fields of the descriptors, `nr_free` and `free_pages` the counters.  `PageAlloc` and
`PageFree` are the whole functions: their loops are given in closed form (the set of
orders a block is split or merged through), because each pass works on another order and
reads nothing an earlier pass wrote.  `Reserve` is the call at the end of `buddy_init`.
`AllocPages`/`FreePages` are callers that give a block back with the order they asked
for; `SysAlloc`/`SysFree` are `alloc` and `free`, where the order comes from `private`.
Descriptors that `buddy_init` does not write start with junk: `JunkBusy` and
`JunkOrders` say which.  `wild` records that `list_unlink` was called for a descriptor
that is not on the list it is supposed to be on.

### `HashTable`, `AbstractMap`

`pairs` is the array, a key of 0 a free pair.  `FindAddr` is `hash_find_addr` with its
counter: it looks at up to `max_try + 1` pairs, gives NULL when it stops at the last of
them, and another key's pair when it does not stop at all.  `hash_del` is `HashDel`
followed by the iterations of `hash_sort` (`SortKeep`, `SortMove`, `SortDone`), which calls
itself last of all, so that its address and its loop counter are all its state.
`SortMove` also moves free pairs, as the code does.  That is why `hash_del` comes to an
end only if the table was full before: with two free pairs `hash_sort` moves one of them
for ever.  `AbstractMap` is the map users expect; `HashTable` implements it, a
`hash_sort` that does not end included.

### `Handle`

`bmp`, `bmp_size` and `free_item` are the fields of `handle_table`; `live` is a ghost that
counts the owners of each handle.  `New` and `NewFails` are `new` with and without a clear
bit, `Delete` is `delete` of a handle that somebody has.  A fresh bitmap holds `Junk`.
That all tables are used up, in which case `new` returns 0 and changes nothing, cannot
happen: no third table is ever opened (`OnlyTwoTables`, which follows from `HandleInv`).

### `AbstractAllocator`

What both allocators promise: each allocation takes one run of free units that nobody
owns, each free gives exactly that run back.  `KernelHeap` and `Buddy` implement it with
the free units as the union of the blocks on their lists.  Splitting, merging and the
order of the lists are invisible in it.

### `LinearSpace`

EXTENDS `LinkedList`: a room's head and the `node` of each block are its cells, and the
five functions of `linearspace.c` change `prev` and `next` as `list_add` and
`list_unlink` do.  `block` is what `page_block_hash` holds of each block (start, order of
its page block, `LB_USED`), `free_count`, `tbl`, `mapped` and `cr3` the fields of the
rooms, their page tables and the page directory in use.  Every room links the one
`kernel_space.node`, so the second room takes it out of the first one's ring.  A walk from
the first head then enters the second ring and takes the second head for a block; what
follows depends on the bytes around that head, so the model sets `stray` and stops.  It
does the same when a switch goes through a page directory nobody cleared.  The handles and
the two hash tables appear as the addresses they lead to: nothing is ever deleted from
these tables, so no address changes, and `Handle` and `HashTable` say the rest.

`mod_addr_room_add` and `mod_addr_room_del` do not look whether the block is on a list; the
guards on `on[b]` are what callers have to see to.  The test for overlaps is made with
`kernel_space`, too, whose `private` may be anything (`linearspace.c:89`): if it refuses a
block for that, nothing changes, so the model has only the calls in which it does not.

### `MemoryLayout`

What happens to the size of memory from the BIOS to the page tables: `GetMemInfo` and
`GetMemInfoFail` are the loop of `boot/loader.s`, which has room for 25 entries and does
not look; `MemoryInit` is `memory_init` with its three layouts; `PageInit` is `page_init`.
Everything is counted in pages and wraps around at 4G (`Wrap`), which is what 32-bit
arithmetic in bytes does to multiples of a page.  `bios` is the map the BIOS has.

### `Interrupts`

`mask` holds the mask registers of both controllers, `open` the interrupt flag, `frames`
the handlers that have been entered, the running one last.  The task calls `enable_irq`
and `disable_irq`, instruction by instruction as far as others could see it: `KernelLock`
(pushf, cli), `ReadMask` (inb), `WriteMask` (outb), `KernelUnlock` (popf).  `EnterMaster`
and `EnterSlave` are the stubs up to the handler, `Leave` is the rest of either; they
differ in that the slave's runs its handler with interrupts open and then clears bit
`irq - 8` of the master's mask.  `agreed` is a ghost: the masks if each change had been
made in one piece, each change as the code makes it, so that the wrong one of `hwint_slave`
is in it; that one is what `LineRestored` is about.  `Request` is the device, with at most `MaxRequests` each.

### `Atomic`

Contexts that preempt one another (a task and two handlers) use one `Atomic` as a count of
shares and one as a set of flags.  Single instructions are single steps; the functions that
return the new value have a second step that reads it.  Widths are kept (`2^Width`).
`own` is a ghost, the value each context's own change produced.  `LastShareSeen` says that
whoever is told zero is right; it does not say that only one is, because a context preempted
between change and reading may be told zero after the one that preempted it was.

### `RoundQueue`, `AbstractQueue`, `StackArray`

`RoundQueue` has handlers add while the task deletes in two steps and then uses the
pointer it was given, which leads into the ring.  The handlers of the slave's lines run with
interrupts open, so a call of `round_queue_add` may itself be preempted by another: `AddTest`,
`AddLoad`, `AddStore` and `AddCopy` are its accesses to `tail`, `adding` the calls under way,
the running one last, at most `MaxNesting`.  `crowded` is a ghost: a call passed its test
although those it preempted had passed theirs for all the slots that are free.  From then on
`tail` may step onto `head` and the lent slot be overwritten; `LentIntact` says that nothing
else can harm it.  With nesting, items may be lost or overwritten, so `AbstractQueue`, the
bounded queue, is implemented until a call first preempts another one (ghost `nested`).
`StackArray` has both operations, with a count that goes up even if there is
no room; `kept` is what was really added.

### `Gdt`

A descriptor is its base, its limit and two sets of attribute bits; `DescCreate` gives all
the descriptors `desc_create` may return, since it ors bits into an uninitialised
structure.  `IdtInit` ors the privilege level into the lowest bits of a gate's type
(`DplBits`), as the four `idt_init` functions do.  `ArchInit` makes the entries of `gdt_init` and `tss_init` in their order, the
other actions are what users can do afterwards with indices of their own.

### `BootDisk`

`check_disk`, `read_disk_lba` and `read_disk_chs`, the search of the partition table, and
the four reads that bring the partition table, the head of the file system, the loader and
the kernel.  `sectors`, `heads` and `cylinders` are the bytes a geometry and the LBA packet
share: `read_disk_lba` writes over the first two, and takes `cylinders`, which it does not
write, for the upper half of its LBA (`PacketSector`).  The BIOS may support LBA or not at
each check, and may fail any read: in LBA mode the code falls back to CHS, in CHS mode it
does not look.  If memory then holds something else than was asked for, or the division of
the fallback fails, the model stops (`stray`, `divide error`).

### `StartUp`

From the loader's first step in protected mode to the halt.  `mem` says what was written to
each page of memory (a page of the kernel's file, a page table, zero, zero but for its first
dword); `cs`, `ds` and `gs` are the bases of the segments, `cr3` the page directory.  `SetupPaging` and `GotoKernel` (one
program header at a time) are the loader's; `MemoryInitBss`, `ArchInitSegments` and
`PageInitSwitch` are the parts of the kernel's three initialisations that change memory below
the heap, segments or page tables, in the order `kernel/start.s` calls them.  `At` is the
processor's way from an offset to a frame.  `KernelSeesItself` says that no change moves
anything under the running code, that the image in memory is the one in the file, and that
its bss is cleared but for its first dword, which the loop of `memory_init` does not reach
(`Wiped`).  The stack pointer `gdt_init` loads (`segment.c:39`) is left out, because the
epilogue of the function takes the old one back.

### `Numbers`

`itoa` of numbers from 0 on and the BCD conversions, on a buffer of digit values: one call
for each buffer.  The loops of `itoa` are recursive functions.  Its path for negative numbers,
with `strcpy` and `strcat`, is left out: what it leaves in the buffer is not the number.

### `MC*`, `MCMachine`, `ListLemmas`, `*Proof`

The `MC` modules hold the small instances. `MCMachine` puts the twelve parts that share no
state side by side (`LinkedList`, `HashTable`, `Handle`, `Interrupts`, `Atomic`, `RoundQueue`,
`StackArray`, `Gdt`, `BootDisk`, `MemoryLayout`, `StartUp`, `Numbers`): the part that runs is
chosen at the start, the others stay as they begin (`Alone`).
`ListLemmas` states what `RemoveAt`, `InsertAt` and `Append` do to the elements and the
range of a sequence. The `*Proof` modules hold the theorems: `LibProof` those about
`RoundQueue`, `StackArray`, `Atomic`, `HashTable` and `Numbers`, `MachineProof` those
about `Interrupts`, `Gdt`, `MemoryLayout`, `BootDisk` and `StartUp`, the others those
about the module they are named after.

Definitions that stand before a mapped one and are described as faulty
(`CarveKeepsStart`, `LinkBehindNoPrev`, ...) are variants of the code with a plausible
bug.  Nothing uses them; put in the place of the definition they vary they make a
property fail, which shows that the property says something about the code
(`mutants` in `PROJECT.json`).

## Runs

| Run | Instance | Shows |
|---|---|---|
| `KernelHeap` | one region of 4 units, 5 slots, sizes 1-3 | complete merging, NULL only when no run is free, termination of the merger, refinement of `AbstractAllocator`, the proof's invariant |
| `KernelHeapEdge` | 3 slots, heads may be taken for items | no overlap with blocks that have no record |
| `Buddy` | one largest block of 8 pages, junk descriptors | one owner per page, nothing lost, refinement of `AbstractAllocator` |
| `LinearSpace` | 2 rooms, 3 blocks of 1 or 2 pages, a table of 4 entries | `NewestListed`, `PagesApart`, `SwitchMaps` |
| `Machine` | the parts of `MCMachine`, one at a time | the table below |
| `KernelHeapHighCoalesced` | two regions, higher one first | `Coalesced` fails |
| `BuddySysShared` | `alloc`/`free` of 1 and 2 pages | `NoSharedPage` fails |
| `HandleTwice` | the tables of `Machine` | `HandlesUnique` fails |
| `BuddyTwoTop` | memory for 2 largest blocks | `NoSharedPage` fails at boot |
| `AtomicRet` | 2 contexts, values of 3 bits | `ReturnsOwn` fails |
| `BootDiskModes` | the disk of `Machine` | `ModesApart` fails |
| `InterruptsSlaveMasked` | the lines of `Machine` | `LineRestored` fails |

| Part of `Machine` | Instance | Shows |
|---|---|---|
| `LinkedList` | 2 heads, 3 nodes | `ListInv`, `RingCloses`, `SearchIsRight`, refinement of `AbstractList` |
| `HashTable` | 4 pairs, 4 colliding keys, 2 values | one pair per key, every key found, `hash_del` from a full table returns, refinement of `AbstractMap` |
| `Handle` | 3 tables of 5 bits, cleared, junk or full page frames | unique handles in the first table, the bitmap is exact, the proof's invariant (with it, 0 is never a handle and only two tables are used) |
| `Interrupts` | one line of the master, two of the slave, two requests each | `NoReentry`, `NoLostMask`, `Served` |
| `Atomic` | 3 contexts, values of 3 bits | `LastShareSeen` |
| `RoundQueue` | 3 slots, 2 items, one call preempts another | `LentIntact`, refinement of `AbstractQueue` until it does |
| `StackArray` | 4 places, 2 items | `ItemsKept` |
| `Gdt` | 9 descriptors | `IndexOwned`, `SegmentsExact` |
| `BootDisk` | 3 sectors per track, 2 heads | `RightLoaded` |
| `MemoryLayout` | 14 memory maps | `SizeFound`, `LayoutApart`, `KernelMapped` |
| `StartUp` | 4 kernels | `KernelSeesItself` |
| `Numbers` | 0 to 1200 and three larger numbers, all BCD bytes | `DigitsRight` |

Bounds.  Four units and requests up to three let a heap fall into every pattern of free
and used blocks in which one block has a free block on neither, one or both sides, and
let a request fail although enough bytes are free in pieces; five slots are more than
the heap can be cut into.  With three slots the table fills up after two allocations of
one unit.  Three nodes on two lists give every neighbourhood of an insertion or removal
(head, first, middle, last) with another list beside it.  Eight pages have three levels
of splitting, so a merge runs through none, one or two orders and stops at a busy, a
split or a missing buddy; order 3 never becomes free again, because the descriptors'
block is never given back.  In run `Buddy` `alloc` is asked for blocks of 4 pages only:
such a block is never the rest of a larger one here, and `private` is right.  The run
has less memory than one largest block (4M in the kernel), because from there on the
zone is wrong from the start (`BuddyTwoTop`).  The keys of `HashTable` have their homes at
the last two of four pairs and the first, so that chains of collisions wrap around; with as many
keys as pairs the table gets full and no search fails.  Three tables of five handles let
the first run out of `free_item` with live handles left and the second get full, and leave
one that might be used.

In `LinearSpace` two rooms are what it takes for `kernel_space` to be taken away, three
blocks let one lie before, over and behind two others, and at most three additions
(`MaxAdds`) allow a block to be deleted and added again; `free_count` would otherwise fall
without end.  The table has four entries instead of 1024, so pages fall on each other's
entries.  The blocks are symmetric; no property of the run is a liveness property.

Of the parts of `Machine`, `Interrupts` has one line of the master and two of the slave, one of which shares its bit with
the master's, which ask twice each: handlers nest two deep, are entered again after the first
return, and find the slave's line masked for good.  Three contexts with values of three
bits preempt one another to any depth.  The ring has three places; its
indices wrap around any number of times, and one call of `round_queue_add` may preempt another
at each of its steps (`MaxNesting = 2`), which is what it takes to crowd
the ring; the stack has four places and counts up to four calls that failed
(`MaxCount`).  Nine descriptors are the null descriptor, the six of `arch_init` and two for
users, so the table fills up.  The disk has 3 sectors per track and 2 heads, so that all
parts of a CHS address differ from one sector to the next, and a partition at sector 1600
takes the cylinder beyond its lower 8 bits.  The memory maps are those at the last
megabyte of each layout and the first of the next, one that fills the address space, maps
with 24 to 27 entries, and maps with holes or with memory above 4G.  The kernels of
`StartUp` are the one the Makefile builds (one segment of 3 pages with 9 of bss, and a stack
header), one with text and data apart, one that fills the 64K the loader has for the file, and
one that does not fit; for the last the property says nothing, because the loader's page
directory lies over it.  `Numbers` converts 0 to 1200, some numbers of six to ten digits, and all BCD bytes.

Deadlock is checked wherever a caller always has a call to make; it is disabled for
`KernelHeapEdge` and `LinearSpace`, where the model stops when the code leaves its data,
for `Machine` and the runs of its parts, in which booting and single conversions come to an
end and devices ask a limited number of times, and for `BuddySysShared`, where `alloc` may
find no block.

Fairness.  `KernelHeap` assumes weak fairness of the merger's iterations, and nothing of
the callers: the processor goes on with a loop it is in, since nothing interrupts it.
`FreeReturns` needs no more.  The same holds of the iterations of `hash_sort` in
`HashTable`, for `DelFromFullReturns`.  `Interrupts` assumes weak fairness of the task's
steps within `enable_irq` and `disable_irq` and of a handler's return: the processor runs
on, and no handler of the repository loops.  It assumes strong fairness of entering some
handler: the processor looks for a request before each instruction it runs with interrupts
open, so one that is signalled at such moments again and again is not passed over for ever.
Weak fairness would not say so, because each lock closes interrupts for a while.  Which
handler is entered is left open, and nothing is assumed of devices, nor of whether the task
ever opens interrupts; `Served` asks only for what is open when the task runs on.
The other modules state safety only.

## Proofs

All theorems are about every value of the constants that satisfies the modules' ASSUMEs.

Together they state every invariant, every action property and every refinement that a
passing run checks, except what the end of this section lists.

- `KernelHeapProof`: `HeapInvariance`, `TypeCorrect`, `HeapNoOverlap`, under
  `FairCallers`: each request is for more bytes than the head of `free_list` seems to have,
  hence for at least one.  `NoOverlap` alone is not inductive.  `memory_free`
  identifies a block by its address, so it returns the right slot only if every record
  on `used_list` is that of a block somebody holds, with the right bounds
  (`RecordsInv`): two live blocks do not overlap, hence do not start at the same
  address.  `memory_alloc` and `memory_merger` reuse and wipe slots, which is safe only
  if a slot is on at most one list, at one place, and zero when it is on none
  (`SlotsInv`).  The two together with the disjointness of free and held blocks
  (`BlocksInv`) are `HeapInv`; TLC checks it in run `KernelHeap`.  There is one lemma per
  action; the lemma about carving (`CarveBlocks`) is shared by both kinds of
  allocation.  These theorems cover a full table (blocks without a record) and the
  unsorted list of memory above 512M.
  `HeapCoalesced` and `HeapNullMeansFull` need `RegionsAscending` besides: the list is
  sorted by address only if `memory_init` links the regions in that order (up to 512M there is
  one), and the merger compares neighbours in the list.  Run `KernelHeapHighCoalesced` shows
  that without it `Coalesced` fails.  The invariant adds that the list is sorted and how far
  the merger has come: the blocks in front of its own touch none behind them (`OrderInv`).
  `HeapRefines` asks of the callers that a slot is left whenever one of them allocates
  (`SlotLeft`).  Run `KernelHeap` has such callers: its five slots are more than a region of
  four units can be cut into.  Without it a block is lost when it is freed.
  `MergerNearsEnd` says that each iteration of the merger leaves one free block less before
  it (`BlocksLeft`), which is why `FreeReturns` holds.  `HeadsLeftAlone` says when no head is
  ever taken for an item: requests are larger than the size a head shows, and the start it
  shows lies below the heap (`HeadsInImage`) - a pointer into the kernel's image does, since
  the heap lies behind it.  The invariant is that all blocks, those without a record too, lie
  above that number (`AboveHeads`).
- `LinkedListProof`: `ListInvariance`, `RingsStay`.  `RingInv` says of every initialised
  list that `next` and `prev` stay within the list and undo each other; its induction
  needs `HeadsInv`, because linking into an uninitialised list must be impossible.  It does
  not say that there is one ring: two rings of a head and of some of its nodes would satisfy
  it.  `RingInvariance` (`OneRing`) does: for every list there is a sequence of its nodes that
  the pointers follow.  A call inserts into or removes from that sequence, which is what
  `ListsRefine` states.  `RingsClose` and `SearchesRight` compare walks with the sequence.  A
  walk is a recursive function on numbers; that it is the only one with its steps
  (`StepsAre`) comes from the well-foundedness of `<`, not from an induction over lists.
- `BuddyProof`: `BuddyInductive`, `PagesNotShared`, `PagesAreConserved`, `BuddyRefines`.  The
  invariant is a tiling: free and held blocks cover the zone, each at a multiple of its own
  size, none overlapping.  `BuddyIsTile` shows that the buddy of a tile is always the first
  page of another, so that `page_is_buddy` reads a descriptor that was written since boot, and
  `MergedTiles` that a merge makes a tile of tiles.  There are two hypotheses.  `SmallZone`: less
  memory than one largest block; run `BuddyTwoTop` shows that from there on blocks overlap from
  the start.  `[]RightOrders`: `free` finds in `private` the order the block has; run
  `BuddySysShared` shows that pages are shared otherwise.  `PageCallersSafe` needs no such
  promise: callers of `page_free` name the order themselves.
- `HandleProof`: `HandleInvariance`, `FirstTableHandles`, `ZeroReserved`, `TwoTables`, from
  `HandleInv`.  `delete` clears whatever bit it is given, so uniqueness needs that every live
  handle has its bit set in the first table (`UniqueInv`), and the reserved bit stays set
  because nobody owns handle 0 (`ZeroInv`).  `SecondInv` bounds `free_item` of the second
  table from below by the number of clear bits plus one.  `BitmapStaysExact` is the action
  property: what else is set in a bitmap, whatever its page frame held, stays set.
- `LibProof`, ring: `QueueLent` and `QueueRefines`, for rings of any size.  The slot that
  `head` names is the one that is lent.  `QueueLent` allows any number of calls to preempt one
  another (`MaxNesting`).  The invariant says of each call under way, while the ring is not
  crowded, that there is a slot for it and for each call it has preempted before its load
  (`AddInv`), so that whichever stores its new tail next, and over whatever others have stored,
  the tail does not come to `head`.
  `QueueRefines` speaks of every step until a call has preempted another one: until then a call
  stores the slot behind the last (`AloneInv`).  It has a lemma per action about the sequence
  read off the ring, resting on facts about `%`.
- `LibProof`, stack: `StackKept`; `ItemsKept` is inductive as it stands, its last conjunct being
  what keeps failed additions from covering what is kept.
- `LibProof`, atomic data: `LastShareTold`, from `SharesAssumption`: the count has room for
  all shares, so that it cannot wrap to zero.  The invariant is that the count is the number
  of shares held, and that the last to drop one has read zero or is about to.  That it is the
  only one to read zero is not so.
- `LibProof`, hash table: `TableInvariance`, `OnePairEach`, `AllFound`, `TableRefines`, under
  `RoomForAll`: searches go round the whole table (in the code tables of up to 16 pairs), and
  there are no more keys than pairs.  `TableWithRoom` says the same for any set of keys whose
  users leave a pair free (`RoomForKeys`), as a promise about their calls instead of an
  assumption on the constants.  While `hash_sort` runs some pairs cannot
  be found; the invariant (`HashInv`) says that the pairs it has passed since it last moved
  one can.  It ends after as many of them as the table has, so that all can then.  That a
  search for a key that is not in the table has a free pair to stop at comes, under
  `RoomForAll`, from counting the keys (`RoomLeft`).  `FullDelNearsEnd` is the reason for `DelFromFullReturns`: with one
  free pair, each iteration of `hash_sort` ends it, or brings a key nearer to its home, or
  counts.  The measure is the number of pairs of a key and a step of its search before the one
  that finds it (`Strayed`), then the iterations left before `hash_sort` gives up; a move
  fills the one free pair, so no key's search gets longer.
- `LibProof`, numbers: `DigitsOfNumber`, for every `int` from 0 on.  `itoa`'s loops are recursive functions; an `int` has at most ten digits, so
  ten unfoldings of `Digits` and the powers of ten up to the tenth are what the solver sees.
  That the digit at each place is the one of the number comes from the first place where it
  would not be, by the well-foundedness of `<`, and so does what the exchange of digits leaves
  at each place.
- `LinearSpaceProof`: `SpaceInvariance`, `NewestFound`, `PagesStayApart`, `SwitchesMap`, for
  finitely many rooms and blocks.  A room loses `kernel_space` to the next one, so its pointers
  form no ring.  The invariant speaks of the ring it would be had it kept `kernel_space`:
  outside `kernel_space` itself the pointers are that ring's.  `kernel_space` stays last
  in it, so a walk has met every block before it leaves the room, which is what
  `mod_addr_room_switch` relies on.
- `MachineProof`, interrupts: `HandlersNotReentered` and `MasksNotLost`, for any set of lines,
  from `MaskInv`, the two together.  That no line is entered twice needs that a slave's line is
  masked while its handler runs, although `enable_irq` of the task could clear it: it cannot,
  since the task does not run then, nor was it stopped between reading a mask and writing it,
  which is what `NoLostMask` says.
- `MachineProof`, descriptors: `IndicesOwned` and `SegmentsStay`, for tables of any size and
  whatever `desc_create` finds in the bits it does not write.
- `MachineProof`, memory: `LaidOutApart`, `LaidOutMapped` and `MemoryFound`, for every memory map
  of entries below 100G, from `LayoutInv`, which relates the entries copied so far, their
  number and the end of memory.  The layouts are arithmetic by cases; that memory has a
  highest end at all is `Greatest`, from the well-foundedness of `<`.
- `MachineProof`, boot disk: `KernelOfPartition`, for every partition table and geometry with
  `DiskReaches`: the cylinders a CHS address can name reach the partitions.  Which reads go astray
  is part of what is proved: those the BIOS fails at, and those by LBA after a choice of CHS.
- `MachineProof`, start-up: `KernelInSight`, for kernels linked between 1M and 2M
  (`FilesAssumption`).  All addresses that matter lie below 4M, so the invariant (`StartInv`)
  says of each page directory only that the entries used lead to a table whose first 1024
  entries are the identity, and of memory what has been brought from the file so far.  That the
  bss is one piece behind the rest of the image (`BssAssumption`) is `link.lds`; the dword the
  loop clears behind its end lies in no page of text or data.  What is proved of each routine is which pages it leaves alone.
- `ListLemmas`: what the sequence operators do, from their definitions.

`BuddyInv`, `HashInv`, `ListInv`, `HeapInv`, `HandleInv` are defined in the modules they
belong to; the last three are invariants of the runs, too.

Out of the prover's reach: liveness (`FreeReturns`, `DelFromFullReturns`, `Served`), which is
model-checked only.  Of the first two the measure that falls with every step is proved
(`MergerNearsEnd`, `FullDelNearsEnd`); that fairness makes it reach its end is not.  `Served`
has no such measure: how often handlers come first is up to the devices.

## Where the code and its comments part

Each is a run that TLC ends with a counterexample; `findings` in `PROJECT.json` quotes
the lines.

- Above 512M adjacent free blocks of the heap are not always merged (`memory.c:88`).
- `free` takes a block for as large as the one it was split from (`phypage.c:218`).
- After as many calls of `new` as a table has bits, two objects may have the same handle
  (`handle.c:51`).
- From 4M of memory on the largest page blocks overlap from the start (`phypage.c:44`).
- The value a `_ret` function of `atomic.h` returns may be a later one than its own (`:79`).
- LBA and CHS do collide in the buffer they share: `cylinders` is the upper half of the LBA
  when LBA is chosen after CHS (`disk.inc:48`, `:140`).
- `hwint_slave` leaves its line masked and clears bit `irq - 8` of the master (`irq.inc:190`).

Seen while modelling, without a run of their own (see `hazards`): a block that is handed
out with all 256 slots in use has no record and is lost when it is freed; requests for 0
bytes break the records; an exhausted heap reads its list head as an item, and so does the
merger behind the last free block (`memory.c:199`); `zone.page_count` is rounded up, so
pages behind the end of memory are handed out; `nr_free` does not count the initial
blocks; `PG_BUSY` survives on merged upper halves and stops later merges; `hash_del` does
not end in a table with another free pair, and a search for a further key in a full table
answers with another key's pair; a table of handles has more bits than its page.

Also, in the parts beside memory and lists, and in the model where there is one:

- Linear spaces: the second room takes `kernel_space.node` from the first (`linearspace.c:38`);
  `kernel_space.block` is NULL and is read; the test for overlaps uses an order as a number of
  pages and misses containment (`:93`); `mod_addr_room_del` does not give `free_count` back nor
  unmap (`:126`); `mod_addr_room_switch` clears `LB_USED`, which nothing sets, and takes an
  uncleared page for a page directory (`:181`).  `hash_create` is never called for the two tables.
- Memory layout: a 26th entry of the memory map lies over the variables behind the table;
  above 2560M the first region's size wraps, and in the last megabyte below 4G the rounding
  does; `buddy_init` reserves pages from 0 on while the descriptors lie at 2M or 22M.
- Atomic data: `atomic_test_bit` returns whether any bit is set.
- Ring queue: calls of `round_queue_add` that preempt one another may lose items, and where
  there is no room for all of them overwrite the slot that is lent and make a full ring look
  empty (`round_queue.h:54`).
- Descriptors: `desc_create` leaves avl, D and G as they were in an uninitialised structure (the
  task state's G among them); `GdtGetSel` shifts by `3 + rpl + 0`; the `dpl` of `idt_init_*` is
  not shifted to its place, so that 3 turns an interrupt gate into a trap gate
  (`protect.c:216`); `round_queue_add` returns nothing when it succeeds.
- Start: the loop "first clear the memory of the bss" (`memory.c:29`) leaves the first dword
  and clears the one behind the end (`:35`); `gdt_load` stores the offset of `gdt_table` as its address, which page_init leaves
  unmapped, so that no segment can be loaded after it; a kernel's file above 64K runs into the
  loader's page directory (`boot/config.inc:29`).
- Boot: the fallback after a failed first LBA read divides by heads, which are 0 then, and
  after a later one takes packet fields for a geometry (`disk.inc:92`); a failed CHS read is not
  noticed (`:131`).
- Numbers: `itoa` leaves the two middle digits of an even number of digits exchanged and negative
  numbers backwards; `strcpy` ends a string one place too late; `strlen` and `abcd_to_str` are
  declared only.

## What is not modelled

`components` in `PROJECT.json` gives the reason for each part.  BIOS calls, port access
and CMOS constants have no state; `message.h`, `process.h`, `class.h` and `sysapi.h`
declare things whose code is not in the repository, and so do the headers for `save` and
`strlen`.  Video output, the CMOS dump and build files are no subject of these models.

Left out of modelled parts: calls with NULL arguments that return at once; what happens
once a list head was taken for an item, or a walk has left its list; `alloc` with no page
left, whose callers do not notice; packed bytes of descriptors (their fields are modelled);
the `u16` counts of ring and stack wrapping; `itoa` of negative numbers, `strcpy` and `strcat`;
the stack pointer `gdt_init` loads; a read of several sectors is one of its first.

## Plan

Done: the models of all parts with a state of their own, and the proofs listed above.
What is left, in order:

1. Hash tables of more than 16 pairs, whose searches give up before they have been round:
   which sets of keys in the table keep every search short enough.
2. Closer links between parts: `buddy_init` on the layouts of `MemoryLayout`, and handles
   whose bitmaps share pages with other owners.
