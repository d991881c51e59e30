----------------------------- MODULE LinearSpace -----------------------------
(***************************************************************************)
(* The linear address spaces of kernel/page/linearspace.c, on the pointers *)
(* of LinkedList: a room is a list of blocks of pages, and the one         *)
(* kernel_space is linked into the list of every room that is created.     *)
(* The second room takes it away from the first, whose walks then lead on  *)
(* into the ring of the second and come upon its head, which they take for *)
(* a block; the model stops there (stray).                                 *)
(*                                                                         *)
(* The rooms and blocks lie in hash tables nothing is ever deleted from,   *)
(* so their addresses stay.  private of a block's PhyPage is the order     *)
(* it was allocated with.  kernel_space.block is NULL: its private is      *)
(* whatever lies there, and so are the pages mapped for it.  Where that    *)
(* makes mod_addr_room_add refuse a block because it seems to overlap      *)
(* kernel_space, nothing changes; the model has the calls that go on.      *)
(*                                                                         *)
(* mod_addr_room_add and mod_addr_room_del do not look whether a block is  *)
(* on a list; that on[b] is NULL in the one and not in the other is the    *)
(* protocol of their callers.                                              *)
(***************************************************************************)
EXTENDS LinkedList

CONSTANTS kernel_space,   \* one of Nodes; the others are blocks, Heads are rooms
          Templates,      \* what blocks are created from
          Entries,        \* of a page table
          KernelPages,    \* how many pages mod_addr_room_switch maps for kernel_space
          MaxAdds,        \* bound: how often blocks are added to rooms
          UserPages       \* UserLinearSpacePages

\* start and LB_USED of a block, and private of its PhyPage
LinearBlock == [start : Nat, order : Nat, used : BOOLEAN]

\* linear_space_base and page_block_base have their rooms and blocks from the start.
ASSUME SpaceAssumption ==
  /\ IsFiniteSet(Heads) /\ IsFiniteSet(Nodes) /\ kernel_space \in Nodes
  /\ Entries \in Nat \ {0} /\ KernelPages \in Nat \ {0} /\ MaxAdds \in Nat /\ UserPages \in Nat
  /\ Templates \subseteq LinearBlock /\ NULL \notin LinearBlock

Rooms == Heads
Blocks == Nodes \ {kernel_space}

VARIABLES block,        \* start, order and LB_USED of each block, NULL before it exists
          free_count,   \* of each room
          tbl,          \* the rooms whose page directory has a page table
          mapped,       \* the frame each entry of a room's page table leads to
          cr3,          \* the room that was switched to
          stray,        \* a walk has left its list, or a mapping went anywhere
          newest,       \* ghost: the room that was created last
          adds          \* how often mod_addr_room_add has succeeded

spaceVars == <<prev, next, ready, on, block, free_count, tbl, mapped, cr3, stray, newest, adds>>

Junk == <<kernel_space, 0>>

SpaceInit ==
  /\ Init /\ \A c \in Cells : next[c] = NULL
  /\ block = [b \in Blocks |-> NULL]
  /\ free_count = [r \in Rooms |-> 0] /\ adds = 0
  /\ tbl = {}
  /\ mapped = [r \in Rooms |-> [i \in 0..(Entries - 1) |-> Junk]]
  /\ cr3 = NULL /\ newest = NULL /\ stray = FALSE

Keep(variables) == ~stray /\ UNCHANGED variables

-----------------------------------------------------------------------------

\* linear_space_create: list_init of the room's head, list_add of kernel_space
LinearSpaceCreate(room) ==
  /\ room \notin ready
  /\ ready' = ready \cup {room} /\ newest' = room
  /\ next' = [next EXCEPT ![room] = kernel_space, ![kernel_space] = room]
  /\ prev' = [prev EXCEPT ![room] = kernel_space, ![kernel_space] = room]
  /\ on' = [on EXCEPT ![kernel_space] = room]
  /\ free_count' = [free_count EXCEPT ![room] = UserPages]
  /\ Keep(<<block, tbl, mapped, cr3, stray, adds>>)

\* mod_addr_room_alloc
ModAddrRoomAlloc(b, template) ==
  /\ block[b] = NULL
  /\ block' = [block EXCEPT ![b] = template]
  /\ Keep(<<prev, next, ready, on, free_count, tbl, mapped, cr3, stray, newest, adds>>)

\* The number of steps to the first head on the way from a room's head: its own, or
\* that of another room.
WalkLength(room) ==
  CHOOSE n \in 1..Cardinality(Cells) :
    /\ Steps(room, next, n) \in Rooms
    /\ \A i \in 1..(n - 1) : Steps(room, next, i) \notin Rooms
Met(room) == {Steps(room, next, i) : i \in 1..(WalkLength(room) - 1)}
ComesBack(room) == Steps(room, next, WalkLength(room)) = room

\* A faulty Overlaps that looks at the start of the other block only.
OverlapsStart(b, other) ==
  block[other].start \in block[b].start..(block[b].start + block[b].order)

\* The test of mod_addr_room_add, which takes the order for the number of the last page
Overlaps(b, other) ==
  LET pages == block[b].start..(block[b].start + block[b].order)
  IN  block[other].start \in pages \/ block[other].start + block[other].order \in pages

Pages(b) == 2^block[b].order

\* mod_addr_room_add of a block that is on no list, as its callers must see to; of one that
\* is in the room already, it returns False, too.
ModAddrRoomAdd(room, b) ==
  /\ room \in ready /\ block[b] # NULL /\ on[b] = NULL /\ adds < MaxAdds
  /\ \A other \in Met(room) \ {kernel_space} : ~Overlaps(b, other)
  /\ IF ComesBack(room)
     THEN /\ LinkBehind(room, b)
          /\ on' = [on EXCEPT ![b] = room]
          /\ free_count' = [free_count EXCEPT ![room] = @ - Pages(b)]
          /\ adds' = adds + 1
          /\ UNCHANGED stray
     ELSE stray' = TRUE /\ UNCHANGED <<prev, next, on, free_count, adds>>
  /\ Keep(<<ready, block, tbl, mapped, cr3, newest>>)

\* mod_addr_room_del of a block that is in some room, as its callers must see to; free_count
\* and the page table keep what they have of it.
ModAddrRoomDel(b) ==
  /\ on[b] # NULL
  /\ ListUnlink(b)
  /\ Keep(<<block, free_count, tbl, mapped, cr3, stray, newest, adds>>)

-----------------------------------------------------------------------------

\* Whether the i-th block of a walk has its page j mapped at an entry: (start + j) & 0x3FF
Writes(cell, entry, j) ==
  IF cell = kernel_space THEN j < KernelPages /\ j % Entries = entry
  ELSE ~block[cell].used /\ j < Pages(cell) /\ (block[cell].start + j) % Entries = entry

\* A faulty FrameAt that maps a block's pages in the wrong order.
FrameAtReversed(cell, entry) ==
  LET j == CHOOSE n \in 0..(Entries - 1) : Writes(cell, entry, n)
  IN  IF cell = kernel_space THEN Junk ELSE <<cell, Pages(cell) - 1 - j>>

\* The page of a block that is mapped at an entry; for kernel_space, any page
FrameAt(cell, entry) ==
  LET j == CHOOSE n \in 0..(Entries - 1) : Writes(cell, entry, n)
  IN  IF cell = kernel_space THEN Junk ELSE <<cell, j>>

\* What an entry leads to after a walk has mapped all blocks, the later over the earlier
EntryAfter(room, entry) ==
  LET writers == {i \in 1..(WalkLength(room) - 1) :
                    \E j \in 0..(Entries - 1) : Writes(Steps(room, next, i), entry, j)}
  IN  IF writers = {} THEN mapped[room][entry]
      ELSE FrameAt(Steps(room, next, CHOOSE i \in writers : \A k \in writers : k <= i), entry)

\* mod_addr_room_switch; it clears LB_USED of every block, and never sets it.  The page
\* directory is a page as alloc left it: its entry may look allocated and lead anywhere.
ModAddrRoomSwitch(room) ==
  /\ room \in ready
  /\ \/ /\ ComesBack(room)
        /\ mapped' = [mapped EXCEPT ![room] = [e \in DOMAIN @ |-> EntryAfter(room, e)]]
        /\ tbl' = tbl \cup {room}
        /\ block' = [b \in Blocks |-> IF b \in Met(room) THEN [block[b] EXCEPT !.used = FALSE]
                                      ELSE block[b]]
        /\ cr3' = room
        /\ UNCHANGED stray
     \/ /\ ~ComesBack(room) \/ room \notin tbl
        /\ stray' = TRUE /\ UNCHANGED <<mapped, tbl, block, cr3>>
  /\ Keep(<<prev, next, ready, on, free_count, newest, adds>>)

SpaceNext ==
  \/ \E room \in Rooms :
       \/ LinearSpaceCreate(room)
       \/ \E b \in Blocks : ModAddrRoomAdd(room, b)
       \/ ModAddrRoomSwitch(room)
  \/ \E b \in Blocks :
       \/ \E template \in Templates : ModAddrRoomAlloc(b, template)
       \/ ModAddrRoomDel(b)

SpaceSpec == SpaceInit /\ [][SpaceNext]_spaceVars

-----------------------------------------------------------------------------

In(room) == {b \in Blocks : on[b] = room}

\* A walk from the newest room's head meets the blocks that are in it and kernel_space,
\* each once, and comes back, whatever is done to older rooms whose rings kernel_space
\* was taken from; deleting their blocks writes into the newest ring.
NewestListed ==
  newest # NULL =>
    /\ TypeOK
    /\ ComesBack(newest)
    /\ Met(newest) = In(newest) \cup {kernel_space}
    /\ WalkLength(newest) = Cardinality(Met(newest)) + 1

PageSet(b) == block[b].start..(block[b].start + Pages(b) - 1)

\* No page of a room is given to two of its blocks, as far as the blocks have one or two
\* pages: up to that, an order is the distance of a block's last page.
PagesApart ==
  \A b, c \in Blocks :
    (b # c /\ on[b] # NULL /\ on[b] = on[c] /\ block[b].order < 2 /\ block[c].order < 2)
      => PageSet(b) \cap PageSet(c) = {}

\* After a switch each page of each block in the room leads to the block's own frame, if
\* all blocks lie in the part of the address space one table maps, their LB_USED was not
\* set, and the pages mapped for kernel_space are below.
SwitchMaps ==
  [][\A room \in Rooms :
       (ModAddrRoomSwitch(room) /\ ~stray') =>
         \A b \in In(room) :
           ( /\ ~block[b].used /\ block[b].start >= KernelPages
             /\ \A c \in In(room) : block[c].order < 2 /\ block[c].start + Pages(c) <= Entries ) =>
             \A j \in 0..(Pages(b) - 1) : mapped'[room][block[b].start + j] = <<b, j>>
    ]_spaceVars
=============================================================================
