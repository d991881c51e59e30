----------------------------- MODULE MemoryLayout -----------------------------
(***************************************************************************)
(* From the BIOS's memory map to the kernel's address space: the loop in   *)
(* boot/loader.s that collects the map, memory_init (kernel/memory.c) that *)
(* takes the size of memory from it and lays out what the kernel needs,    *)
(* page_init (kernel/page/page_init.c) that maps it.                       *)
(*                                                                         *)
(* Addresses and sizes are counted in pages of 4K; an address wraps around *)
(* at 4G.  The descriptors of 1M of pages take one page themselves.        *)
(***************************************************************************)
EXTENDS Integers, Sequences, FiniteSets

CONSTANTS BiosMaps    \* the memory maps a BIOS may answer with

Limit == 1024 * 1024    \* 4G

\* Entries of less than 100G: a larger one, as the 26th, makes memory_init read on behind
\* the table.
Answers == [base : Nat, length : 1..(25 * Limit - 1), type : 1..4]

ASSUME BiosAssumption == BiosMaps \subseteq Seq(Answers)

VARIABLES stage,
          bios,            \* external: the BIOS's map
          carry,           \* external: whether the BIOS has ended it with an error
          mem_info,        \* the entries in the table at 0x1000
          mem_mcr_number,  \* the dword at 0x1200
          mem_size,        \* the dword at 0x1204: the end of memory found so far
          megabytes,       \* ghost: mem_size, once memory_init has rounded it up
          phypage_base, kernel_pages,
          free_items,      \* the regions memory_init links into free_list, in order
          page_dir         \* the page each page of the address space leads to

layoutVars == <<stage, bios, carry, mem_info, mem_mcr_number, mem_size, megabytes,
                phypage_base, kernel_pages, free_items, page_dir>>

Wrap(n) == n % Limit
Region(start, size) == [start |-> Wrap(start), size |-> Wrap(size)]

LayoutInit ==
  /\ stage = "map"
  /\ bios \in BiosMaps
  /\ carry = FALSE /\ mem_info = <<>>
  /\ mem_mcr_number = 0 /\ mem_size = 0 /\ megabytes = 0
  /\ phypage_base = 0 /\ kernel_pages = 0 /\ free_items = <<>>
  /\ page_dir = [p \in {} |-> 0]

\* The entries that end below 0x1200; the next one lies over the number of entries,
\* with the upper half of its length, and over mem_size, with its type.
TableEntries == 25

\* A faulty AnswerNumber that does not count the last entry.
AnswerNumberButLast(e) ==
  IF Len(mem_info) + 1 = Len(bios) THEN mem_mcr_number ELSE mem_mcr_number + 1

\* The number of entries after the BIOS has stored e and the loop has counted it
AnswerNumber(e) ==
  (IF Len(mem_info) = TableEntries THEN e.length \div Limit ELSE mem_mcr_number) + 1

\* One call of the BIOS; with the last entry it may say that there are no more.
GetMemInfo ==
  /\ stage = "map" /\ Len(mem_info) < Len(bios)
  /\ LET e == bios[Len(mem_info) + 1] IN
       /\ mem_info' = Append(mem_info, e)
       /\ mem_mcr_number' = AnswerNumber(e)
       /\ mem_size' = IF Len(mem_info) = TableEntries THEN 1 ELSE mem_size
  /\ \/ UNCHANGED stage
     \/ Len(mem_info') = Len(bios) /\ stage' = "memory_init"
  /\ UNCHANGED <<bios, carry, megabytes, phypage_base, kernel_pages, free_items, page_dir>>

\* The BIOS fails, or says only now that there are no more entries.
GetMemInfoFail ==
  /\ stage = "map"
  /\ carry' = TRUE /\ mem_mcr_number' = 0 /\ stage' = "memory_init"
  /\ UNCHANGED <<bios, mem_info, mem_size, megabytes, phypage_base, kernel_pages, free_items,
                 page_dir>>

-----------------------------------------------------------------------------

\* Where memory_init sees an entry end: it adds the lower halves of base and length.
LowEnd(e) == Wrap(Wrap(e.base) + Wrap(e.length))

UsableEnds == {LowEnd(mem_info[i]) : i \in {j \in 1..mem_mcr_number : mem_info[j].type = 1}}

\* The megabytes that pages take, with the overflow of the addition
RoundedUp(pages) == Wrap(pages + 255) \div 256

\* A faulty RegionsFor that gives the heap of the middle layout from 2M on.
RegionsForLow(mb) == <<Region(512, 3072)>>

\* The free regions for a memory of mb megabytes; the descriptors start at phypage_base
RegionsFor(mb) ==
  IF mb <= 32 THEN <<Region(512 + mb, 1024 - (512 + mb))>>
  ELSE IF mb <= 512 THEN <<Region(1024, 3072)>>
  ELSE <<Region(5632 + mb, 8192 - (5632 + mb)), Region(512, 4096)>>

BaseFor(mb) == IF mb <= 512 THEN 512 ELSE 5632
KernelPagesFor(mb) == IF mb <= 32 THEN 1024 ELSE IF mb <= 512 THEN 4096 ELSE 8192

\* memory_init
MemoryInit ==
  /\ stage = "memory_init" /\ stage' = "page_init"
  /\ mem_size' = CHOOSE m \in {mem_size} \cup UsableEnds :
                   \A n \in {mem_size} \cup UsableEnds : n <= m
  /\ megabytes' = RoundedUp(mem_size')
  /\ phypage_base' = BaseFor(megabytes')
  /\ kernel_pages' = KernelPagesFor(megabytes')
  /\ free_items' = RegionsFor(megabytes')
  /\ UNCHANGED <<bios, carry, mem_info, mem_mcr_number, page_dir>>

BasePage == 786432    \* the page of KernelBase

\* A faulty TableCount that forgets the rounding.
TableCountDown(pages) == (pages - 1) \div 1024

\* How many page tables page_init enters into the page directory
TableCount(pages) == (pages + 1023) \div 1024

\* page_init: the entries of the tables are written up to kernel_pages, and only what
\* the directory reaches is mapped.
PageInit ==
  /\ stage = "page_init" /\ stage' = "up"
  /\ page_dir' = [p \in {BasePage + k : k \in {n \in 0..(kernel_pages - 1) :
                                                n \div 1024 < TableCount(kernel_pages)}}
                    |-> p - BasePage]
  /\ UNCHANGED <<bios, carry, mem_info, mem_mcr_number, mem_size, megabytes, phypage_base,
                 kernel_pages, free_items>>

LayoutNext == GetMemInfo \/ GetMemInfoFail \/ MemoryInit \/ PageInit

LayoutSpec == LayoutInit /\ [][LayoutNext]_layoutVars

-----------------------------------------------------------------------------

LayoutTypeOK ==
  /\ stage \in {"map", "memory_init", "page_init", "up"}
  /\ bios \in Seq(Answers) /\ carry \in BOOLEAN
  /\ mem_info \in Seq(Answers) /\ mem_mcr_number \in 0..Len(mem_info)
  /\ mem_size \in 0..(Limit - 1) /\ megabytes \in Nat /\ megabytes < 4096

LaidOut == stage \in {"page_init", "up"}
TrueEnds == {e.base + e.length : e \in {bios[i] : i \in {j \in DOMAIN bios : bios[j].type = 1}}}

\* memory_init works with the least number of megabytes that has all usable memory,
\* wherever in the map its last entry is: for maps that fit into the table and end
\* without an error, and for usable memory below 4095M.
SizeFound ==
  /\ LayoutTypeOK
  /\ (LaidOut /\ ~carry /\ Len(bios) <= TableEntries /\ \A end \in TrueEnds : end <= 4095 * 256)
       => /\ \A end \in TrueEnds : end <= megabytes * 256
          /\ megabytes > 0 => \E end \in TrueEnds : end > (megabytes - 1) * 256

\* Tables, stack and the image of the kernel below 2M, the descriptors of all pages, and
\* the regions of the heap
Areas ==
  {[start |-> 0, size |-> 512], [start |-> phypage_base, size |-> megabytes]} \cup
  {free_items[i] : i \in DOMAIN free_items}

\* Up to 2560M, what memory_init lays out lies apart and within the space of the kernel,
\* in each of the three layouts up to its last megabyte.
LayoutApart ==
  (LaidOut /\ megabytes <= 2560) =>
    /\ \A a, b \in Areas : a = b \/ a.start + a.size <= b.start \/ b.start + b.size <= a.start
    /\ \A a \in Areas : a.start + a.size <= kernel_pages
    /\ \A i, j \in DOMAIN free_items : free_items[i] = free_items[j] => i = j

\* Once page_init has returned, all of it can be used at the kernel's addresses: each
\* page of it is mapped there, to itself.
KernelMapped ==
  (stage = "up" /\ megabytes <= 2560) =>
    \A a \in Areas : \A p \in a.start..(a.start + a.size - 1) :
      BasePage + p \in DOMAIN page_dir /\ page_dir[BasePage + p] = p
=============================================================================
