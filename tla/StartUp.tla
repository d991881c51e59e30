------------------------------- MODULE StartUp -------------------------------
(***************************************************************************)
(* From the loader in protected mode (boot/loader.s) to the halt in        *)
(* kernel/start.s: where the kernel's image lies, and through which        *)
(* segments and page tables the running code sees it.  The kernel is       *)
(* linked for offsets from 1M on and uses them, and pointers made of them, *)
(* throughout; what they lead to changes under it when paging is started,  *)
(* when the loader jumps to it, in gdt_init and in page_init.              *)
(*                                                                         *)
(* Addresses and sizes are counted in pages of 4K.  A segment is its base. *)
(* The stack pointer that gdt_init loads is left out: its epilogue takes   *)
(* the old one back from the frame.                                        *)
(***************************************************************************)
EXTENDS Integers, Sequences

CONSTANTS Files,         \* kernels as the linker may make them
          KernelSizes    \* kernel_mem_size, as memory_init chooses it (MemoryLayout)

Headers == [type : {"NULL", "LOAD", "STACK"}, offset : Nat, vaddr : Nat, filesz : Nat, memsz : Nat]

\* The pages of memory a program header asks for
SegmentPages(h) == h.vaddr..(h.vaddr + h.memsz - 1)

ASSUME FilesAssumption ==
  \A f \in Files :
    /\ f.pages \in Nat /\ f.headers \in Seq(Headers) /\ f.headers # <<>>
    /\ \A i \in DOMAIN f.headers :
         LET h == f.headers[i] IN
           /\ h.type = "LOAD" => /\ h.filesz <= h.memsz /\ h.offset + h.filesz <= f.pages
                                 /\ SegmentPages(h) \subseteq 256..511
           /\ h.type = "STACK" => h.filesz = 0
           /\ \A k \in 1..(i - 1) : (h.type = "LOAD" /\ f.headers[k].type = "LOAD") =>
                                      SegmentPages(h) \cap SegmentPages(f.headers[k]) = {}

\* There is one bss, and it comes last.
ASSUME BssAssumption ==
  \A f \in Files : \E i \in DOMAIN f.headers :
    /\ f.headers[i].type = "LOAD" /\ f.headers[i].filesz < f.headers[i].memsz
    /\ \A k \in DOMAIN f.headers \ {i} : f.headers[k].type = "LOAD" =>
         /\ f.headers[k].filesz = f.headers[k].memsz
         /\ f.headers[k].vaddr + f.headers[k].memsz <= f.headers[i].vaddr

ASSUME SizesAssumption == KernelSizes \subseteq {1024, 4096, 8192}

VARIABLES routine,  \* the routine that is next
          file,     \* the kernel's file, which read_kernel has brought
          mem,      \* what was written to each page of memory
          copied,   \* how many program headers goto_kernel has looked at
          cs, ds, gs,   \* the bases of the segments; es, ss and fs have that of ds
          gdtr,     \* the linear address of the gdt
          cr3,      \* the page directory, NoPaging at first
          kernel_mem_size

startVars == <<routine, file, mem, copied, cs, ds, gs, gdtr, cr3, kernel_mem_size>>

NoPaging == -1
Unmapped == -1

FromFile(k) == [kind |-> "file", page |-> k]
Table(entries) == [kind |-> "table", entries |-> entries]
Zero == Table([i \in {} |-> 0])
AllButFirst == [kind |-> "zero behind its first dword"]
OnlyFirst == [kind |-> "a first dword of zero"]

\* m after f was written
Written(f, m) == [p \in DOMAIN f \cup DOMAIN m |-> IF p \in DOMAIN f THEN f[p] ELSE m[p]]

Kernel_File == 16      \* 0x10000
Stack == 7             \* below 0x8000
Loader == 8            \* from 0x8000 on, with its gdt
Params == {1, 2}       \* what the loader has learned from the BIOS
Video == 184           \* 0xb8000
KernelBase == 786432
PageDirBase == 32
PageTblBase == 36
PgCount == 2048        \* KernelSize
PtbCount == (PgCount + 1023) \div 1024
PgDir == 48            \* 0x30000
PgTbl == 49

\* jmp_pm and the first lines of pm_start
StartInit ==
  /\ routine = "setup_paging"
  /\ file \in Files
  /\ mem = [p \in Kernel_File..(Kernel_File + file.pages - 1) |-> FromFile(p - Kernel_File)]
  /\ copied = 0
  /\ cs = 0 /\ ds = 0 /\ gs = Video /\ gdtr = Loader
  /\ cr3 = NoPaging /\ kernel_mem_size = 0

-----------------------------------------------------------------------------

\* The frame that a linear page leads to
EntryOf(table, i) ==
  IF table # Unmapped /\ table \in DOMAIN mem /\ mem[table].kind = "table"
     /\ i \in DOMAIN mem[table].entries
  THEN mem[table].entries[i] ELSE Unmapped
FrameOf(page) == IF cr3 = NoPaging THEN page ELSE EntryOf(EntryOf(cr3, page \div 1024), page % 1024)
At(base, offset) == FrameOf((base + offset) % (1024 * 1024))

\* setup_pde_init from the entry ebx on: the entries of the directory
PdeInit(ebx) == [i \in ebx..(ebx + PtbCount - 1) |-> PageTblBase + i - ebx]

\* The tables of n pages from address 0 on, as setup_pte_init and page_init write them
PteInit(base, n) ==
  [t \in base..(base + (n - 1) \div 1024) |->
     Table([i \in 0..1023 |-> (t - base) * 1024 + i])]

\* setup_paging: mem_set clears as many pages from the directory on as there are tables.
SetupPaging ==
  /\ routine = "setup_paging" /\ routine' = "goto_kernel"
  /\ LET cleared == [p \in (PageDirBase + 1)..(PageDirBase + PtbCount - 1) |-> Zero]
         tables == Written(PteInit(PageTblBase, PgCount), Written(cleared, mem))
         directory == Table(Written(PdeInit(0), PdeInit(KernelBase \div 1024)))
     IN  mem' = Written([p \in {PageDirBase} |-> directory], tables)
  /\ cr3' = PageDirBase
  /\ UNCHANGED <<file, copied, cs, ds, gs, gdtr, kernel_mem_size>>

\* memcpy of n pages, through the data segment
Memcpy(dst, src, n) ==
  Written([p \in {At(ds, dst + j) : j \in 0..(n - 1)} |->
             LET j == CHOOSE k \in 0..(n - 1) : At(ds, dst + k) = p
             IN  mem[At(ds, src + j)]],
          mem)

\* One program header in goto_kernel; the loader jumps to the kernel after the last.
GotoKernel ==
  /\ routine = "goto_kernel"
  /\ copied' = copied + 1
  /\ LET h == file.headers[copied + 1] IN
       mem' = IF h.type = "NULL" THEN mem
              ELSE Memcpy(h.vaddr, Kernel_File + h.offset, h.filesz)
  /\ IF copied' = Len(file.headers)
     THEN routine' = "memory_init" /\ cs' = KernelBase
     ELSE UNCHANGED <<routine, cs>>
  /\ UNCHANGED <<file, ds, gs, gdtr, cr3, kernel_mem_size>>

Loaded == {file.headers[i] : i \in {k \in DOMAIN file.headers : file.headers[k].type = "LOAD"}}

\* The image without its bss, and the bss, as far as it has pages of its own: _bss and
\* _end of link.lds
Text == UNION {h.vaddr..(h.vaddr + h.filesz - 1) : h \in Loaded}
BssSegment == CHOOSE h \in Loaded : h.filesz < h.memsz
BssStart == BssSegment.vaddr + BssSegment.filesz
BssEnd == BssSegment.vaddr + BssSegment.memsz
Bss == BssStart..(BssEnd - 1)

\* What memory_init leaves in a page: its loop stores a dword at _bss + n for each n from
\* the size down to 4, so it begins behind the end and leaves the first dword.
Wiped(b) == IF b = BssStart THEN AllButFirst ELSE IF b = BssEnd THEN OnlyFirst ELSE Zero

\* memory_init, as far as it clears the bss and chooses kernel_mem_size
MemoryInitBss ==
  /\ routine = "memory_init" /\ routine' = "arch_init"
  /\ LET wiped == Bss \cup {BssEnd}
     IN  mem' = Written([p \in {At(ds, b) : b \in wiped} |->
                           Wiped(CHOOSE b \in wiped : At(ds, b) = p)],
                        mem)
  /\ kernel_mem_size' \in KernelSizes
  /\ UNCHANGED <<file, copied, cs, ds, gs, gdtr, cr3>>

\* Where the linker may put gdt_table: the bss may begin in the last page of the text.
TablePages == Bss \cup {h.vaddr + h.filesz - 1 : h \in {k \in Loaded : k.filesz > 0}}

\* gdt_init (gdt_load, the new segments) and the gdt_load of tss_init.  gdtr takes the
\* offset of gdt_table; cs keeps the segment of the loader's gdt.
ArchInitSegments(gdt_table) ==
  /\ routine = "arch_init" /\ routine' = "page_init"
  /\ gdtr' = gdt_table
  /\ ds' = KernelBase /\ gs' = KernelBase + Video
  /\ UNCHANGED <<file, mem, copied, cs, cr3, kernel_mem_size>>

\* A faulty DirBase that forgets how many pages an entry of the directory stands for.
DirBasePages == KernelBase % 1024

\* base in page_init
DirBase == KernelBase \div 1024

\* page_init up to its load of cr3; directory and tables are written through ds.
PageInitSwitch ==
  /\ routine = "page_init" /\ routine' = "halt"
  /\ LET tables == (kernel_mem_size + 1023) \div 1024
         directory == Table([i \in DirBase..(DirBase + tables - 1) |-> PgTbl + i - DirBase])
         pages == Written([p \in {PgDir} |-> directory], PteInit(PgTbl, kernel_mem_size))
     IN  mem' = Written([p \in {At(ds, w) : w \in DOMAIN pages} |->
                           pages[CHOOSE w \in DOMAIN pages : At(ds, w) = p]],
                        mem)
  /\ cr3' = PgDir
  /\ UNCHANGED <<file, copied, cs, ds, gs, gdtr, kernel_mem_size>>

StartNext ==
  \/ SetupPaging \/ GotoKernel \/ MemoryInitBss
  \/ \E gdt_table \in TablePages : ArchInitSegments(gdt_table)
  \/ PageInitSwitch

StartSpec == StartInit /\ [][StartNext]_startVars

-----------------------------------------------------------------------------

\* The page of the file that belongs at an offset of the image
Meant(offset) ==
  LET h == CHOOSE k \in Loaded : offset \in k.vaddr..(k.vaddr + k.filesz - 1)
  IN  FromFile(h.offset + offset - h.vaddr)

InKernel == routine \in {"memory_init", "arch_init", "page_init", "halt"}

\* Through every change of segments and page tables the code that runs stays where it
\* runs, and the stack, the parameters and the screen stay the same frames; the kernel
\* finds at its offsets its own text and data, which neither the loader's page tables nor
\* its own have overwritten on the way from the file, and a bss that is cleared but for
\* its first dword.  The gdt can be read as long as segments are loaded from it.  For
\* files up to the loader's page directory at 128K.
KernelSeesItself ==
  (file.pages <= PageDirBase - Kernel_File) =>
    /\ ~InKernel => At(cs, Loader) = Loader
    /\ \A p \in {Stack} \cup Params : At(ds, p) = p
    /\ At(gs, 0) = Video
    /\ routine # "halt" => FrameOf(gdtr) = gdtr
    /\ InKernel => \A p \in Text :
         /\ At(cs, p) = p /\ At(ds, p) = p
         /\ mem[p] = Meant(p)
    /\ routine \in {"arch_init", "page_init", "halt"} =>
         \A p \in Bss : At(ds, p) = p /\ mem[p] = IF p = BssStart THEN AllButFirst ELSE Zero
=============================================================================
