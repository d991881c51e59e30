---------------------------------- MODULE Gdt ----------------------------------
(***************************************************************************)
(* The descriptor tables of kernel/arch/protect.c: arch_init fills the gdt *)
(* (segment.c, tss.c), after it users add, change, copy and remove         *)
(* descriptors of their own and fill the idt.                              *)
(*                                                                         *)
(* An attribute word is the set of its bits.  desc_create ors its upper    *)
(* half into a byte of an uninitialised descriptor: avl, D and G, the bits *)
(* 4, 6 and 7 of that byte, may be set although nobody asked for it.       *)
(***************************************************************************)
EXTENDS Integers, Sequences, FiniteSets

CONSTANTS GdtSize,     \* the number of descriptors
          Requests,    \* what users ask desc_create for
          Vectors,     \* entries of the idt
          Handlers,    \* functions for them
          GateKinds    \* attributes of gates

ASSUME GdtAssumption == GdtSize \in Nat /\ GdtSize > 7

VARIABLES gdt,       \* gdt_table
          idt,       \* idt_table, where it was filled
          started,   \* how many descriptors arch_init has added
          selector,  \* tss_sel
          owned      \* ghost: what was asked for at each index that is in use

gdtVars == <<gdt, idt, started, selector, owned>>

AVL == 4
D == 6
G == 7

DA_32 == {14}
DA_LIMIT_4K == {15}
DA_DPL3 == {5, 6}
DA_CR == {7, 4, 3, 1}
DA_DRW == {7, 4, 1}
DA_386TSS == {7, 3, 0}
DA_386CGate == {7, 3, 2}
DA_386IGate == {7, 3, 2, 1}
DA_386TGate == {7, 3, 2, 1, 0}
DA_TaskGate == {7, 2, 0}

Segment(base, access) ==
  [base |-> base, limit |-> 1048575, attribute |-> access \cup DA_32 \cup DA_LIMIT_4K]

\* What gdt_init asks for, at the indices of segment.h, and tss_init after it
KERNEL_CODE == 1
StartRequests ==
  <<Segment("kernel", DA_CR), Segment("kernel", DA_DRW),
    Segment("zero", DA_CR \cup DA_DPL3), Segment("zero", DA_DRW \cup DA_DPL3),
    Segment("video", DA_DRW \cup DA_DPL3),
    [base |-> "tss", limit |-> 108, attribute |-> DA_386TSS]>>

Low(attribute) == attribute \cap (0..7)
High(attribute) == {b - 8 : b \in attribute \ (0..7)}

\* The descriptors desc_create may return
DescCreate(r) ==
  {[base |-> r.base, limit |-> r.limit, access |-> Low(r.attribute),
    flags |-> High(r.attribute) \cup junk] : junk \in SUBSET {AVL, D, G}}

\* gate_create with the kernel's code selector
GateCreate(offset, attr) == [offset |-> offset, selector |-> 8, access |-> attr]

GdtStart ==
  /\ gdt = [i \in 0..(GdtSize - 1) |->
              [base |-> "zero", limit |-> 0, access |-> {}, flags |-> {}]]
  /\ idt = [v \in {} |-> GateCreate(0, {})]
  /\ started = 0 /\ selector = 0 /\ owned = [i \in {} |-> StartRequests[1]]

-----------------------------------------------------------------------------

\* A faulty GdtSet that leaves avl to desc_create.
GdtSetAsIs(index, item) == [gdt EXCEPT ![index] = item]

\* gdt_set
GdtSet(index, item) == [gdt EXCEPT ![index] = [item EXCEPT !.flags = @ \cup {AVL}]]

Give(index, r) ==
  owned' = [i \in DOMAIN owned \cup {index} |-> IF i = index THEN r ELSE owned[i]]

\* gdt_add when there is a free descriptor; it takes the first one
GdtAdd(index, r) ==
  /\ AVL \notin gdt[index].flags
  /\ \A i \in 1..(index - 1) : AVL \in gdt[i].flags
  /\ \E item \in DescCreate(r) : gdt' = GdtSet(index, item)
  /\ Give(index, r)

\* A faulty ArchInit that stores an index as the task state's selector.
ArchInitIndex(index) ==
  /\ started < 6
  /\ GdtAdd(index, StartRequests[started + 1])
  /\ started' = started + 1
  /\ selector' = IF started' = 6 THEN index ELSE selector
  /\ UNCHANGED idt

\* The gdt_adds of gdt_init and tss_init, and then GdtGetSel(i, 0)
ArchInit(index) ==
  /\ started < 6
  /\ GdtAdd(index, StartRequests[started + 1])
  /\ started' = started + 1
  /\ selector' = IF started' = 6 THEN index * 8 ELSE selector
  /\ UNCHANGED idt

Users == started = 6 /\ UNCHANGED <<started, selector>>
UserIndices == DOMAIN owned \ 1..6

\* gdt_add(desc_create(...))
UserAdd(index, r) == Users /\ GdtAdd(index, r) /\ UNCHANGED idt

\* gdt_set(index, desc_create(...)) at an index of the user
UserSet(index, r) ==
  /\ Users /\ index \in UserIndices
  /\ \E item \in DescCreate(r) : gdt' = GdtSet(index, item)
  /\ Give(index, r)
  /\ UNCHANGED idt

\* gdt_get, and gdt_set at an index of the user
UserCopy(index, from) ==
  /\ Users /\ index \in UserIndices /\ from \in DOMAIN owned
  /\ gdt' = GdtSet(index, gdt[from])
  /\ Give(index, owned[from])
  /\ UNCHANGED idt

\* gdt_remove
GdtRemove(index) ==
  /\ Users /\ index \in UserIndices
  /\ gdt' = [gdt EXCEPT ![index].flags = @ \ {AVL}]
  /\ owned' = [i \in DOMAIN owned \ {index} |-> owned[i]]
  /\ UNCHANGED idt

SetGate(v, gate) ==
  idt' = [w \in DOMAIN idt \cup {v} |-> IF w = v THEN gate ELSE idt[w]]

\* The bits of a privilege level, as the idt_init functions or them into an attribute:
\* not shifted to where a gate has its dpl (DA_DPL3), but over the lowest bits of its type.
DplBits(dpl) == {b \in {0, 1} : (dpl \div 2^b) % 2 = 1}

\* idt_init_call, idt_init_intr, idt_init_trap, idt_init_task
IdtInit(v, handle, kind, dpl) ==
  /\ Users
  /\ SetGate(v, GateCreate(handle, kind \cup DplBits(dpl)))
  /\ UNCHANGED <<gdt, owned>>

\* idt_get and idt_set
IdtCopy(v, from) ==
  /\ Users /\ from \in DOMAIN idt
  /\ SetGate(v, idt[from])
  /\ UNCHANGED <<gdt, owned>>

GdtNext ==
  \/ \E index \in 1..(GdtSize - 1) :
       \/ ArchInit(index)
       \/ \E r \in Requests : UserAdd(index, r) \/ UserSet(index, r)
       \/ \E from \in 1..(GdtSize - 1) : UserCopy(index, from)
       \/ GdtRemove(index)
  \/ \E v \in Vectors :
       \/ \E handle \in Handlers, kind \in GateKinds, dpl \in 0..3 : IdtInit(v, handle, kind, dpl)
       \/ \E from \in Vectors : IdtCopy(v, from)

GdtSpec == GdtStart /\ [][GdtNext]_gdtVars

-----------------------------------------------------------------------------

Holds(d, r) ==
  /\ d.base = r.base /\ d.limit = r.limit /\ d.access = Low(r.attribute)
  /\ High(r.attribute) \subseteq d.flags

\* Every index in use is marked as used, whatever junk its descriptor was made from, so
\* that no other user is given it; it holds what its own user asked for last; and what
\* is free or was removed is not marked.
IndexOwned ==
  \A i \in 1..(GdtSize - 1) :
    IF i \in DOMAIN owned
    THEN AVL \in gdt[i].flags /\ Holds(gdt[i], owned[i])
    ELSE AVL \notin gdt[i].flags

\* The selectors that segment registers, gates and the task register are loaded with
\* (8 to 40, and tss_sel) lead to the descriptors meant for them, exactly in the flags
\* of the five segments; every gate's selector leads to the kernel's code.
SegmentsExact ==
  started = 6 =>
    /\ \A i \in 1..6 : Holds(gdt[i], StartRequests[i])
    /\ \A i \in 1..5 : gdt[i].flags = High(StartRequests[i].attribute) \cup {AVL}
    /\ gdt[selector \div 8].base = "tss" /\ selector % 8 = 0
    /\ \A v \in DOMAIN idt : gdt[idt[v].selector \div 8] = gdt[KERNEL_CODE]
=============================================================================
