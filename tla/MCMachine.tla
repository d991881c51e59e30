------------------------------ MODULE MCMachine ------------------------------
(***************************************************************************)
(* The parts of the system that share no state with one another nor with   *)
(* the allocators: the boot disk, the memory layout, the descriptor        *)
(* tables, the interrupt masks, the handles, and the data structures of    *)
(* lib/.                                                                   *)
(* Part is chosen at the start and only that part takes steps, so that one *)
(* run checks each of them completely.                                     *)
(***************************************************************************)
EXTENDS LinkedList, Interrupts, Atomic, RoundQueue, StackArray, HashTable, Gdt, BootDisk,
        MemoryLayout, Numbers, MCHandle, MCStartUp

VARIABLE part

machineVars == <<part, maskVars, atomicVars, queueVars, stackVars, tableVars, vars, gdtVars,
                 diskVars, layoutVars, numberVars, handleVars, startVars>>

\* Keys that collide with each other and with those moved on by a collision, and wrap
\* around the end of the array
CollidingKeys == {2, 3, 4, 7}

\* Users' descriptors: a data segment of bytes, one of pages
SomeRequests ==
  {[base |-> "user", limit |-> 4095, attribute |-> DA_DRW \cup DA_32],
   Segment("user", DA_DRW \cup DA_DPL3)}
SomeGates == {DA_386IGate, DA_386TGate}

Ards(base, length, type) == [base |-> base, length |-> length, type |-> type]

\* The map of a PC with mb megabytes, in the order most BIOSes give it
PcMap(mb) == <<Ards(0, 159, 1), Ards(160, 96, 2), Ards(256, mb * 256 - 256, 1)>>
Padded(n, map) == [i \in 1..n |-> Ards(240, 1, 2)] \o map

\* Numbers of one to four digits and of six, nine and ten
SomeNumbers == 0..1200 \cup {123456, 123456789, 2147483647}
AllBytes == 0..255

\* The last megabyte of each layout and the first of the next, sizes beyond what the
\* code is right for, holes and entries above 4G, and maps of 24 to 27 entries
SomeMaps ==
  {PcMap(mb) : mb \in {4, 32, 33, 512, 513, 2560, 2561, 4096}} \cup
  {Padded(n, PcMap(64)) : n \in 21..24} \cup
  {<<Ards(256, 8000, 1), Ards(8300, 10, 1), Ards(9000, 300, 2)>>,
   Append(PcMap(3000), Ards(1048576, 1048576, 1))}

MachineInit ==
  /\ part \in {"interrupts", "atomic", "queue", "stack", "table", "lists", "gdt", "disk", "memory",
               "numbers", "handles", "start"}
  /\ MaskInit /\ AtomicInit /\ QueueInit /\ StackInit /\ TableInit /\ GdtStart /\ HandleInit
  /\ Init /\ (part = "lists" \/ \A c \in Cells : prev[c] = NULL)
  /\ IF part = "disk" THEN DiskInit ELSE DiskInit /\ \A i \in 1..4 : table[i] = Entry(0, 0, 0)
  /\ LayoutInit /\ (part = "memory" \/ bios = PcMap(4))
  /\ NumbersInit /\ (part = "numbers" \/ str[0] = Nul)
  /\ StartInit /\ (part = "start" \/ file = OneSegment)

\* Part p takes a step, no other does.
Alone(p) ==
  /\ part = p /\ UNCHANGED part
  /\ IF p = "interrupts" THEN TRUE ELSE UNCHANGED maskVars
  /\ IF p = "atomic" THEN TRUE ELSE UNCHANGED atomicVars
  /\ IF p = "queue" THEN TRUE ELSE UNCHANGED queueVars
  /\ IF p = "stack" THEN TRUE ELSE UNCHANGED stackVars
  /\ IF p = "table" THEN TRUE ELSE UNCHANGED tableVars
  /\ IF p = "lists" THEN TRUE ELSE UNCHANGED vars
  /\ IF p = "gdt" THEN TRUE ELSE UNCHANGED gdtVars
  /\ IF p = "disk" THEN TRUE ELSE UNCHANGED diskVars
  /\ IF p = "memory" THEN TRUE ELSE UNCHANGED layoutVars
  /\ IF p = "numbers" THEN TRUE ELSE UNCHANGED numberVars
  /\ IF p = "handles" THEN TRUE ELSE UNCHANGED handleVars
  /\ IF p = "start" THEN TRUE ELSE UNCHANGED startVars

MachineNext ==
  \/ Alone("interrupts") /\ MaskNext
  \/ Alone("atomic") /\ AtomicNext
  \/ Alone("queue") /\ QueueNext
  \/ Alone("stack") /\ StackNext
  \/ Alone("table") /\ TableNext
  \/ Alone("lists") /\ Next
  \/ Alone("gdt") /\ GdtNext
  \/ Alone("disk") /\ DiskNext
  \/ Alone("memory") /\ LayoutNext
  \/ Alone("numbers") /\ NumbersNext
  \/ Alone("handles") /\ HandleNext
  \/ Alone("start") /\ StartNext

MachineSpec == MachineInit /\ [][MachineNext]_machineVars /\ MaskFairness /\ TableFairness
=============================================================================
