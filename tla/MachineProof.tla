----------------------------- MODULE MachineProof -----------------------------
(***************************************************************************)
(* Proofs about the parts nearest to the machine: the masks of the         *)
(* interrupt controllers, the descriptor tables, where memory is laid out, *)
(* what is read from the boot disk, and how the kernel comes into sight of *)
(* itself.                                                                 *)
(***************************************************************************)
EXTENDS Interrupts, Gdt, MemoryLayout, BootDisk, StartUp, SequenceTheorems,
        WellFoundedInduction, TLAPS

(***************************************************************************)
(* enable_irq and disable_irq (kernel/arch/i8259.c) and the entry stubs    *)
(* (kernel/include/irq.inc): no handler is entered twice and no change of  *)
(* a mask is lost, for any interrupt lines and any number of requests.     *)
(***************************************************************************)

MaskInv == NoReentry /\ NoLostMask

\* The bit of a line, and that it tells the lines of a controller apart.
LEMMA BitOfLine ==
  ASSUME NEW irq \in Lines
  PROVE  /\ Bit(irq) \in 0..7 /\ Chip(irq) \in {"master", "slave"}
         /\ \A other \in Lines : Chip(irq) = Chip(other) /\ Bit(irq) = Bit(other) => irq = other
  BY LinesAssumption DEF Bit, Chip

LEMMA MaskInitInv == MaskInit => MaskInv
<1> SUFFICES ASSUME MaskInit PROVE MaskInv
  OBVIOUS
<1>1. mask \in Masks /\ agreed = mask /\ frames = <<>> /\ task = Idle /\ task.pc = "idle"
  BY DEF MaskInit, Masks, Idle
<1>2. frames \in Seq([irq : Lines, eflags : BOOLEAN]) /\ DOMAIN frames = {}
  BY <1>1, EmptySeq
<1>3. MaskTypeOK
  BY <1>1, <1>2 DEF MaskInit, MaskTypeOK, Tasks
<1>4. NoReentry
  BY <1>2, <1>3 DEF NoReentry, InService
<1>5. NoLostMask
  BY <1>1 DEF NoLostMask
<1> QED BY <1>4, <1>5 DEF MaskInv

(***************************************************************************)
(* The steps of the task: no handler is running.                           *)
(***************************************************************************)

\* What is said about handlers holds when there are none.
LEMMA NoFrames ==
  ASSUME MaskTypeOK', frames' = <<>>
  PROVE  NoReentry'
<1>1. DOMAIN frames' = {}
  BY EmptySeq
<1> QED BY <1>1 DEF NoReentry, InService

LEMMA TaskTypes ==
  ASSUME MaskTypeOK
  PROVE  /\ task.pc = "locked" =>
              task \in [pc : {"locked"}, irq : Lines, enable : BOOLEAN, eflags : BOOLEAN]
         /\ task.pc = "read" =>
              task \in [pc : {"read"}, irq : Lines, enable : BOOLEAN, eflags : BOOLEAN,
                        al : SUBSET (0..7)]
         /\ task.pc = "written" => task \in [pc : {"written"}, eflags : BOOLEAN]
         /\ task = Idle => task.pc = "idle"
  BY DEF MaskTypeOK, Tasks, Idle

LEMMA LockKeeps ==
  ASSUME MaskInv, NEW irq \in Lines, NEW enable \in BOOLEAN, KernelLock(irq, enable)
  PROVE  MaskInv'
<1>1. /\ task' = [pc |-> "locked", irq |-> irq, enable |-> enable, eflags |-> open]
      /\ open' = FALSE /\ frames' = <<>> /\ frames = <<>>
      /\ UNCHANGED <<mask, request, agreed>>
  BY DEF KernelLock, TaskRuns
<1>2. task' \in Tasks /\ task'.pc = "locked"
  BY <1>1 DEF Tasks, MaskInv, NoReentry, MaskTypeOK
<1>3. MaskTypeOK'
  BY <1>1, <1>2 DEF MaskInv, NoReentry, MaskTypeOK
<1>4. NoLostMask'
  BY <1>1, <1>2 DEF MaskInv, NoLostMask, TaskRuns
<1> QED BY <1>1, <1>3, <1>4, NoFrames DEF MaskInv

LEMMA ReadKeeps ==
  ASSUME MaskInv, ReadMask
  PROVE  MaskInv'
<1>1. /\ frames = <<>> /\ frames' = <<>> /\ task.pc = "locked"
      /\ task' = [pc |-> "read", irq |-> task.irq, enable |-> task.enable,
                  eflags |-> task.eflags, al |-> mask[Chip(task.irq)]]
      /\ UNCHANGED <<mask, request, open, agreed>>
  BY DEF ReadMask, TaskRuns
<1>2. task.irq \in Lines /\ task.enable \in BOOLEAN /\ task.eflags \in BOOLEAN /\ task # Idle
  BY <1>1, TaskTypes DEF MaskInv, NoReentry, Idle
<1>3. mask[Chip(task.irq)] \in SUBSET (0..7)
  BY <1>2, BitOfLine DEF MaskInv, NoReentry, MaskTypeOK, Masks
<1>4. task' \in Tasks /\ task'.pc = "read" /\ task'.al = mask[Chip(task'.irq)]
  BY <1>1, <1>2, <1>3 DEF Tasks
<1>5. MaskTypeOK'
  BY <1>1, <1>4 DEF MaskInv, NoReentry, MaskTypeOK
<1>6. NoLostMask'
  BY <1>1, <1>2, <1>4 DEF MaskInv, NoLostMask, TaskRuns
<1> QED BY <1>1, <1>5, <1>6, NoFrames DEF MaskInv

LEMMA WriteKeeps ==
  ASSUME MaskInv, WriteMask
  PROVE  MaskInv'
<1> DEFINE chip == Chip(task.irq)
           value == Changed(task.al, task.irq, task.enable)
<1>1. /\ frames = <<>> /\ frames' = <<>> /\ task.pc = "read"
      /\ mask' = [mask EXCEPT ![chip] = value]
      /\ agreed' = [agreed EXCEPT ![chip] = Changed(@, task.irq, task.enable)]
      /\ task' = [pc |-> "written", eflags |-> task.eflags]
      /\ UNCHANGED <<request, open>>
  BY DEF WriteMask, TaskRuns
<1>2. /\ task.irq \in Lines /\ task.al \in SUBSET (0..7) /\ task.eflags \in BOOLEAN
      /\ task # Idle
  BY <1>1, TaskTypes DEF MaskInv, NoReentry, Idle
<1>3. value \in SUBSET (0..7)
  BY <1>2, BitOfLine DEF Changed
<1>4. mask' \in Masks
  BY <1>1, <1>3 DEF MaskInv, NoReentry, MaskTypeOK, Masks
<1>5. mask' = agreed'
  <2>1. mask = agreed /\ task.al = mask[chip]
    BY <1>1 DEF MaskInv, NoLostMask
  <2> QED BY <1>1, <2>1
<1>6. task' \in Tasks /\ task'.pc = "written"
  BY <1>1, <1>2 DEF Tasks
<1>7. MaskTypeOK'
  BY <1>1, <1>4, <1>5, <1>6 DEF MaskInv, NoReentry, MaskTypeOK
<1>8. NoLostMask'
  BY <1>1, <1>2, <1>5, <1>6 DEF MaskInv, NoLostMask, TaskRuns
<1> QED BY <1>1, <1>7, <1>8, NoFrames DEF MaskInv

LEMMA UnlockKeeps ==
  ASSUME MaskInv, KernelUnlock
  PROVE  MaskInv'
<1>1. /\ frames = <<>> /\ frames' = <<>> /\ task.pc = "written"
      /\ open' = task.eflags /\ task' = Idle
      /\ UNCHANGED <<mask, request, agreed>>
  BY DEF KernelUnlock, TaskRuns
<1>2. task.eflags \in BOOLEAN /\ task'.pc = "idle"
  BY <1>1, TaskTypes DEF MaskInv, NoReentry, Idle
<1>3. MaskTypeOK'
  BY <1>1, <1>2 DEF MaskInv, NoReentry, MaskTypeOK, Tasks
<1>4. NoLostMask'
  BY <1>1, <1>2 DEF MaskInv, NoLostMask
<1> QED BY <1>1, <1>3, <1>4, NoFrames DEF MaskInv

(***************************************************************************)
(* The handlers: the task is not within enable_irq or disable_irq.         *)
(***************************************************************************)

FrameSet == [irq : Lines, eflags : BOOLEAN]

\* A handler that is entered for a line that has none.
LEMMA EnterKeeps ==
  ASSUME MaskInv, NEW irq \in Lines, open, irq \notin InService,
         frames' = Append(frames, Frame(irq)),
         UNCHANGED task, request' \subseteq Lines,
         mask' \in Masks, mask' = agreed', mask["slave"] \subseteq mask'["slave"],
         Chip(irq) = "slave" => Bit(irq) \in mask'["slave"] /\ open' = open,
         Chip(irq) = "master" => open' = FALSE
  PROVE  MaskInv'
<1> DEFINE n == Len(frames)
<1>1. /\ frames \in Seq(FrameSet) /\ n \in Nat /\ DOMAIN frames = 1..n
      /\ Frame(irq) \in FrameSet /\ Frame(irq).irq = irq
  BY LenProperties DEF MaskInv, NoReentry, MaskTypeOK, Frame, FrameSet
<1>2. /\ frames' \in Seq(FrameSet) /\ Len(frames') = n + 1 /\ DOMAIN frames' = 1..(n + 1)
      /\ \A i \in 1..n : frames'[i] = frames[i]
      /\ frames'[n + 1] = Frame(irq)
  BY <1>1, AppendProperties, LenProperties
<1>3. \A i \in 1..n : frames[i].irq \in Lines /\ frames[i].irq # irq /\ Chip(frames[i].irq) = "slave"
  <2>1. ASSUME NEW i \in 1..n PROVE frames[i].irq \in Lines /\ frames[i].irq # irq
    <3>1. frames[i] \in FrameSet
      BY <1>1, ElementOfSeq
    <3>2. frames[i].irq \in InService
      BY <1>1 DEF InService
    <3> QED BY <3>1, <3>2 DEF FrameSet
  <2>2. ASSUME NEW i \in 1..n PROVE Chip(frames[i].irq) = "slave"
    BY <1>1, <2>1, <2>2 DEF MaskInv, NoReentry, Chip
  <2> QED BY <2>1, <2>2
<1>4. task = Idle /\ task.pc = "idle"
  BY DEF MaskInv, NoLostMask, Idle
<1>5. MaskTypeOK'
  BY <1>2, <1>4 DEF MaskInv, NoReentry, MaskTypeOK, Tasks, FrameSet, Chip
<1>6. \A i, j \in DOMAIN frames' : frames'[i].irq = frames'[j].irq => i = j
  <2> SUFFICES ASSUME NEW i \in 1..(n + 1), NEW j \in 1..(n + 1),
                      frames'[i].irq = frames'[j].irq
               PROVE  i = j
    BY <1>2
  <2>1. CASE i \in 1..n /\ j \in 1..n
    BY <1>1, <1>2, <2>1 DEF MaskInv, NoReentry
  <2>2. CASE i = n + 1 \/ j = n + 1
    BY <1>1, <1>2, <1>3, <2>2
  <2> QED BY <1>1, <2>1, <2>2
<1>7. ASSUME NEW i \in 1..(n + 1), Chip(frames'[i].irq) = "slave"
      PROVE  Bit(frames'[i].irq) \in mask'["slave"]
  <2>1. CASE i \in 1..n
    BY <1>1, <1>2, <1>7, <2>1 DEF MaskInv, NoReentry, InService
  <2>2. CASE i = n + 1
    BY <1>1, <1>2, <1>7, <2>2
  <2> QED BY <1>1, <2>1, <2>2
<1>8. ASSUME NEW i \in 1..(n + 1), Chip(frames'[i].irq) = "master"
      PROVE  i = n + 1 /\ ~open'
  <2>1. i \notin 1..n
    BY <1>2, <1>3, <1>8
  <2> QED BY <1>1, <1>2, <1>8, <2>1
<1>9. NoReentry'
  BY <1>2, <1>5, <1>6, <1>7, <1>8 DEF NoReentry, InService
<1>10. NoLostMask'
  BY <1>4 DEF NoLostMask
<1> QED BY <1>9, <1>10 DEF MaskInv

\* A line whose request gets through while interrupts are open has no handler running.
LEMMA NotInService ==
  ASSUME MaskInv, NEW irq \in Lines, Signalled(irq), open
  PROVE  irq \notin InService
<1> SUFFICES ASSUME NEW i \in DOMAIN frames, frames[i].irq = irq PROVE FALSE
  BY DEF InService
<1>1. Chip(irq) = "slave"
  BY BitOfLine DEF MaskInv, NoReentry
<1>2. Bit(irq) \in mask["slave"]
  BY <1>1 DEF MaskInv, NoReentry, InService
<1> QED BY <1>1, <1>2 DEF Signalled

LEMMA MasterKeeps ==
  ASSUME MaskInv, NEW irq \in Lines, EnterMaster(irq)
  PROVE  MaskInv'
<1>1. /\ Chip(irq) = "master" /\ Signalled(irq) /\ open
      /\ request' = request \ {irq}
      /\ frames' = Append(frames, Frame(irq)) /\ open' = FALSE
      /\ mask' = [mask EXCEPT !["master"] = @ \cup {Bit(irq)}]
      /\ agreed' = [agreed EXCEPT !["master"] = @ \cup {Bit(irq)}]
      /\ UNCHANGED task
  BY DEF EnterMaster
<1>2. mask \in Masks /\ mask = agreed /\ request \subseteq Lines
  BY DEF MaskInv, NoReentry, MaskTypeOK, NoLostMask
<1>3. mask' \in Masks /\ mask' = agreed' /\ mask'["slave"] = mask["slave"]
  BY <1>1, <1>2, BitOfLine DEF Masks
<1>4. irq \notin InService
  BY <1>1, NotInService
<1> QED BY <1>1, <1>2, <1>3, <1>4, EnterKeeps

LEMMA SlaveKeeps ==
  ASSUME MaskInv, NEW irq \in Lines, EnterSlave(irq)
  PROVE  MaskInv'
<1>1. /\ Chip(irq) = "slave" /\ Signalled(irq) /\ open
      /\ request' = request \ {irq}
      /\ frames' = Append(frames, Frame(irq))
      /\ mask' = [mask EXCEPT !["slave"] = @ \cup {Bit(irq)}]
      /\ agreed' = [agreed EXCEPT !["slave"] = @ \cup {Bit(irq)}]
      /\ UNCHANGED <<task, open>>
  BY DEF EnterSlave
<1>2. mask \in Masks /\ mask = agreed /\ request \subseteq Lines
  BY DEF MaskInv, NoReentry, MaskTypeOK, NoLostMask
<1>3. /\ mask' \in Masks /\ mask' = agreed'
      /\ mask["slave"] \subseteq mask'["slave"] /\ Bit(irq) \in mask'["slave"]
  BY <1>1, <1>2, BitOfLine DEF Masks
<1>4. irq \notin InService
  BY <1>1, NotInService
<1> QED BY <1>1, <1>2, <1>3, <1>4, EnterKeeps

LEMMA LeaveKeeps ==
  ASSUME MaskInv, Leave
  PROVE  MaskInv'
<1> DEFINE n == Len(frames)
<1>1. /\ frames # <<>> /\ frames' = SubSeq(frames, 1, n - 1) /\ open' = Running.eflags
      /\ mask' = [mask EXCEPT !["master"] = @ \ {Bit(Running.irq)}]
      /\ agreed' = [agreed EXCEPT !["master"] = @ \ {Bit(Running.irq)}]
      /\ UNCHANGED <<request, task>>
  BY DEF Leave
<1>2. /\ frames \in Seq(FrameSet) /\ n \in Nat \ {0} /\ DOMAIN frames = 1..n
      /\ \A i \in 1..n : frames[i] \in FrameSet
  BY <1>1, LenProperties, EmptySeq, ElementOfSeq DEF MaskInv, NoReentry, MaskTypeOK, FrameSet
<1>3. /\ frames' \in Seq(FrameSet) /\ Len(frames') = n - 1
      /\ \A i \in 1..(n - 1) : frames'[i] = frames[i]
  BY <1>1, <1>2, SubSeqProperties
<1>4. DOMAIN frames' = 1..(n - 1)
  BY <1>3, LenProperties
<1>5. mask \in Masks /\ mask = agreed /\ Running.eflags \in BOOLEAN
  BY <1>2 DEF MaskInv, NoReentry, MaskTypeOK, NoLostMask, Running, FrameSet
<1>6. mask' \in Masks /\ mask' = agreed' /\ mask'["slave"] = mask["slave"]
  BY <1>1, <1>5 DEF Masks
<1>7. task = Idle /\ task.pc = "idle"
  BY <1>1 DEF MaskInv, NoLostMask, TaskRuns, Idle
<1>8. MaskTypeOK'
  BY <1>1, <1>3, <1>5, <1>6 DEF MaskInv, NoReentry, MaskTypeOK, FrameSet
<1>9. \A i, j \in DOMAIN frames' : frames'[i].irq = frames'[j].irq => i = j
  BY <1>2, <1>3, <1>4 DEF MaskInv, NoReentry
<1>10. ASSUME NEW i \in 1..(n - 1)
       PROVE  /\ Chip(frames'[i].irq) # "master"
              /\ Chip(frames'[i].irq) = "slave" => Bit(frames'[i].irq) \in mask'["slave"]
  <2>1. i \in DOMAIN frames /\ i # n
    <3>1. n \in Nat /\ DOMAIN frames = 1..n
      BY <1>2
    <3> HIDE DEF n
    <3> QED BY <3>1
  <2>2. frames'[i] = frames[i]
    BY <1>3
  <2> QED BY <1>6, <2>1, <2>2 DEF MaskInv, NoReentry, InService
<1>11. NoReentry'
  BY <1>4, <1>8, <1>9, <1>10 DEF NoReentry, InService
<1>12. NoLostMask'
  BY <1>1, <1>6, <1>7 DEF NoLostMask
<1> QED BY <1>11, <1>12 DEF MaskInv

-----------------------------------------------------------------------------

LEMMA MaskStep == MaskInv /\ [MaskNext]_maskVars => MaskInv'
<1> SUFFICES ASSUME MaskInv, [MaskNext]_maskVars PROVE MaskInv'
  OBVIOUS
<1>1. ASSUME NEW irq \in Lines, Request(irq) PROVE MaskInv'
  BY <1>1 DEF Request, MaskInv, NoReentry, MaskTypeOK, InService, NoLostMask, TaskRuns
<1>2. ASSUME NEW irq \in Lines, NEW enable \in BOOLEAN, KernelLock(irq, enable) PROVE MaskInv'
  BY <1>2, LockKeeps
<1>3. ASSUME NEW irq \in Lines, EnterMaster(irq) PROVE MaskInv'
  BY <1>3, MasterKeeps
<1>4. ASSUME NEW irq \in Lines, EnterSlave(irq) PROVE MaskInv'
  BY <1>4, SlaveKeeps
<1>5. CASE OpenInt
  <2>1. frames' = <<>> /\ task = Idle /\ open' = TRUE /\ UNCHANGED <<mask, request, agreed, task>>
    BY <1>5 DEF OpenInt, TaskRuns
  <2>2. MaskTypeOK'
    BY <1>5, <2>1 DEF OpenInt, MaskInv, NoReentry, MaskTypeOK
  <2>3. NoLostMask'
    BY <2>1 DEF MaskInv, NoLostMask, Idle
  <2> QED BY <2>1, <2>2, <2>3, NoFrames DEF MaskInv
<1>6. CASE ReadMask
  BY <1>6, ReadKeeps
<1>7. CASE WriteMask
  BY <1>7, WriteKeeps
<1>8. CASE KernelUnlock
  BY <1>8, UnlockKeeps
<1>9. CASE Leave
  BY <1>9, LeaveKeeps
<1>10. CASE UNCHANGED maskVars
  BY <1>10 DEF maskVars, MaskInv, NoReentry, MaskTypeOK, InService, NoLostMask, TaskRuns
<1> QED BY <1>1, <1>2, <1>3, <1>4, <1>5, <1>6, <1>7, <1>8, <1>9, <1>10 DEF MaskNext, TaskStep

LEMMA MaskInvariance == MaskSpec => []MaskInv
<1> QED BY MaskInitInv, MaskStep, PTL DEF MaskSpec

\* However interrupts nest, no line's handler is entered again before it has returned
\* (kernel/include/irq.inc), for any lines and any number of requests.
THEOREM HandlersNotReentered == MaskSpec => []NoReentry
<1>1. MaskInv => NoReentry
  BY DEF MaskInv
<1> QED BY <1>1, MaskInvariance, PTL

\* No change of a mask is lost between enable_irq, disable_irq and the handlers
\* (kernel/arch/i8259.c, kernel/include/irq.inc).
THEOREM MasksNotLost == MaskSpec => []NoLostMask
<1>1. MaskInv => NoLostMask
  BY DEF MaskInv
<1> QED BY <1>1, MaskInvariance, PTL

(***************************************************************************)
(* The descriptor tables (kernel/arch/protect.c): what is in use is marked *)
(* as used, and the descriptors of gdt_init and tss_init stay at the       *)
(* indices that segment.h and tss_sel name, for any number of descriptors, *)
(* any requests of users and any gates.                                    *)
(***************************************************************************)

IsDescriptor(d) ==
  d = [base |-> d.base, limit |-> d.limit, access |-> d.access, flags |-> d.flags]

GdtIndices == 0..(GdtSize - 1)

\* gdt_add hands out the indices of segment.h in the order of gdt_init, because nobody
\* else adds descriptors before it is done and nobody removes these afterwards.
GdtInv ==
  /\ DOMAIN gdt = GdtIndices /\ \A i \in GdtIndices : IsDescriptor(gdt[i])
  /\ started \in 0..6
  /\ DOMAIN owned \subseteq 1..(GdtSize - 1) /\ 1..started \subseteq DOMAIN owned
  /\ started < 6 => DOMAIN owned = 1..started
  /\ \A i \in 1..started : owned[i] = StartRequests[i]
  /\ \A i \in 1..5 : i <= started => gdt[i].flags = High(StartRequests[i].attribute) \cup {AVL}
  /\ started = 6 => selector = 48
  /\ \A v \in DOMAIN idt : idt[v].selector = 8
  /\ IndexOwned

LEMMA DescCreateMakes ==
  ASSUME NEW r, NEW item \in DescCreate(r)
  PROVE  /\ IsDescriptor(item) /\ Holds(item, r)
         /\ \E junk \in SUBSET {AVL, D, G} : item.flags = High(r.attribute) \cup junk
<1>1. PICK junk \in SUBSET {AVL, D, G} :
        item = [base |-> r.base, limit |-> r.limit, access |-> Low(r.attribute),
                flags |-> High(r.attribute) \cup junk]
  BY DEF DescCreate
<1> QED BY <1>1 DEF IsDescriptor, Holds

\* gdt_set of a descriptor that holds what r asks for, whoever calls it.
LEMMA SetKeeps ==
  ASSUME GdtInv, NEW index \in 1..(GdtSize - 1), NEW item, IsDescriptor(item),
         NEW r, Holds(item, r), gdt' = GdtSet(index, item), Give(index, r)
  PROVE  /\ DOMAIN gdt' = GdtIndices /\ \A i \in GdtIndices : IsDescriptor(gdt'[i])
         /\ gdt'[index].flags = item.flags \cup {AVL}
         /\ \A i \in GdtIndices \ {index} : gdt'[i] = gdt[i]
         /\ DOMAIN owned' = DOMAIN owned \cup {index} /\ owned'[index] = r
         /\ \A i \in DOMAIN owned \ {index} : owned'[i] = owned[i]
         /\ IndexOwned'
<1> DEFINE stored == [item EXCEPT !.flags = @ \cup {AVL}]
<1>1. DOMAIN gdt = GdtIndices /\ index \in GdtIndices /\ \A i \in GdtIndices : IsDescriptor(gdt[i])
  BY GdtAssumption DEF GdtInv, GdtIndices
<1>2. stored = [base |-> item.base, limit |-> item.limit, access |-> item.access,
                flags |-> item.flags \cup {AVL}]
  BY DEF IsDescriptor
<1>3. IsDescriptor(stored) /\ stored.flags = item.flags \cup {AVL} /\ Holds(stored, r)
  BY <1>2 DEF IsDescriptor, Holds
<1> HIDE DEF stored
<1>4. gdt' = [gdt EXCEPT ![index] = stored]
  BY DEF GdtSet, stored
<1>5. /\ DOMAIN gdt' = GdtIndices /\ gdt'[index] = stored
      /\ \A i \in GdtIndices \ {index} : gdt'[i] = gdt[i]
  BY <1>1, <1>4
<1>6. /\ DOMAIN owned' = DOMAIN owned \cup {index} /\ owned'[index] = r
      /\ \A i \in DOMAIN owned \ {index} : owned'[i] = owned[i]
  BY DEF Give
<1>7. IndexOwned'
  <2> SUFFICES ASSUME NEW i \in 1..(GdtSize - 1)
               PROVE  IF i \in DOMAIN owned'
                      THEN AVL \in gdt'[i].flags /\ Holds(gdt'[i], owned'[i])
                      ELSE AVL \notin gdt'[i].flags
    BY DEF IndexOwned
  <2>1. CASE i = index
    <3>1. AVL \in stored.flags
      BY <1>3
    <3> QED BY <2>1, <3>1, <1>3, <1>5, <1>6
  <2>2. CASE i # index
    <3>1. i \in GdtIndices
      BY GdtAssumption DEF GdtIndices
    <3>2. IF i \in DOMAIN owned
          THEN AVL \in gdt[i].flags /\ Holds(gdt[i], owned[i])
          ELSE AVL \notin gdt[i].flags
      BY DEF GdtInv, IndexOwned
    <3> QED BY <2>2, <3>1, <3>2, <1>5, <1>6
  <2> QED BY <2>1, <2>2
<1> QED BY <1>1, <1>3, <1>5, <1>6, <1>7

\* The descriptors of gdt_init ask for both D and G, so that the junk of desc_create
\* does not show in them.
LEMMA SegmentFlags ==
  ASSUME NEW i \in 1..5
  PROVE  {D, G} \subseteq High(StartRequests[i].attribute)
<1>1. DA_32 \cup DA_LIMIT_4K \subseteq StartRequests[i].attribute
  BY DEF StartRequests, Segment
<1>2. 14 \in StartRequests[i].attribute /\ 15 \in StartRequests[i].attribute
  BY <1>1 DEF DA_32, DA_LIMIT_4K
<1>3. 14 \notin 0..7 /\ 15 \notin 0..7 /\ 14 - 8 = D /\ 15 - 8 = G
  BY DEF D, G
<1> QED BY <1>2, <1>3 DEF High

LEMMA GdtStartInv == GdtStart => GdtInv
<1> SUFFICES ASSUME GdtStart PROVE GdtInv
  OBVIOUS
<1>1. /\ DOMAIN gdt = GdtIndices
      /\ \A i \in GdtIndices :
           gdt[i] = [base |-> "zero", limit |-> 0, access |-> {}, flags |-> {}]
      /\ started = 0 /\ DOMAIN owned = {} /\ DOMAIN idt = {}
  BY DEF GdtStart, GdtIndices
<1>2. \A i \in GdtIndices : IsDescriptor(gdt[i]) /\ gdt[i].flags = {}
  BY <1>1 DEF IsDescriptor
<1>3. 1..(GdtSize - 1) \subseteq GdtIndices
  BY GdtAssumption DEF GdtIndices
<1>4. IndexOwned
  BY <1>1, <1>2, <1>3 DEF IndexOwned
<1> QED BY <1>1, <1>2, <1>4 DEF GdtInv

LEMMA ArchInitKeeps ==
  ASSUME GdtInv, NEW index \in 1..(GdtSize - 1), ArchInit(index)
  PROVE  GdtInv'
<1> DEFINE r == StartRequests[started + 1]
<1>1. /\ started < 6 /\ started' = started + 1 /\ GdtAdd(index, r)
      /\ selector' = IF started' = 6 THEN index * 8 ELSE selector
      /\ UNCHANGED idt
  BY DEF ArchInit
<1>2. PICK item \in DescCreate(r) : gdt' = GdtSet(index, item)
  BY <1>1 DEF GdtAdd
<1> HIDE DEF r
<1>3. /\ IsDescriptor(item) /\ Holds(item, r)
      /\ \E junk \in SUBSET {AVL, D, G} : item.flags = High(r.attribute) \cup junk
  BY DescCreateMakes
<1>4. /\ DOMAIN gdt' = GdtIndices /\ \A i \in GdtIndices : IsDescriptor(gdt'[i])
      /\ gdt'[index].flags = item.flags \cup {AVL}
      /\ \A i \in GdtIndices \ {index} : gdt'[i] = gdt[i]
      /\ DOMAIN owned' = DOMAIN owned \cup {index} /\ owned'[index] = r
      /\ \A i \in DOMAIN owned \ {index} : owned'[i] = owned[i]
      /\ IndexOwned'
  BY <1>1, <1>2, <1>3, SetKeeps DEF GdtAdd
\* The first index that is not marked is the one after the last that was given out.
<1>5. started \in 0..5 /\ DOMAIN owned = 1..started
  BY <1>1 DEF GdtInv
<1>6. index = started + 1
  <2>1. index \notin DOMAIN owned
    BY <1>1 DEF GdtAdd, GdtInv, IndexOwned
  <2>2. \A i \in 1..(index - 1) : i \in DOMAIN owned
    <3> TAKE i \in 1..(index - 1)
    <3>1. i \in 1..(GdtSize - 1) /\ AVL \in gdt[i].flags
      BY <1>1, GdtAssumption DEF GdtAdd
    <3> QED BY <3>1 DEF GdtInv, IndexOwned
  <2>3. index > started
    BY <2>1, <1>5
  <2>4. index - 1 \in 1..(index - 1) \/ index = 1
    OBVIOUS
  <2>5. index - 1 <= started
    BY <2>2, <2>4, <1>5
  <2> QED BY <2>3, <2>5, <1>5
<1>7. started' \in 1..6 /\ DOMAIN owned' = 1..started' /\ DOMAIN owned' \subseteq 1..(GdtSize - 1)
  BY <1>1, <1>4, <1>5, <1>6, GdtAssumption
<1>8. \A i \in 1..started' : owned'[i] = StartRequests[i]
  <2> TAKE i \in 1..started'
  <2>1. CASE i = index
    BY <2>1, <1>4, <1>6 DEF r
  <2>2. CASE i # index
    BY <2>2, <1>1, <1>4, <1>5, <1>6 DEF GdtInv
  <2> QED BY <2>1, <2>2
<1>9. \A i \in 1..5 : i <= started' =>
        gdt'[i].flags = High(StartRequests[i].attribute) \cup {AVL}
  <2> SUFFICES ASSUME NEW i \in 1..5, i <= started'
               PROVE  gdt'[i].flags = High(StartRequests[i].attribute) \cup {AVL}
    OBVIOUS
  <2>1. CASE i = index
    <3>1. r = StartRequests[i]
      BY <2>1, <1>6 DEF r
    <3>2. {D, G} \subseteq High(r.attribute)
      BY <3>1, SegmentFlags
    <3>3. PICK junk \in SUBSET {AVL, D, G} : item.flags = High(r.attribute) \cup junk
      BY <1>3
    <3>4. item.flags \cup {AVL} = High(r.attribute) \cup {AVL}
      BY <3>2, <3>3
    <3> QED BY <2>1, <3>1, <3>4, <1>4
  <2>2. CASE i # index
    <3>1. i <= started /\ i \in GdtIndices
      BY <2>2, <1>1, <1>5, <1>6, GdtAssumption DEF GdtIndices
    <3> QED BY <2>2, <3>1, <1>4 DEF GdtInv
  <2> QED BY <2>1, <2>2
<1>10. started' = 6 => selector' = 48
  BY <1>1, <1>5, <1>6
<1>11. \A v \in DOMAIN idt' : idt'[v].selector = 8
  BY <1>1 DEF GdtInv
<1> QED BY <1>4, <1>7, <1>8, <1>9, <1>10, <1>11 DEF GdtInv

-----------------------------------------------------------------------------

\* What a user does to an index that is not one of segment.h.
LEMMA UserKeeps ==
  ASSUME GdtInv, started = 6, UNCHANGED <<started, selector>>, NEW index \in 7..(GdtSize - 1),
         DOMAIN gdt' = GdtIndices, \A i \in GdtIndices : IsDescriptor(gdt'[i]),
         \A i \in GdtIndices \ {index} : gdt'[i] = gdt[i],
         DOMAIN owned' \ {index} = DOMAIN owned \ {index},
         \A i \in DOMAIN owned \ {index} : owned'[i] = owned[i],
         \A v \in DOMAIN idt' : idt'[v].selector = 8,
         IndexOwned'
  PROVE  GdtInv'
<1>1. index \in 1..(GdtSize - 1) /\ \A i \in 1..6 : i # index /\ i \in GdtIndices
  BY GdtAssumption DEF GdtIndices
<1>2. 1..6 \subseteq DOMAIN owned /\ DOMAIN owned \subseteq 1..(GdtSize - 1)
  BY DEF GdtInv
<1>3. 1..6 \subseteq DOMAIN owned' /\ DOMAIN owned' \subseteq 1..(GdtSize - 1)
  BY <1>1, <1>2
<1>4. \A i \in 1..6 : owned'[i] = StartRequests[i]
  BY <1>1, <1>2 DEF GdtInv
<1>5. \A i \in 1..5 : gdt'[i].flags = High(StartRequests[i].attribute) \cup {AVL}
  <2> TAKE i \in 1..5
  <2>1. i \in 1..6 /\ i <= started
    OBVIOUS
  <2> QED BY <1>1, <2>1 DEF GdtInv
<1>6. selector' = 48 /\ started' = 6
  BY DEF GdtInv
<1> QED BY <1>3, <1>4, <1>5, <1>6 DEF GdtInv

\* A descriptor of the user is stored at an index of the user.
LEMMA UserSetKeeps ==
  ASSUME GdtInv, Users, NEW index \in 1..(GdtSize - 1), index \notin 1..6,
         NEW item, IsDescriptor(item), NEW r, Holds(item, r),
         gdt' = GdtSet(index, item), Give(index, r), UNCHANGED idt
  PROVE  GdtInv'
<1>1. started = 6 /\ UNCHANGED <<started, selector>> /\ index \in 7..(GdtSize - 1)
  BY DEF Users
<1>2. /\ DOMAIN gdt' = GdtIndices /\ \A i \in GdtIndices : IsDescriptor(gdt'[i])
      /\ \A i \in GdtIndices \ {index} : gdt'[i] = gdt[i]
      /\ DOMAIN owned' = DOMAIN owned \cup {index}
      /\ \A i \in DOMAIN owned \ {index} : owned'[i] = owned[i]
      /\ IndexOwned'
  BY SetKeeps
<1>3. DOMAIN owned' \ {index} = DOMAIN owned \ {index}
  BY <1>2
<1>4. \A v \in DOMAIN idt' : idt'[v].selector = 8
  BY DEF GdtInv
<1> QED BY <1>1, <1>2, <1>3, <1>4, UserKeeps

LEMMA UserAddKeeps ==
  ASSUME GdtInv, NEW index \in 1..(GdtSize - 1), NEW r, UserAdd(index, r)
  PROVE  GdtInv'
<1>1. Users /\ GdtAdd(index, r) /\ UNCHANGED idt
  BY DEF UserAdd
<1>2. index \notin 1..6
  <2>1. index \notin DOMAIN owned
    BY <1>1 DEF GdtAdd, GdtInv, IndexOwned
  <2> QED BY <2>1, <1>1 DEF Users, GdtInv
<1>3. PICK item \in DescCreate(r) : gdt' = GdtSet(index, item)
  BY <1>1 DEF GdtAdd
<1>4. IsDescriptor(item) /\ Holds(item, r) /\ Give(index, r)
  BY <1>1, DescCreateMakes DEF GdtAdd
<1> QED BY <1>1, <1>2, <1>3, <1>4, UserSetKeeps

LEMMA RemoveKeeps ==
  ASSUME GdtInv, NEW index \in 1..(GdtSize - 1), GdtRemove(index)
  PROVE  GdtInv'
<1> DEFINE cleared == [gdt[index] EXCEPT !.flags = @ \ {AVL}]
<1>1. /\ started = 6 /\ UNCHANGED <<started, selector, idt>> /\ index \in DOMAIN owned \ 1..6
      /\ gdt' = [gdt EXCEPT ![index] = cleared]
      /\ owned' = [i \in DOMAIN owned \ {index} |-> owned[i]]
  BY DEF GdtRemove, Users, UserIndices
<1>2. DOMAIN gdt = GdtIndices /\ index \in GdtIndices /\ \A i \in GdtIndices : IsDescriptor(gdt[i])
  BY GdtAssumption DEF GdtInv, GdtIndices
<1>3. cleared = [base |-> gdt[index].base, limit |-> gdt[index].limit,
                 access |-> gdt[index].access, flags |-> gdt[index].flags \ {AVL}]
  BY <1>2 DEF IsDescriptor
<1>4. IsDescriptor(cleared) /\ AVL \notin cleared.flags
  BY <1>3 DEF IsDescriptor
<1> HIDE DEF cleared
<1>5. /\ DOMAIN gdt' = GdtIndices /\ gdt'[index] = cleared
      /\ \A i \in GdtIndices \ {index} : gdt'[i] = gdt[i]
  BY <1>1, <1>2
<1>6. /\ DOMAIN owned' = DOMAIN owned \ {index}
      /\ \A i \in DOMAIN owned \ {index} : owned'[i] = owned[i]
  BY <1>1
<1>7. IndexOwned'
  <2> SUFFICES ASSUME NEW i \in 1..(GdtSize - 1)
               PROVE  IF i \in DOMAIN owned'
                      THEN AVL \in gdt'[i].flags /\ Holds(gdt'[i], owned'[i])
                      ELSE AVL \notin gdt'[i].flags
    BY DEF IndexOwned
  <2>1. CASE i = index
    BY <2>1, <1>4, <1>5, <1>6
  <2>2. CASE i # index
    <3>1. i \in GdtIndices
      BY GdtAssumption DEF GdtIndices
    <3>2. IF i \in DOMAIN owned
          THEN AVL \in gdt[i].flags /\ Holds(gdt[i], owned[i])
          ELSE AVL \notin gdt[i].flags
      BY DEF GdtInv, IndexOwned
    <3> QED BY <2>2, <3>1, <3>2, <1>5, <1>6
  <2> QED BY <2>1, <2>2
<1>8. \A i \in GdtIndices : IsDescriptor(gdt'[i])
  BY <1>2, <1>4, <1>5
<1>9. \A v \in DOMAIN idt' : idt'[v].selector = 8
  BY <1>1 DEF GdtInv
<1>10. index \in 7..(GdtSize - 1) /\ DOMAIN owned' \ {index} = DOMAIN owned \ {index}
  BY <1>1, <1>6
<1> QED BY <1>1, <1>5, <1>6, <1>7, <1>8, <1>9, <1>10, UserKeeps

\* A gate with the kernel's selector is stored in the idt.
LEMMA GateKeeps ==
  ASSUME GdtInv, Users, UNCHANGED <<gdt, owned>>, NEW v, NEW gate, gate.selector = 8,
         SetGate(v, gate)
  PROVE  GdtInv'
<1>1. \A w \in DOMAIN idt' : idt'[w].selector = 8
  BY DEF SetGate, GdtInv
<1>2. IndexOwned'
  BY DEF GdtInv, IndexOwned
<1>3. UNCHANGED <<started, selector>>
  BY DEF Users
<1> QED BY <1>1, <1>2, <1>3 DEF GdtInv

LEMMA GdtStep == GdtInv /\ [GdtNext]_gdtVars => GdtInv'
<1> SUFFICES ASSUME GdtInv, [GdtNext]_gdtVars PROVE GdtInv'
  OBVIOUS
<1>1. ASSUME NEW index \in 1..(GdtSize - 1), ArchInit(index) PROVE GdtInv'
  BY <1>1, ArchInitKeeps
<1>2. ASSUME NEW index \in 1..(GdtSize - 1), NEW r \in Requests, UserAdd(index, r) PROVE GdtInv'
  BY <1>2, UserAddKeeps
<1>3. ASSUME NEW index \in 1..(GdtSize - 1), NEW r \in Requests, UserSet(index, r) PROVE GdtInv'
  <2>1. PICK item \in DescCreate(r) : gdt' = GdtSet(index, item)
    BY <1>3 DEF UserSet
  <2>2. /\ Users /\ index \notin 1..6 /\ Give(index, r) /\ UNCHANGED idt
        /\ IsDescriptor(item) /\ Holds(item, r)
    BY <1>3, DescCreateMakes DEF UserSet, UserIndices
  <2> QED BY <2>1, <2>2, UserSetKeeps
<1>4. ASSUME NEW index \in 1..(GdtSize - 1), NEW from \in 1..(GdtSize - 1), UserCopy(index, from)
      PROVE  GdtInv'
  <2>1. /\ Users /\ index \notin 1..6 /\ Give(index, owned[from]) /\ UNCHANGED idt
        /\ gdt' = GdtSet(index, gdt[from]) /\ from \in DOMAIN owned
    BY <1>4 DEF UserCopy, UserIndices
  <2>2. IsDescriptor(gdt[from]) /\ Holds(gdt[from], owned[from])
    BY <2>1, GdtAssumption DEF GdtInv, GdtIndices, IndexOwned
  <2> QED BY <2>1, <2>2, UserSetKeeps
<1>5. ASSUME NEW index \in 1..(GdtSize - 1), GdtRemove(index) PROVE GdtInv'
  BY <1>5, RemoveKeeps
<1>6. ASSUME NEW v, NEW handle, NEW kind, NEW dpl,
             IdtInit(v, handle, kind, dpl)
      PROVE  GdtInv'
  <2>1. GateCreate(handle, kind \cup DplBits(dpl)).selector = 8
    BY DEF GateCreate
  <2> QED BY <1>6, <2>1, GateKeeps DEF IdtInit
<1>7. ASSUME NEW v, NEW from, IdtCopy(v, from) PROVE GdtInv'
  <2>1. idt[from].selector = 8
    BY <1>7 DEF IdtCopy, GdtInv
  <2> QED BY <1>7, <2>1, GateKeeps DEF IdtCopy
<1>8. CASE UNCHANGED gdtVars
  BY <1>8 DEF gdtVars, GdtInv, IndexOwned
<1> QED BY <1>1, <1>2, <1>3, <1>4, <1>5, <1>6, <1>7, <1>8 DEF GdtNext

LEMMA GdtInvariance == GdtSpec => []GdtInv
<1> QED BY GdtStartInv, GdtStep, PTL DEF GdtSpec

\* The mark that says an index is in use is right, whatever desc_create leaves in the
\* bits nobody asked for (protect.c, gdt_set, gdt_add, gdt_remove).
THEOREM IndicesOwned == GdtSpec => []IndexOwned
<1>1. GdtInv => IndexOwned
  BY DEF GdtInv
<1> QED BY <1>1, GdtInvariance, PTL

\* The selectors of segment.h, tss_sel and every gate lead to the descriptors meant for
\* them, whatever users do to their own (segment.c, tss.c, protect.c).
THEOREM SegmentsStay == GdtSpec => []SegmentsExact
<1>1. GdtInv => SegmentsExact
  <2> SUFFICES ASSUME GdtInv, started = 6 PROVE SegmentsExact
    BY DEF SegmentsExact
  <2>1. \A i \in 1..6 : i \in 1..(GdtSize - 1) /\ i \in DOMAIN owned
    BY GdtAssumption DEF GdtInv
  <2>2. \A i \in 1..6 : Holds(gdt[i], StartRequests[i])
    BY <2>1 DEF GdtInv, IndexOwned
  <2>3. \A i \in 1..5 : gdt[i].flags = High(StartRequests[i].attribute) \cup {AVL}
    BY DEF GdtInv
  <2>4. selector \div 8 = 6 /\ selector % 8 = 0
    BY DEF GdtInv
  <2>5. StartRequests[6].base = "tss"
    BY DEF StartRequests
  <2>6. gdt[selector \div 8].base = "tss"
    BY <2>2, <2>4, <2>5 DEF Holds
  <2>7. \A v \in DOMAIN idt : idt[v].selector \div 8 = KERNEL_CODE
    BY DEF GdtInv, KERNEL_CODE
  <2> QED BY <2>2, <2>3, <2>4, <2>6, <2>7 DEF SegmentsExact
<1> QED BY <1>1, GdtInvariance, PTL

-----------------------------------------------------------------------------
(***************************************************************************)
(* memory_init (kernel/memory.c) finds the size of memory and lays out the *)
(* kernel's part of it, page_init (kernel/page/page_init.c) maps it, for   *)
(* every memory map the loader may have collected.                         *)
(***************************************************************************)

(***************************************************************************)
(* The layouts, for every number of megabytes.                             *)
(***************************************************************************)

\* All that the provers need to know of Limit; a range up to it is too long to enumerate.
LEMMA LimitIs == Limit \in Nat /\ Limit >= 4096 * 256 /\ Limit <= 4096 * 256
  BY DEF Limit

LEMMA WrapIs ==
  ASSUME NEW n \in Nat
  PROVE  /\ Wrap(n) \in Nat /\ Wrap(n) < Limit
         /\ n < Limit => Wrap(n) = n
  BY DEF Wrap, Limit

LEMMA Quotient ==
  ASSUME NEW n \in Nat, n < 25 * Limit
  PROVE  n \div Limit \in 0..24
  BY DEF Limit

LEMMA InLimit ==
  /\ 0 \in 0..(Limit - 1) /\ 1 \in 0..(Limit - 1)
  /\ \A n \in 0..(Limit - 1) : n \in Nat /\ n < Limit /\ Limit - n \in Nat
<1>1. Limit \in Nat /\ Limit > 1
  BY LimitIs
<1> QED BY <1>1

AreasFor(mb) ==
  {[start |-> 0, size |-> 512], [start |-> BaseFor(mb), size |-> mb]} \cup
  {RegionsFor(mb)[i] : i \in DOMAIN RegionsFor(mb)}

\* The descriptors start where the regions are not: what there is, in each layout.
LEMMA AreasCases ==
  ASSUME NEW mb \in Nat, mb <= 2560
  PROVE  AreasFor(mb) =
           IF mb <= 32
           THEN {[start |-> 0, size |-> 512], [start |-> 512, size |-> mb],
                 [start |-> 512 + mb, size |-> 512 - mb]}
           ELSE IF mb <= 512
           THEN {[start |-> 0, size |-> 512], [start |-> 512, size |-> mb],
                 [start |-> 1024, size |-> 3072]}
           ELSE {[start |-> 0, size |-> 512], [start |-> 5632, size |-> mb],
                 [start |-> 5632 + mb, size |-> 2560 - mb], [start |-> 512, size |-> 4096]}
<1>1. ASSUME NEW n \in Nat, n <= 8192 PROVE Wrap(n) = n
  BY <1>1, LimitIs, WrapIs
<1>2. CASE mb <= 32
  <2>1. RegionsFor(mb) = <<[start |-> 512 + mb, size |-> 512 - mb]>>
    BY <1>1, <1>2 DEF RegionsFor, Region
  <2>2. {RegionsFor(mb)[i] : i \in DOMAIN RegionsFor(mb)}
          = {[start |-> 512 + mb, size |-> 512 - mb]}
    BY <2>1
  <2> QED BY <1>2, <2>2 DEF AreasFor, BaseFor
<1>3. CASE mb > 32 /\ mb <= 512
  <2>1. RegionsFor(mb) = <<[start |-> 1024, size |-> 3072]>>
    BY <1>1, <1>3 DEF RegionsFor, Region
  <2>2. {RegionsFor(mb)[i] : i \in DOMAIN RegionsFor(mb)} = {[start |-> 1024, size |-> 3072]}
    BY <2>1
  <2> QED BY <1>3, <2>2 DEF AreasFor, BaseFor
<1>4. CASE mb > 512
  <2>1. RegionsFor(mb) = <<[start |-> 5632 + mb, size |-> 2560 - mb],
                           [start |-> 512, size |-> 4096]>>
    BY <1>1, <1>4 DEF RegionsFor, Region
  <2>2. {RegionsFor(mb)[i] : i \in DOMAIN RegionsFor(mb)}
          = {[start |-> 5632 + mb, size |-> 2560 - mb], [start |-> 512, size |-> 4096]}
    BY <2>1
  <2> QED BY <1>4, <2>2 DEF AreasFor, BaseFor
<1> QED BY <1>2, <1>3, <1>4

\* Apart, within the kernel's space, and no region twice.
LEMMA AreasApart ==
  ASSUME NEW mb \in Nat, mb <= 2560
  PROVE  /\ \A a, b \in AreasFor(mb) :
              a = b \/ a.start + a.size <= b.start \/ b.start + b.size <= a.start
         /\ \A a \in AreasFor(mb) :
              a.start \in Nat /\ a.size \in Nat /\ a.start + a.size <= KernelPagesFor(mb)
         /\ \A i, j \in DOMAIN RegionsFor(mb) : RegionsFor(mb)[i] = RegionsFor(mb)[j] => i = j
<1>1. CASE mb <= 32
  BY <1>1, AreasCases DEF KernelPagesFor, RegionsFor
<1>2. CASE mb > 32 /\ mb <= 512
  BY <1>2, AreasCases DEF KernelPagesFor, RegionsFor
<1>3. CASE mb > 512
  BY <1>3, AreasCases, LimitIs, WrapIs DEF KernelPagesFor, RegionsFor, Region
<1> QED BY <1>1, <1>2, <1>3

\* The tables that page_init enters reach as far as the kernel's space.
LEMMA TablesReach ==
  ASSUME NEW mb \in Nat, NEW n \in 0..(KernelPagesFor(mb) - 1)
  PROVE  n \div 1024 < TableCount(KernelPagesFor(mb))
  BY DEF KernelPagesFor, TableCount

(***************************************************************************)
(* The invariant.                                                          *)
(***************************************************************************)

\* The loader collects the map in its order, and counts right up to the table's end.
CollectInv ==
  /\ Len(mem_info) <= Len(bios)
  /\ \A i \in 1..Len(mem_info) : mem_info[i] = bios[i]
  /\ stage = "map" => ~carry
  /\ (stage # "map" /\ ~carry) => Len(mem_info) = Len(bios)
  /\ (Len(mem_info) <= TableEntries /\ ~carry) => mem_mcr_number = Len(mem_info)
  /\ (~LaidOut /\ Len(mem_info) <= TableEntries) => mem_size = 0

\* memory_init takes the highest end there is and lays out the memory for it.
SizeInv ==
  LaidOut =>
    /\ \A n \in UsableEnds : n <= mem_size
    /\ Len(mem_info) <= TableEntries => mem_size \in {0} \cup UsableEnds
    /\ megabytes = RoundedUp(mem_size)
    /\ phypage_base = BaseFor(megabytes)
    /\ free_items = RegionsFor(megabytes)
    /\ kernel_pages = KernelPagesFor(megabytes)

MappedPages ==
  {BasePage + k : k \in {n \in 0..(kernel_pages - 1) : n \div 1024 < TableCount(kernel_pages)}}

MapInv == stage = "up" => page_dir = [p \in MappedPages |-> p - BasePage]

LayoutInv == LayoutTypeOK /\ CollectInv /\ SizeInv /\ MapInv

LEMMA Greatest ==
  ASSUME NEW S, S \subseteq 0..(Limit - 1), S # {}
  PROVE  \E m \in S : \A n \in S : n <= m
<1> DEFINE T == {Limit - n : n \in S}
<1>1. T \subseteq Nat /\ T # {}
  BY InLimit
<1>2. PICK x \in T : \A y \in T : <<y, x>> \notin OpToRel(<, Nat)
  BY <1>1, NatLessThanWellFounded, WFMin
<1>3. PICK m \in S : x = Limit - m
  OBVIOUS
<1>4. ASSUME NEW n \in S PROVE n <= m
  <2>1. Limit - n \in T /\ Limit - n \in Nat /\ x \in Nat
    BY <1>1
  <2>2. ~(Limit - n < x)
    BY <1>2, <2>1 DEF OpToRel
  <2> QED BY <1>3, <2>2, LimitIs
<1> QED BY <1>4

LEMMA EndsBounded ==
  ASSUME LayoutTypeOK
  PROVE  /\ UsableEnds \subseteq 0..(Limit - 1)
         /\ \A i \in 1..mem_mcr_number : mem_info[i] \in Answers
<1>1. ASSUME NEW i \in 1..mem_mcr_number PROVE mem_info[i] \in Answers
  <2>1. i \in 1..Len(mem_info)
    BY LenProperties DEF LayoutTypeOK
  <2> QED BY <2>1, ElementOfSeq DEF LayoutTypeOK
<1>2. ASSUME NEW e \in Answers PROVE LowEnd(e) \in 0..(Limit - 1)
  BY LimitIs, WrapIs DEF Answers, LowEnd
<1> QED BY <1>1, <1>2 DEF UsableEnds

LEMMA RoundedBounds ==
  ASSUME NEW n \in 0..(Limit - 1)
  PROVE  RoundedUp(n) \in Nat /\ RoundedUp(n) < 4096
  BY LimitIs, WrapIs DEF RoundedUp

LEMMA LayoutInitInv == LayoutInit => LayoutInv
<1> SUFFICES ASSUME LayoutInit PROVE LayoutInv
  OBVIOUS
<1>1. /\ stage = "map" /\ bios \in BiosMaps /\ carry = FALSE /\ mem_info = <<>>
      /\ mem_mcr_number = 0 /\ mem_size = 0 /\ megabytes = 0
  BY DEF LayoutInit
<1>2. bios \in Seq(Answers) /\ mem_info \in Seq(Answers) /\ Len(mem_info) = 0 /\ Len(bios) \in Nat
  BY <1>1, BiosAssumption, EmptySeq, LenProperties
<1>3. LayoutTypeOK
  <2>1. stage \in {"map", "memory_init", "page_init", "up"} /\ carry \in BOOLEAN
    BY <1>1
  <2>2. mem_mcr_number \in 0..Len(mem_info)
    BY <1>1, <1>2
  <2>3. mem_size \in 0..(Limit - 1)
    BY <1>1, InLimit
  <2>4. megabytes \in Nat /\ megabytes < 4096
    BY <1>1
  <2> QED BY <1>2, <2>1, <2>2, <2>3, <2>4 DEF LayoutTypeOK
<1>4. CollectInv
  BY <1>1, <1>2 DEF CollectInv
<1> QED BY <1>1, <1>3, <1>4 DEF LayoutInv, SizeInv, MapInv, LaidOut

LEMMA CollectStep ==
  ASSUME LayoutInv, GetMemInfo
  PROVE  LayoutInv'
<1> DEFINE n == Len(mem_info)
           e == bios[n + 1]
<1>1. /\ stage = "map" /\ n < Len(bios)
      /\ mem_info' = Append(mem_info, e) /\ mem_mcr_number' = AnswerNumber(e)
      /\ mem_size' = IF n = TableEntries THEN 1 ELSE mem_size
      /\ stage' = "map" \/ (Len(mem_info') = Len(bios) /\ stage' = "memory_init")
      /\ UNCHANGED <<bios, carry, megabytes>>
  BY DEF GetMemInfo
<1>2. /\ bios \in Seq(Answers) /\ mem_info \in Seq(Answers) /\ n \in Nat /\ Len(bios) \in Nat
      /\ mem_mcr_number \in 0..n /\ mem_size \in 0..(Limit - 1) /\ ~carry
      /\ megabytes \in Nat /\ megabytes < 4096
  BY <1>1, LenProperties DEF LayoutInv, LayoutTypeOK, CollectInv
<1>3. e \in Answers
  BY <1>1, <1>2, ElementOfSeq
<1>4. /\ mem_info' \in Seq(Answers) /\ Len(mem_info') = n + 1
      /\ \A i \in 1..n : mem_info'[i] = mem_info[i]
      /\ mem_info'[n + 1] = e
  BY <1>1, <1>2, <1>3, AppendProperties
<1>5. mem_mcr_number' \in 0..(n + 1) /\ (n < TableEntries => mem_mcr_number' = mem_mcr_number + 1)
  <2>1. CASE n = TableEntries
    <3>1. e.length \in Nat /\ e.length < 25 * Limit
      BY <1>3, LimitIs DEF Answers
    <3>2. e.length \div Limit \in 0..24
      BY <3>1, Quotient
    <3>3. mem_mcr_number' = e.length \div Limit + 1
      BY <1>1, <2>1 DEF AnswerNumber
    <3>4. n = 25 /\ ~(n < TableEntries)
      BY <2>1 DEF TableEntries
    <3> QED BY <3>2, <3>3, <3>4
  <2>2. CASE n # TableEntries
    BY <1>1, <1>2, <2>2 DEF AnswerNumber
  <2> QED BY <2>1, <2>2
<1>6. LayoutTypeOK'
  <2>1. stage' \in {"map", "memory_init", "page_init", "up"} /\ carry' \in BOOLEAN
    <3>1. carry' \in BOOLEAN
      BY <1>1 DEF LayoutInv, LayoutTypeOK
    <3>2. stage' = "map" \/ stage' = "memory_init"
      BY <1>1
    <3> QED BY <3>1, <3>2
  <2>2. mem_mcr_number' \in 0..Len(mem_info')
    BY <1>4, <1>5
  <2>3. mem_size' \in 0..(Limit - 1)
    BY <1>1, <1>2, InLimit
  <2>4. megabytes' \in Nat /\ megabytes' < 4096
    BY <1>1, <1>2
  <2> QED BY <1>1, <1>2, <1>4, <2>1, <2>2, <2>3, <2>4 DEF LayoutTypeOK
<1>7. \A i \in 1..(n + 1) : mem_info'[i] = bios[i]
  BY <1>2, <1>4 DEF LayoutInv, CollectInv
<1>8. n + 1 <= TableEntries => mem_mcr_number' = n + 1 /\ mem_size' = 0
  <2>1. stage # "page_init" /\ stage # "up" /\ TableEntries = 25
    BY <1>1 DEF TableEntries
  <2>2. n <= TableEntries => mem_mcr_number = n /\ mem_size = 0
    BY <1>2, <2>1 DEF LayoutInv, CollectInv, LaidOut
  <2>3. mem_size' = IF n = 25 THEN 1 ELSE mem_size
    BY <1>1 DEF TableEntries
  <2>4. ASSUME n + 1 <= 25 PROVE mem_mcr_number' = n + 1 /\ mem_size' = 0
    <3>0. n \in Nat
      BY <1>2
    <3>1. n < TableEntries /\ n <= TableEntries /\ n # 25
      <4> HIDE DEF n
      <4> QED BY <3>0, <2>4 DEF TableEntries
    <3>2. mem_mcr_number = n /\ mem_size = 0
      BY <2>2, <3>1
    <3>3. mem_mcr_number' = mem_mcr_number + 1
      BY <1>5, <3>1
    <3> QED BY <2>3, <3>1, <3>2, <3>3
  <2> QED BY <2>1, <2>4
<1>9. CollectInv'
  BY <1>1, <1>2, <1>4, <1>7, <1>8 DEF CollectInv, LaidOut
<1> QED BY <1>1, <1>6, <1>9 DEF LayoutInv, SizeInv, MapInv, LaidOut

LEMMA FailStep ==
  ASSUME LayoutInv, GetMemInfoFail
  PROVE  LayoutInv'
<1>1. /\ stage = "map" /\ stage' = "memory_init" /\ carry' = TRUE /\ mem_mcr_number' = 0
      /\ UNCHANGED <<bios, mem_info, mem_size, megabytes>>
  BY DEF GetMemInfoFail
<1>2. LayoutTypeOK'
  BY <1>1, LenProperties DEF LayoutInv, LayoutTypeOK
<1>3. CollectInv'
  BY <1>1 DEF LayoutInv, CollectInv, LaidOut
<1> QED BY <1>1, <1>2, <1>3 DEF LayoutInv, SizeInv, MapInv, LaidOut

LEMMA InitStep ==
  ASSUME LayoutInv, MemoryInit
  PROVE  LayoutInv'
<1> DEFINE ends == {mem_size} \cup UsableEnds
<1>1. /\ stage = "memory_init" /\ stage' = "page_init"
      /\ mem_size' = CHOOSE m \in ends : \A n \in ends : n <= m
      /\ megabytes' = RoundedUp(mem_size')
      /\ phypage_base' = BaseFor(megabytes') /\ kernel_pages' = KernelPagesFor(megabytes')
      /\ free_items' = RegionsFor(megabytes')
      /\ UNCHANGED <<bios, carry, mem_info, mem_mcr_number, page_dir>>
  BY DEF MemoryInit
<1>2. ends \subseteq 0..(Limit - 1) /\ ends # {}
  BY EndsBounded DEF LayoutInv, LayoutTypeOK
<1>3. mem_size' \in ends /\ \A n \in ends : n <= mem_size'
  <2>1. \E m \in ends : \A n \in ends : n <= m
    BY <1>2, Greatest
  <2> QED BY <1>1, <2>1
<1>4. UsableEnds' = UsableEnds
  BY <1>1 DEF UsableEnds
<1>5. mem_size' \in 0..(Limit - 1) /\ megabytes' \in Nat /\ megabytes' < 4096
  BY <1>1, <1>2, <1>3, RoundedBounds
<1>6. LayoutTypeOK'
  BY <1>1, <1>5 DEF LayoutInv, LayoutTypeOK
<1>7. CollectInv'
  BY <1>1 DEF LayoutInv, CollectInv, LaidOut
<1>8. Len(mem_info) <= TableEntries => mem_size = 0
  BY <1>1 DEF LayoutInv, CollectInv, LaidOut
<1>9. SizeInv'
  BY <1>1, <1>3, <1>4, <1>8 DEF SizeInv
<1>10. MapInv'
  BY <1>1 DEF MapInv
<1> QED BY <1>6, <1>7, <1>9, <1>10 DEF LayoutInv

LEMMA MapStep ==
  ASSUME LayoutInv, PageInit
  PROVE  LayoutInv'
<1>1. /\ stage = "page_init" /\ stage' = "up"
      /\ page_dir' = [p \in MappedPages |-> p - BasePage]
      /\ UNCHANGED <<bios, carry, mem_info, mem_mcr_number, mem_size, megabytes, phypage_base,
                     kernel_pages, free_items>>
  BY DEF PageInit, MappedPages
<1>2. LayoutTypeOK' /\ CollectInv'
  BY <1>1 DEF LayoutInv, LayoutTypeOK, CollectInv, LaidOut
<1>3. SizeInv'
  BY <1>1 DEF LayoutInv, SizeInv, LaidOut, UsableEnds
<1>4. MapInv'
  BY <1>1 DEF MapInv, MappedPages
<1> QED BY <1>2, <1>3, <1>4 DEF LayoutInv

LEMMA LayoutInvariance == LayoutSpec => []LayoutInv
<1>1. LayoutInv /\ UNCHANGED layoutVars => LayoutInv'
  BY DEF layoutVars, LayoutInv, LayoutTypeOK, CollectInv, SizeInv, MapInv, LaidOut, UsableEnds,
         MappedPages
<1>2. LayoutInv /\ [LayoutNext]_layoutVars => LayoutInv'
  BY <1>1, CollectStep, FailStep, InitStep, MapStep DEF LayoutNext
<1> QED BY LayoutInitInv, <1>2, PTL DEF LayoutSpec

-----------------------------------------------------------------------------

LEMMA InvAreas ==
  ASSUME LayoutInv, LaidOut
  PROVE  /\ Areas = AreasFor(megabytes) /\ free_items = RegionsFor(megabytes)
         /\ kernel_pages = KernelPagesFor(megabytes) /\ megabytes \in Nat
  BY DEF LayoutInv, LayoutTypeOK, SizeInv, Areas, AreasFor

\* For every memory map and up to 2560M, what memory_init lays out lies apart and within
\* the kernel's space (kernel/memory.c).
THEOREM LaidOutApart == LayoutSpec => []LayoutApart
<1>1. LayoutInv => LayoutApart
  <2> SUFFICES ASSUME LayoutInv, LaidOut, megabytes <= 2560 PROVE LayoutApart
    BY DEF LayoutApart
  <2>1. megabytes \in Nat /\ megabytes <= 2560
    BY InvAreas
  <2> QED BY <2>1, InvAreas, AreasApart DEF LayoutApart
<1> QED BY <1>1, LayoutInvariance, PTL

\* For every memory map and up to 2560M, page_init maps all of it
\* (kernel/page/page_init.c).
THEOREM LaidOutMapped == LayoutSpec => []KernelMapped
<1>1. LayoutInv => KernelMapped
  <2> SUFFICES ASSUME LayoutInv, stage = "up", megabytes <= 2560,
                      NEW a \in Areas, NEW p \in a.start..(a.start + a.size - 1)
               PROVE  BasePage + p \in DOMAIN page_dir /\ page_dir[BasePage + p] = p
    BY DEF KernelMapped
  <2>1. LaidOut
    BY DEF LaidOut
  <2>2. megabytes \in Nat /\ megabytes <= 2560
    BY <2>1, InvAreas
  <2>3. a.start \in Nat /\ a.size \in Nat /\ a.start + a.size <= kernel_pages
    BY <2>1, <2>2, InvAreas, AreasApart
  <2>4. kernel_pages = KernelPagesFor(megabytes) /\ kernel_pages \in Nat
    BY <2>1, InvAreas DEF KernelPagesFor
  <2>5. p \in 0..(kernel_pages - 1)
    BY <2>3, <2>4
  <2>6. p \div 1024 < TableCount(kernel_pages)
    BY <2>2, <2>4, <2>5, TablesReach
  <2>7. BasePage + p \in MappedPages
    BY <2>5, <2>6 DEF MappedPages
  <2>8. page_dir = [q \in MappedPages |-> q - BasePage]
    BY DEF LayoutInv, MapInv
  <2> QED BY <2>5, <2>7, <2>8 DEF BasePage
<1> QED BY <1>1, LayoutInvariance, PTL

\* For every memory map that fits into the loader's table, memory_init finds all usable
\* memory and no more (kernel/memory.c, boot/loader.s).
THEOREM MemoryFound == LayoutSpec => []SizeFound
<1>1. LayoutInv => SizeFound
  <2> SUFFICES ASSUME LayoutInv, LaidOut, ~carry, Len(bios) <= TableEntries,
                      \A end \in TrueEnds : end <= 4095 * 256
               PROVE  /\ \A end \in TrueEnds : end <= megabytes * 256
                      /\ megabytes > 0 => \E end \in TrueEnds : end > (megabytes - 1) * 256
    BY DEF SizeFound, LayoutInv
  <2>1. /\ bios \in Seq(Answers) /\ DOMAIN bios = 1..Len(bios)
        /\ Len(mem_info) = Len(bios) /\ mem_mcr_number = Len(bios)
        /\ \A i \in DOMAIN bios : mem_info[i] = bios[i]
    BY LenProperties DEF LayoutInv, LayoutTypeOK, CollectInv, LaidOut
  <2>2. ASSUME NEW i \in DOMAIN bios, bios[i].type = 1
        PROVE  LowEnd(mem_info[i]) = bios[i].base + bios[i].length
    <3>1. bios[i] \in Answers
      BY <2>1, ElementOfSeq
    <3>2. bios[i].base + bios[i].length <= 4095 * 256
      BY <2>2 DEF TrueEnds
    <3>3. /\ bios[i].base \in Nat /\ bios[i].length \in Nat
          /\ bios[i].base < Limit /\ bios[i].length < Limit
          /\ bios[i].base + bios[i].length < Limit
      BY <3>1, <3>2, LimitIs DEF Answers
    <3>4. /\ Wrap(bios[i].base) = bios[i].base /\ Wrap(bios[i].length) = bios[i].length
          /\ Wrap(bios[i].base + bios[i].length) = bios[i].base + bios[i].length
      BY <3>3, WrapIs
    <3> QED BY <2>1, <3>4 DEF LowEnd
  <2>3. UsableEnds = TrueEnds
    <3>1. ASSUME NEW x \in UsableEnds PROVE x \in TrueEnds
      <4>1. PICK i \in 1..mem_mcr_number : mem_info[i].type = 1 /\ x = LowEnd(mem_info[i])
        BY DEF UsableEnds
      <4> QED BY <2>1, <2>2, <4>1 DEF TrueEnds
    <3>2. ASSUME NEW x \in TrueEnds PROVE x \in UsableEnds
      <4>1. PICK i \in DOMAIN bios : bios[i].type = 1 /\ x = bios[i].base + bios[i].length
        BY DEF TrueEnds
      <4> QED BY <2>1, <2>2, <4>1 DEF UsableEnds
    <3> QED BY <3>1, <3>2
  <2>4. /\ \A end \in TrueEnds : end <= mem_size
        /\ mem_size \in {0} \cup TrueEnds
        /\ megabytes = RoundedUp(mem_size)
    BY <2>1, <2>3 DEF LayoutInv, SizeInv
  <2>5. mem_size \in Nat /\ mem_size <= 4095 * 256
    BY <2>4 DEF LayoutInv, LayoutTypeOK
  <2>6. megabytes = (mem_size + 255) \div 256
    BY <2>4, <2>5, LimitIs, WrapIs DEF RoundedUp
  <2>7. mem_size <= megabytes * 256 /\ (megabytes > 0 => mem_size > (megabytes - 1) * 256)
    BY <2>5, <2>6
  <2>8. \A end \in TrueEnds : end \in Nat
    BY <2>3, EndsBounded DEF LayoutInv
  <2>9. megabytes > 0 => mem_size \in TrueEnds
    BY <2>4, <2>6
  <2>10. megabytes \in Nat
    BY <2>5, <2>6
  <2> QED BY <2>4, <2>5, <2>7, <2>8, <2>9, <2>10
<1> QED BY <1>1, LayoutInvariance, PTL

(***************************************************************************)
(* The boot disk (boot/boot.s, boot/loader.s, boot/disk.inc): the kernel   *)
(* that is started is the one of the first active Green partition, for     *)
(* every partition table and every geometry whose cylinders reach it.      *)
(***************************************************************************)

\* Ten bits of a cylinder's number reach all that is read.
WithinCylinders(lba) == lba \in Nat /\ lba < 1024 * (HeadCount * Sectors)
DiskReaches ==
  \A start \in Starts : WithinCylinders(start + LoaderStart) /\ WithinCylinders(start + KernelStart)

\* Division with remainder.
LEMMA DivMod ==
  ASSUME NEW n \in Nat, NEW d \in Nat \ {0}
  PROVE  /\ n \div d \in Nat /\ n % d \in 0..(d - 1)
         /\ n = d * (n \div d) + (n % d)
  OBVIOUS

LEMMA QuotientBelow ==
  ASSUME NEW d \in Nat \ {0}, NEW q \in Nat, NEW r \in Nat, NEW b \in Nat, d * q + r < d * b
  PROVE  q < b
<1> SUFFICES ASSUME q >= b PROVE FALSE
  OBVIOUS
<1>1. PICK x \in Nat : q = b + x
  <2>1. q - b \in Nat /\ q = b + (q - b)
    OBVIOUS
  <2> QED BY <2>1
<1>2. d * q = d * b + d * x
  BY <1>1
<1>3. d * x \in Nat /\ d * b \in Nat
  OBVIOUS
<1> QED BY <1>2, <1>3

\* The bytes ch and cl take the cylinder and the sector apart without a loss.
LEMMA CylinderBytes ==
  ASSUME NEW cylinder \in Nat, cylinder < 1024, NEW r \in Nat, r < 63
  PROVE  LET cl == ((r % 256) + 1 + (cylinder \div 256) * 64) % 256
         IN  cl % 64 = r + 1 /\ (cylinder % 256) + (cl \div 64) * 256 = cylinder
<1>1. PICK k \in 0..3, low \in Nat : low < 256 /\ cylinder = 256 * k + low
  <2>1. cylinder \div 256 \in 0..3 /\ cylinder % 256 \in Nat /\ cylinder % 256 < 256
        /\ cylinder = 256 * (cylinder \div 256) + (cylinder % 256)
    OBVIOUS
  <2> QED BY <2>1
<1>2. cylinder \div 256 = k /\ cylinder % 256 = low
  BY <1>1
<1>3. ((r % 256) + 1 + (cylinder \div 256) * 64) % 256 = r + 1 + k * 64
  BY <1>2
<1>4. (r + 1 + k * 64) % 64 = r + 1 /\ (r + 1 + k * 64) \div 64 = k
  OBVIOUS
<1> QED BY <1>1, <1>2, <1>3, <1>4

\* The arithmetic of read_disk_chs finds the place of every sector that has one.
LEMMA ChsIsRight ==
  ASSUME NEW lba, WithinCylinders(lba)
  PROVE  ChsSector(lba, Sectors, HeadCount) = lba
<1> DEFINE q == lba \div Sectors
           r == lba % Sectors
           c == q \div HeadCount
           head == q % HeadCount
           cl == ((r % 256) + 1 + (c \div 256) * 64) % 256
<1>1. Sectors \in Nat \ {0} /\ Sectors <= 63 /\ HeadCount \in Nat \ {0} /\ HeadCount <= 255 /\ lba \in Nat
  BY DiskAssumption DEF WithinCylinders
<1>2. q \in Nat /\ r \in 0..(Sectors - 1) /\ lba = Sectors * q + r
  BY <1>1, DivMod
<1>3. c \in Nat /\ head \in 0..(HeadCount - 1) /\ q = HeadCount * c + head
  BY <1>1, <1>2, DivMod
<1> HIDE DEF q, r
<1>4. q < HeadCount * 1024
  <2>1. lba < 1024 * (HeadCount * Sectors)
    BY DEF WithinCylinders
  <2>2. 1024 * (HeadCount * Sectors) = Sectors * (HeadCount * 1024) /\ HeadCount * 1024 \in Nat
    BY <1>1
  <2>3. r \in Nat
    BY <1>1, <1>2
  <2> QED BY <1>1, <1>2, <2>1, <2>2, <2>3, QuotientBelow
<1> HIDE DEF c, head
<1>5. c \in Nat /\ c < 1024
  <2>1. c < 1024
    <3>1. head \in Nat
      BY <1>1, <1>3
    <3> QED BY <1>1, <1>3, <1>4, <3>1, QuotientBelow
  <2> QED BY <1>3, <2>1
<1>6. c % 1024 = c /\ head % 256 = head /\ r \in Nat /\ r < 63 /\ head < HeadCount
  BY <1>1, <1>2, <1>3, <1>5
<1>7. cl % 64 = r + 1 /\ (c % 256) + (cl \div 64) * 256 = c
  BY <1>5, <1>6, CylinderBytes
<1>8. ChsSector(lba, Sectors, HeadCount)
        = IF head < HeadCount /\ cl % 64 \in 1..Sectors
          THEN (((c % 256) + (cl \div 64) * 256) * HeadCount + head) * Sectors + (cl % 64) - 1
          ELSE Nowhere
  BY <1>6 DEF ChsSector, q, r, c, head
<1> HIDE DEF cl
<1>9. r + 1 \in 1..Sectors
  BY <1>1, <1>2
<1>10. ChsSector(lba, Sectors, HeadCount) = (c * HeadCount + head) * Sectors + (r + 1) - 1
  BY <1>6, <1>7, <1>8, <1>9
<1>11. c * HeadCount + head = q
  BY <1>1, <1>3
<1>12. q * Sectors = Sectors * q /\ q * Sectors \in Nat
  BY <1>1, <1>2
<1> QED BY <1>1, <1>2, <1>10, <1>11, <1>12

Areas4 == {"mbr", "fs", "loader", "kernel"}

\* What has been read so far is what was asked for, and the geometry is the disk's where
\* it is used; a table without a Green partition leaves a sector's number that is a byte.
DiskInv ==
  /\ table \in [1..4 -> Entries]
  /\ DOMAIN loaded = Areas4
  /\ read_disk_fun = "chs" => sectors = Sectors /\ heads = HeadCount
  /\ pc \in {"stray", "divide error"} => failed \/ ModesMixed
  /\ pc = "fs" => IF GreenEntries # {}
                  THEN found = PartitionStart /\ start_sector = PartitionStart
                  ELSE found = LastByte
  /\ (pc \in {"loader", "check loader", "kernel", "running"} /\ GreenEntries # {}) =>
       start_sector = PartitionStart /\ loaded["fs"] = PartitionStart
  /\ pc \in {"check loader", "kernel", "running"} =>
       GreenEntries # {} /\ loaded["loader"] = PartitionStart + LoaderStart
  /\ pc = "running" => loaded["kernel"] = PartitionStart + KernelStart

\* The search ends at a Green entry if there is one.
LEMMA GreenStart ==
  ASSUME table \in [1..4 -> Entries], GreenEntries # {}
  PROVE  PartitionStart \in Starts
<1>1. GreenEntries \subseteq 1..4
  BY DEF GreenEntries
<1>2. \E i \in GreenEntries : \A j \in GreenEntries : i <= j
  <2>1. CASE 1 \in GreenEntries
    BY <1>1, <2>1
  <2>2. CASE 1 \notin GreenEntries /\ 2 \in GreenEntries
    BY <1>1, <2>2
  <2>3. CASE 1 \notin GreenEntries /\ 2 \notin GreenEntries /\ 3 \in GreenEntries
    BY <1>1, <2>3
  <2>4. CASE 1 \notin GreenEntries /\ 2 \notin GreenEntries /\ 3 \notin GreenEntries
    <3>1. \A j \in GreenEntries : j = 4
      BY <1>1, <2>4
    <3>2. PICK i : i \in GreenEntries
      OBVIOUS
    <3> QED BY <3>1, <3>2
  <2> QED BY <2>1, <2>2, <2>3, <2>4
<1>3. FirstGreen \in GreenEntries
  BY <1>2 DEF FirstGreen
<1>4. table[FirstGreen] \in Entries /\ IsGreen(table[FirstGreen])
  BY <1>1, <1>3 DEF GreenEntries
<1> QED BY <1>4 DEF Entries, Entry, IsGreen, PartitionStart

LEMMA LastByteIs ==
  ASSUME table \in [1..4 -> Entries]
  PROVE  LastByte \in Nat /\ LastByte <= 224
<1>1. table[4] \in Entries
  OBVIOUS
<1> QED BY <1>1 DEF Entries, Entry, LastByte

\* A byte, and so sector 0, too, is within any geometry.
LEMMA BytesWithin == \A lba \in Nat : lba <= 224 => WithinCylinders(lba)
<1>1. HeadCount \in Nat \ {0} /\ Sectors \in Nat \ {0}
  BY DiskAssumption
<1>2. HeadCount * Sectors \in Nat /\ HeadCount * Sectors >= 1
  BY <1>1
<1> QED BY <1>2 DEF WithinCylinders

\* read_disk, by either function: the sector that was asked for arrives, or the program
\* cannot go on, as a read has failed or the packet holds the number of cylinders.
LEMMA ReadArrives ==
  ASSUME DiskInv, NEW area \in Areas4, NEW lba, WithinCylinders(lba), ReadDisk(area, lba)
  PROVE  /\ table' = table /\ DOMAIN loaded' = Areas4
         /\ read_disk_fun' = "chs" => sectors' = Sectors /\ heads' = HeadCount
         /\ \/ /\ pc' = NextRead[area] /\ loaded'[area] = lba
               /\ \A other \in Areas4 \ {area} : loaded'[other] = loaded[other]
            \/ pc' \in {"stray", "divide error"} /\ (failed \/ ModesMixed)'
<1>1. /\ DOMAIN loaded = Areas4 /\ table' = table
      /\ read_disk_fun' = read_disk_fun /\ cylinders' = cylinders
  BY DEF DiskInv, ReadDisk
<1>2. ASSUME NEW sector, Arrived(area, lba, sector)
      PROVE  /\ DOMAIN loaded' = Areas4
             /\ \/ /\ pc' = NextRead[area] /\ loaded'[area] = lba
                   /\ \A other \in Areas4 \ {area} : loaded'[other] = loaded[other]
                \/ sector # lba /\ pc' = "stray"
  BY <1>1, <1>2 DEF Arrived
<1>3. CASE read_disk_fun = "lba" /\ ReadDiskLba(area, lba)
  <2>1. CASE Arrived(area, lba, PacketSector(lba))
    <3>1. PacketSector(lba) # lba => ModesMixed'
      BY <1>1, <1>3 DEF PacketSector, ModesMixed
    <3> QED BY <1>1, <1>2, <1>3, <2>1, <3>1
  <2>2. CASE ReadDiskChs(area, lba, sectors', heads', TRUE)
    <3>1. CASE sectors' = 0 \/ heads' = 0
      BY <1>1, <1>3, <2>2, <3>1 DEF ReadDiskChs
    <3>2. CASE ~(sectors' = 0 \/ heads' = 0)
      <4>1. PICK sector : Arrived(area, lba, sector) /\ failed' = TRUE
        BY <2>2, <3>2 DEF ReadDiskChs
      <4> QED BY <1>1, <1>2, <1>3, <4>1
    <3> QED BY <3>1, <3>2
  <2> QED BY <1>3, <2>1, <2>2 DEF ReadDiskLba
<1>4. CASE /\ read_disk_fun = "chs" /\ ReadDiskChs(area, lba, sectors, heads, failed)
           /\ UNCHANGED <<sectors, heads>>
  <2>1. sectors = Sectors /\ heads = HeadCount /\ ~(Sectors = 0 \/ HeadCount = 0)
    <3>1. Sectors # 0 /\ HeadCount # 0
      BY DiskAssumption
    <3> QED BY <1>4, <3>1 DEF DiskInv
  <2>2. \/ Arrived(area, lba, ChsSector(lba, sectors, heads))
        \/ Arrived(area, lba, Nowhere) /\ failed' = TRUE
    BY <1>4, <2>1 DEF ReadDiskChs
  <2>3. ChsSector(lba, sectors, heads) = lba
    BY <2>1, ChsIsRight
  <2> QED BY <1>1, <1>2, <1>4, <2>1, <2>2, <2>3
<1> QED BY <1>3, <1>4 DEF ReadDisk

\* What the search of the partition table says depends on the table only.
LEMMA SameTable ==
  ASSUME table' = table
  PROVE  /\ GreenEntries' = GreenEntries /\ PartitionStart' = PartitionStart
         /\ LastByte' = LastByte
  BY DEF GreenEntries, PartitionStart, FirstGreen, LastByte

LEMMA DiskInitInv == DiskInit => DiskInv
  BY DEF DiskInit, DiskInv, Areas4

LEMMA CheckDiskKeeps == DiskInv /\ CheckDisk => DiskInv'
<1> SUFFICES ASSUME DiskInv, CheckDisk PROVE DiskInv'
  OBVIOUS
<1>1. /\ pc \in {"check boot", "check loader"}
      /\ pc' = IF pc = "check boot" THEN "mbr" ELSE "kernel"
      /\ read_disk_fun' = "chs" => sectors' = Sectors /\ heads' = HeadCount
      /\ UNCHANGED <<table, start_sector, found, loaded, failed>>
  BY DEF CheckDisk
<1>2. GreenEntries' = GreenEntries /\ PartitionStart' = PartitionStart /\ LastByte' = LastByte
  BY <1>1, SameTable
<1> QED BY <1>1, <1>2 DEF DiskInv

\* A read that came to nothing.
LEMMA StrayKeeps ==
  ASSUME DiskInv, table' = table, DOMAIN loaded' = Areas4,
         read_disk_fun' = "chs" => sectors' = Sectors /\ heads' = HeadCount,
         pc' \in {"stray", "divide error"}, (failed \/ ModesMixed)'
  PROVE  DiskInv'
  BY DEF DiskInv

LEMMA ReadMbrKeeps == DiskInv /\ ReadMbr => DiskInv'
<1> SUFFICES ASSUME DiskInv, ReadMbr PROVE DiskInv'
  OBVIOUS
<1>1. /\ table' = table /\ DOMAIN loaded' = Areas4
      /\ read_disk_fun' = "chs" => sectors' = Sectors /\ heads' = HeadCount
      /\ \/ pc' = NextRead["mbr"]
         \/ pc' \in {"stray", "divide error"} /\ (failed \/ ModesMixed)'
  <2>1. ReadDisk("mbr", 0) /\ "mbr" \in Areas4 /\ WithinCylinders(0)
    BY BytesWithin DEF ReadMbr, Areas4
  <2> QED BY <2>1, ReadArrives
<1>2. CASE pc' \in {"stray", "divide error"} /\ (failed \/ ModesMixed)'
  BY <1>1, <1>2, StrayKeeps
<1>3. CASE pc' = NextRead["mbr"]
  <2>1. pc' = "fs"
    BY <1>3 DEF NextRead
  <2>2. GreenEntries' = GreenEntries /\ PartitionStart' = PartitionStart /\ LastByte' = LastByte
    BY <1>1, SameTable
  <2>3. IF GreenEntries # {}
        THEN start_sector' = PartitionStart /\ found' = PartitionStart
        ELSE found' = LastByte
    BY <2>1 DEF ReadMbr
  <2> QED BY <1>1, <2>1, <2>2, <2>3 DEF DiskInv
<1> QED BY <1>1, <1>2, <1>3

LEMMA ReadFsKeeps == DiskReaches /\ DiskInv /\ ReadFs => DiskInv'
<1> SUFFICES ASSUME DiskReaches, DiskInv, ReadFs PROVE DiskInv'
  OBVIOUS
<1>1. ReadDisk("fs", found) /\ pc = "fs" /\ UNCHANGED <<start_sector, found>>
  BY DEF ReadFs, ReadDisk
<1>2. WithinCylinders(found)
  <2>1. CASE GreenEntries # {}
    <3>1. found \in Starts
      BY <1>1, <2>1, GreenStart DEF DiskInv
    <3>2. found \in Nat /\ found + LoaderStart < 1024 * (HeadCount * Sectors) /\ LoaderStart \in Nat
      BY <3>1, DiskAssumption DEF DiskReaches, WithinCylinders
    <3>3. HeadCount * Sectors \in Nat
      BY DiskAssumption
    <3> QED BY <3>2, <3>3 DEF WithinCylinders
  <2>2. CASE GreenEntries = {}
    BY <1>1, <2>2, LastByteIs, BytesWithin DEF DiskInv
  <2> QED BY <2>1, <2>2
<1>3. /\ table' = table /\ DOMAIN loaded' = Areas4
      /\ read_disk_fun' = "chs" => sectors' = Sectors /\ heads' = HeadCount
      /\ \/ pc' = NextRead["fs"] /\ loaded'["fs"] = found
         \/ pc' \in {"stray", "divide error"} /\ (failed \/ ModesMixed)'
  <2>1. "fs" \in Areas4
    BY DEF Areas4
  <2> QED BY <1>1, <1>2, <2>1, ReadArrives
<1>4. CASE pc' \in {"stray", "divide error"} /\ (failed \/ ModesMixed)'
  BY <1>3, <1>4, StrayKeeps
<1>5. CASE pc' = NextRead["fs"] /\ loaded'["fs"] = found
  <2>1. pc' = "loader"
    BY <1>5 DEF NextRead
  <2>2. GreenEntries' = GreenEntries /\ PartitionStart' = PartitionStart
    BY <1>3, SameTable
  <2> QED BY <1>1, <1>3, <1>5, <2>1, <2>2 DEF DiskInv
<1> QED BY <1>3, <1>4, <1>5

LEMMA ReadLoaderKeeps == DiskReaches /\ DiskInv /\ ReadLoader => DiskInv'
<1> SUFFICES ASSUME DiskReaches, DiskInv, ReadLoader PROVE DiskInv'
  OBVIOUS
<1>1. /\ GreenEntries # {} /\ ReadDisk("loader", LoaderStart + start_sector) /\ pc = "loader"
      /\ UNCHANGED <<start_sector, found>>
  BY DEF ReadLoader, ReadDisk
<1>2. /\ start_sector = PartitionStart /\ loaded["fs"] = PartitionStart
      /\ PartitionStart \in Starts /\ table \in [1..4 -> Entries]
  BY <1>1, GreenStart DEF DiskInv
<1>3. LoaderStart + start_sector = PartitionStart + LoaderStart
  BY <1>2, DiskAssumption
<1>4. WithinCylinders(PartitionStart + LoaderStart)
  BY <1>2 DEF DiskReaches
<1>5. ReadDisk("loader", PartitionStart + LoaderStart) /\ "loader" \in Areas4
  BY <1>1, <1>3 DEF Areas4
<1>6. /\ table' = table /\ DOMAIN loaded' = Areas4
      /\ read_disk_fun' = "chs" => sectors' = Sectors /\ heads' = HeadCount
      /\ \/ /\ pc' = NextRead["loader"] /\ loaded'["loader"] = PartitionStart + LoaderStart
            /\ \A other \in Areas4 \ {"loader"} : loaded'[other] = loaded[other]
         \/ pc' \in {"stray", "divide error"} /\ (failed \/ ModesMixed)'
  BY <1>4, <1>5, ReadArrives
<1>7. CASE pc' \in {"stray", "divide error"} /\ (failed \/ ModesMixed)'
  BY <1>6, <1>7, StrayKeeps
<1>8. CASE /\ pc' = NextRead["loader"] /\ loaded'["loader"] = PartitionStart + LoaderStart
           /\ \A other \in Areas4 \ {"loader"} : loaded'[other] = loaded[other]
  <2>1. pc' = "check loader" /\ loaded'["fs"] = PartitionStart
    BY <1>2, <1>8 DEF NextRead, Areas4
  <2>2. GreenEntries' = GreenEntries /\ PartitionStart' = PartitionStart
    BY <1>6, SameTable
  <2> QED BY <1>1, <1>2, <1>6, <1>8, <2>1, <2>2 DEF DiskInv
<1> QED BY <1>6, <1>7, <1>8

LEMMA ReadKernelKeeps == DiskReaches /\ DiskInv /\ ReadKernel => DiskInv'
<1> SUFFICES ASSUME DiskReaches, DiskInv, ReadKernel PROVE DiskInv'
  OBVIOUS
<1>1. /\ ReadDisk("kernel", start_sector + KernelStart) /\ pc = "kernel"
      /\ UNCHANGED <<start_sector, found>>
  BY DEF ReadKernel, ReadDisk
<1>2. /\ GreenEntries # {} /\ start_sector = PartitionStart /\ loaded["fs"] = PartitionStart
      /\ loaded["loader"] = PartitionStart + LoaderStart
      /\ PartitionStart \in Starts /\ table \in [1..4 -> Entries]
  BY <1>1, GreenStart DEF DiskInv
<1>3. WithinCylinders(PartitionStart + KernelStart)
  BY <1>2 DEF DiskReaches
<1>4. ReadDisk("kernel", PartitionStart + KernelStart) /\ "kernel" \in Areas4
  BY <1>1, <1>2 DEF Areas4
<1>5. /\ table' = table /\ DOMAIN loaded' = Areas4
      /\ read_disk_fun' = "chs" => sectors' = Sectors /\ heads' = HeadCount
      /\ \/ /\ pc' = NextRead["kernel"] /\ loaded'["kernel"] = PartitionStart + KernelStart
            /\ \A other \in Areas4 \ {"kernel"} : loaded'[other] = loaded[other]
         \/ pc' \in {"stray", "divide error"} /\ (failed \/ ModesMixed)'
  BY <1>3, <1>4, ReadArrives
<1>6. CASE pc' \in {"stray", "divide error"} /\ (failed \/ ModesMixed)'
  BY <1>5, <1>6, StrayKeeps
<1>7. CASE /\ pc' = NextRead["kernel"] /\ loaded'["kernel"] = PartitionStart + KernelStart
           /\ \A other \in Areas4 \ {"kernel"} : loaded'[other] = loaded[other]
  <2>1. /\ pc' = "running" /\ loaded'["fs"] = PartitionStart
        /\ loaded'["loader"] = PartitionStart + LoaderStart
    BY <1>2, <1>7 DEF NextRead, Areas4
  <2>2. GreenEntries' = GreenEntries /\ PartitionStart' = PartitionStart
    BY <1>5, SameTable
  <2> QED BY <1>1, <1>2, <1>5, <1>7, <2>1, <2>2 DEF DiskInv
<1> QED BY <1>5, <1>6, <1>7

\* As long as cylinders reach the partitions, no read goes astray but one the BIOS failed
\* at, or one by LBA after a choice of CHS, and the kernel that runs was read from the
\* first active Green partition, as were the loader and the head of the file system
\* before it: for every partition table and every geometry, in LBA mode, in CHS mode and
\* when reads fail (boot/disk.inc, boot.s, loader.s).
THEOREM KernelOfPartition ==
  ASSUME DiskReaches
  PROVE  DiskSpec => []RightLoaded
<1>1. DiskInit => DiskInv
  BY DiskInitInv
<1>2. DiskInv /\ [DiskNext]_diskVars => DiskInv'
  <2> SUFFICES ASSUME DiskInv, [DiskNext]_diskVars PROVE DiskInv'
    OBVIOUS
  <2>1. CASE UNCHANGED diskVars
    <3>1. GreenEntries' = GreenEntries /\ PartitionStart' = PartitionStart /\ LastByte' = LastByte
      BY <2>1, SameTable DEF diskVars
    <3> QED BY <2>1, <3>1 DEF diskVars, DiskInv, ModesMixed
  <2>2. CASE DiskNext
    BY <2>2, CheckDiskKeeps, ReadMbrKeeps, ReadFsKeeps, ReadLoaderKeeps, ReadKernelKeeps
       DEF DiskNext
  <2> QED BY <2>1, <2>2
<1>3. DiskInv => RightLoaded
  BY DEF DiskInv, RightLoaded, PartitionStart
<1> QED BY <1>1, <1>2, <1>3, PTL DEF DiskSpec

(***************************************************************************)
(* From the loader to the halt (boot/loader.s, kernel/start.s): the code   *)
(* that runs stays where it runs, and finds the image of its file.  All    *)
(* the addresses that matter lie below 4M, so that of the page tables only *)
(* the first counts, and the entries of the directory that lead to it.     *)
(***************************************************************************)

\* The page p of the memory m was written, with v.
Has(m, p, v) == p \in DOMAIN m /\ m[p] = v

\* The pages below 4M, which are also the entries of the first table
LowPages == 0..1023

\* The pages that segments of a kernel may take
Image == 256..511

\* A directory whose entry e leads to the table at t, and a table that leads to frames LowPages
LeadsTo(v, e, t) == v.kind = "table" /\ e \in DOMAIN v.entries /\ v.entries[e] = t
IsIdentity(v) == v.kind = "table" /\ \A j \in LowPages : j \in DOMAIN v.entries /\ v.entries[j] = j

\* Such a directory and its table in the pages c and t of m
LowMap(m, c, e, t) ==
  /\ c \in DOMAIN m /\ LeadsTo(m[c], e, t)
  /\ t \in DOMAIN m /\ IsIdentity(m[t])

Fits == file.pages <= 16

\* What the first n headers hs ask for is in its place in m.
Brought(hs, n, m) ==
  \A i \in 1..n : hs[i].type = "LOAD" =>
    \A j \in 0..(hs[i].filesz - 1) : Has(m, hs[i].vaddr + j, FromFile(hs[i].offset + j))

\* What is in m and not in the pages W is in n, too.
Keeps(m, n, W) == \A p, v : Has(m, p, v) /\ p \notin W => Has(n, p, v)

Routines == {"setup_paging", "goto_kernel", "memory_init", "arch_init", "page_init", "halt"}
Early == routine \in {"setup_paging", "goto_kernel"}
Late == routine \in {"page_init", "halt"}

\* What the routines leave for the next ones: the page tables, the segments, the gdt, and
\* what is in memory
StartInv ==
  /\ routine \in Routines /\ file \in Files
  /\ copied \in 0..Len(file.headers)
  /\ routine = "setup_paging" => cr3 = NoPaging
  /\ routine \in Routines \ {"setup_paging", "halt"} =>
       cr3 = 32 /\ LowMap(mem, 32, 0, 36) /\ LowMap(mem, 32, 768, 36)
  /\ routine = "halt" => cr3 = 48 /\ LowMap(mem, 48, 768, 49)
  /\ IF Early THEN cs = 0 /\ copied < Len(file.headers)
     ELSE cs = KernelBase /\ copied = Len(file.headers)
  /\ IF Late THEN ds = KernelBase /\ gs = KernelBase + 184 /\ gdtr \in Image
     ELSE ds = 0 /\ gs = 184 /\ gdtr = 8
  /\ Fits => /\ Early => \A q \in 0..(file.pages - 1) : Has(mem, 16 + q, FromFile(q))
             /\ Brought(file.headers, copied, mem)
  /\ routine \in {"arch_init", "page_init", "halt"} =>
       kernel_mem_size \in KernelSizes /\ \A b \in Bss : Has(mem, b, Wiped(b))

LEMMA Overlay ==
  ASSUME NEW f, NEW m, NEW p
  PROVE  /\ p \in DOMAIN f => Has(Written(f, m), p, f[p])
         /\ \A v : p \notin DOMAIN f /\ Has(m, p, v) => Has(Written(f, m), p, v)
         /\ DOMAIN Written(f, m) = DOMAIN f \cup DOMAIN m
  BY DEF Written, Has

LEMMA ImageLow ==
  /\ Image \subseteq LowPages
  /\ Image \cap 0..255 = {}
  BY DEF Image, LowPages

LEMMA WrittenKeeps ==
  ASSUME NEW f, NEW m
  PROVE  Keeps(m, Written(f, m), DOMAIN f)
  BY Overlay DEF Keeps

\* What is written elsewhere than in the two tables leaves the map as it is.
LEMMA LowMapStays ==
  ASSUME NEW m, NEW n, NEW W, Keeps(m, n, W), NEW c, NEW e, NEW t, LowMap(m, c, e, t),
         c \notin W, t \notin W
  PROVE  LowMap(n, c, e, t)
<1>1. Has(m, c, m[c]) /\ Has(m, t, m[t])
  BY DEF Has, LowMap
<1>2. Has(n, c, m[c]) /\ Has(n, t, m[t])
  BY <1>1 DEF Keeps
<1> QED BY <1>2 DEF Has, LowMap

\* Where the map leads without paging, ...
LEMMA NoPagingAt ==
  ASSUME cr3 = NoPaging, NEW p \in LowPages
  PROVE  At(0, p) = p /\ FrameOf(p) = p
<1>1. (0 + p) % (1024 * 1024) = p
  BY DEF LowPages
<1> QED BY <1>1 DEF At, FrameOf

LEMMA IdentityEntry ==
  ASSUME NEW v, IsIdentity(v), NEW j \in LowPages
  PROVE  v.kind = "table" /\ j \in DOMAIN v.entries /\ v.entries[j] = j
  BY DEF IsIdentity

\* ... with it, ...
LEMMA MapLeads ==
  ASSUME NEW c \in Nat, NEW t \in Nat, NEW e, cr3 = c, LowMap(mem, c, e, t),
         NEW page, page \div 1024 = e, page % 1024 \in LowPages
  PROVE  FrameOf(page) = page % 1024
<1>1. c # NoPaging /\ c # Unmapped /\ t # Unmapped
  BY DEF NoPaging, Unmapped
<1>2. EntryOf(cr3, e) = t
  BY <1>1 DEF EntryOf, LowMap, LeadsTo
<1>3. t \in DOMAIN mem /\ IsIdentity(mem[t])
  BY DEF LowMap
<1>4. EntryOf(t, page % 1024) = page % 1024
  BY <1>1, <1>3, IdentityEntry DEF EntryOf
<1> QED BY <1>1, <1>2, <1>4 DEF FrameOf

\* ... and through the segments that are used.
LEMMA LowAt ==
  ASSUME NEW c \in Nat, NEW t \in Nat, cr3 = c, LowMap(mem, c, 0, t), NEW p \in LowPages
  PROVE  At(0, p) = p /\ FrameOf(p) = p
<1>1. (0 + p) % (1024 * 1024) = p /\ p \div 1024 = 0 /\ p % 1024 = p
  BY DEF LowPages
<1>2. FrameOf(p) = p % 1024
  BY <1>1, MapLeads
<1> QED BY <1>1, <1>2 DEF At

LEMMA HighAt ==
  ASSUME NEW c \in Nat, NEW t \in Nat, cr3 = c, LowMap(mem, c, 768, t), NEW p \in LowPages
  PROVE  /\ At(KernelBase, p) = p
         /\ p = 184 => At(KernelBase + 184, 0) = 184
<1> DEFINE page == KernelBase + p
<1>1. page \div 1024 = 768 /\ page % 1024 = p
  BY DEF KernelBase, LowPages
<1>2. /\ (KernelBase + p) % (1024 * 1024) = page
      /\ (KernelBase + 184 + 0) % (1024 * 1024) = KernelBase + 184
  BY DEF KernelBase, LowPages
<1> HIDE DEF page
<1>3. FrameOf(page) = page % 1024
  BY <1>1, MapLeads
<1> QED BY <1>1, <1>2, <1>3 DEF At, page

\* Header i asks for a segment.
IsLoad(i) == i \in 1..Len(file.headers) /\ file.headers[i].type = "LOAD"

\* The program headers of a kernel ...
LEMMA HeaderTypes ==
  ASSUME file \in Files
  PROVE  /\ file.pages \in Nat /\ Len(file.headers) \in Nat /\ Len(file.headers) > 0
         /\ DOMAIN file.headers = 1..Len(file.headers)
         /\ \A i \in 1..Len(file.headers) : file.headers[i] \in Headers
<1>1. file.headers \in Seq(Headers) /\ file.pages \in Nat /\ file.headers # <<>>
  BY FilesAssumption
<1> QED BY <1>1, ElementOfSeq, LenProperties, EmptySeq

LEMMA LoadFacts ==
  ASSUME file \in Files, NEW i, IsLoad(i)
  PROVE  LET h == file.headers[i] IN
         /\ h.vaddr \in Nat /\ h.offset \in Nat /\ h.filesz \in Nat /\ h.memsz \in Nat
         /\ h.filesz <= h.memsz /\ h.offset + h.filesz <= file.pages
         /\ \A j \in 0..(h.memsz - 1) : h.vaddr + j \in Image
<1> DEFINE h == file.headers[i]
<1>1. h \in Headers /\ i \in DOMAIN file.headers
  BY HeaderTypes DEF IsLoad
<1>2. /\ h.vaddr \in Nat /\ h.offset \in Nat /\ h.filesz \in Nat /\ h.memsz \in Nat
  BY <1>1 DEF Headers
<1>3. h.filesz <= h.memsz /\ h.offset + h.filesz <= file.pages /\ SegmentPages(h) \subseteq Image
  BY <1>1, FilesAssumption DEF IsLoad, Image
<1>4. \A j \in 0..(h.memsz - 1) : h.vaddr + j \in SegmentPages(h)
  BY <1>2 DEF SegmentPages
<1> QED BY <1>2, <1>3, <1>4

\* ... ask for different pages.
LEMMA SegmentsApart ==
  ASSUME file \in Files, NEW i, NEW k, IsLoad(i), IsLoad(k), i # k
  PROVE  SegmentPages(file.headers[i]) \cap SegmentPages(file.headers[k]) = {}
<1>1. \A a, b : /\ IsLoad(a) /\ IsLoad(b) /\ b < a
                => SegmentPages(file.headers[a]) \cap SegmentPages(file.headers[b]) = {}
  <2> SUFFICES ASSUME NEW a, NEW b, IsLoad(a), IsLoad(b), b < a
               PROVE  SegmentPages(file.headers[a]) \cap SegmentPages(file.headers[b]) = {}
    OBVIOUS
  <2>1. a \in DOMAIN file.headers /\ b \in 1..(a - 1)
    BY HeaderTypes DEF IsLoad
  <2> QED BY <2>1, FilesAssumption DEF IsLoad
<1>2. i < k \/ k < i
  BY HeaderTypes DEF IsLoad
<1> QED BY <1>1, <1>2

\* Page j of what header i has in the file is a page of its segment.
LEMMA FilePages ==
  ASSUME file \in Files, NEW i, IsLoad(i), NEW j \in 0..(file.headers[i].filesz - 1)
  PROVE  /\ file.headers[i].vaddr + j \in SegmentPages(file.headers[i])
         /\ file.headers[i].vaddr + j \in Image
<1> DEFINE h == file.headers[i]
<1>1. /\ h.vaddr \in Nat /\ h.filesz \in Nat /\ h.memsz \in Nat /\ h.filesz <= h.memsz
      /\ \A n \in 0..(h.memsz - 1) : h.vaddr + n \in Image
  BY LoadFacts
<1>2. j \in 0..(h.memsz - 1)
  BY <1>1
<1>3. h.vaddr + j \in h.vaddr..(h.vaddr + h.memsz - 1)
  BY <1>1, <1>2
<1> QED BY <1>1, <1>2, <1>3 DEF SegmentPages

\* The bss is that of one segment, behind all others.
LEMMA BssIs ==
  ASSUME file \in Files
  PROVE  \E i : /\ IsLoad(i) /\ BssSegment = file.headers[i]
                /\ file.headers[i].filesz < file.headers[i].memsz
                /\ \A k : IsLoad(k) /\ k # i =>
                     file.headers[k].vaddr + file.headers[k].memsz <= file.headers[i].vaddr
<1>1. PICK i \in DOMAIN file.headers :
        /\ file.headers[i].type = "LOAD" /\ file.headers[i].filesz < file.headers[i].memsz
        /\ \A k \in DOMAIN file.headers \ {i} : file.headers[k].type = "LOAD" =>
             /\ file.headers[k].filesz = file.headers[k].memsz
             /\ file.headers[k].vaddr + file.headers[k].memsz <= file.headers[i].vaddr
  BY BssAssumption
<1>2. file.headers[i] \in Loaded
  BY <1>1 DEF Loaded
<1>3. BssSegment \in Loaded /\ BssSegment.filesz < BssSegment.memsz
  BY <1>1, <1>2 DEF BssSegment
<1>4. PICK n \in DOMAIN file.headers : file.headers[n].type = "LOAD" /\ BssSegment = file.headers[n]
  BY <1>3 DEF Loaded
<1>5. n = i
  <2> SUFFICES ASSUME n # i PROVE FALSE
    OBVIOUS
  <2>1. BssSegment.filesz = BssSegment.memsz
    BY <1>1, <1>4
  <2>2. IsLoad(n)
    BY <1>4, HeaderTypes DEF IsLoad
  <2>3. BssSegment.filesz \in Nat
    BY <1>4, <2>2, LoadFacts
  <2> QED BY <1>3, <2>1, <2>3
<1> QED BY <1>1, <1>4, <1>5, HeaderTypes DEF IsLoad

\* The bss and the page behind it have nothing of the file.
LEMMA BssApart ==
  ASSUME file \in Files
  PROVE  /\ BssStart \in Nat /\ BssEnd \in Nat /\ Bss \subseteq Image
         /\ BssEnd \in 257..512 /\ BssEnd \notin Bss
         /\ \A i : IsLoad(i) => \A j \in 0..(file.headers[i].filesz - 1) :
              file.headers[i].vaddr + j \notin Bss \cup {BssEnd}
<1>1. PICK i : /\ IsLoad(i) /\ BssSegment = file.headers[i]
               /\ file.headers[i].filesz < file.headers[i].memsz
               /\ \A k : IsLoad(k) /\ k # i =>
                    file.headers[k].vaddr + file.headers[k].memsz <= file.headers[i].vaddr
  BY BssIs
<1> DEFINE h == file.headers[i]
<1>2. /\ h.vaddr \in Nat /\ h.filesz \in Nat /\ h.memsz \in Nat
      /\ \A j \in 0..(h.memsz - 1) : h.vaddr + j \in Image
  BY <1>1, LoadFacts
<1>3. BssStart = h.vaddr + h.filesz /\ BssEnd = h.vaddr + h.memsz /\ h.filesz < h.memsz
  BY <1>1 DEF BssStart, BssEnd
<1> HIDE DEF h
<1>4. ASSUME NEW b \in Bss PROVE b \in Image
  <2>1. b \in Nat /\ b - h.vaddr \in 0..(h.memsz - 1) /\ b = h.vaddr + (b - h.vaddr)
    BY <1>2, <1>3 DEF Bss
  <2> QED BY <1>2, <2>1
<1>5. BssEnd \in 257..512
  <2>1. h.memsz - 1 \in 0..(h.memsz - 1)
    BY <1>2, <1>3
  <2>2. h.vaddr + (h.memsz - 1) \in 256..511
    BY <1>2, <2>1 DEF Image
  <2> QED BY <1>2, <1>3, <2>2
<1>6. ASSUME NEW k, IsLoad(k), NEW j \in 0..(file.headers[k].filesz - 1)
      PROVE  file.headers[k].vaddr + j < BssStart
  <2>1. CASE k = i
    BY <1>2, <1>3, <1>6, <2>1 DEF h
  <2>2. CASE k # i
    <3>1. file.headers[k].vaddr + file.headers[k].memsz <= h.vaddr
      BY <1>1, <1>6, <2>2 DEF h
    <3>2. /\ file.headers[k].vaddr \in Nat /\ file.headers[k].filesz \in Nat
          /\ file.headers[k].memsz \in Nat /\ file.headers[k].filesz <= file.headers[k].memsz
      BY <1>6, LoadFacts
    <3> QED BY <1>2, <1>3, <1>6, <3>1, <3>2
  <2> QED BY <2>1, <2>2
<1>7. ASSUME NEW k, IsLoad(k), NEW j \in 0..(file.headers[k].filesz - 1)
      PROVE  file.headers[k].vaddr + j \notin Bss \cup {BssEnd}
  <2>1. file.headers[k].vaddr \in Nat
    BY <1>7, LoadFacts
  <2>2. file.headers[k].vaddr + j < BssStart
    BY <1>6, <1>7
  <2> QED BY <1>2, <1>3, <1>7, <2>1, <2>2 DEF Bss
<1> QED BY <1>2, <1>3, <1>4, <1>5, <1>7 DEF Bss

(***************************************************************************)
(* The routines.                                                           *)
(***************************************************************************)

LEMMA StartBegins == StartInit => StartInv
<1> SUFFICES ASSUME StartInit PROVE StartInv
  OBVIOUS
<1>1. /\ routine = "setup_paging" /\ file \in Files /\ copied = 0
      /\ cs = 0 /\ ds = 0 /\ gs = 184 /\ gdtr = 8
  BY DEF StartInit, Video, Loader
<1>2. file.pages \in Nat /\ Len(file.headers) \in Nat /\ Len(file.headers) > 0
  BY <1>1, HeaderTypes
<1>3. Brought(file.headers, copied, mem)
  BY <1>1 DEF Brought
<1>4. \A q \in 0..(file.pages - 1) : Has(mem, 16 + q, FromFile(q))
  <2> SUFFICES ASSUME NEW q \in 0..(file.pages - 1) PROVE Has(mem, 16 + q, FromFile(q))
    OBVIOUS
  <2>1. mem = [p \in 16..(16 + file.pages - 1) |-> FromFile(p - 16)]
    BY DEF StartInit, Kernel_File
  <2>2. 16 + q \in 16..(16 + file.pages - 1) /\ (16 + q) - 16 = q
    BY <1>2
  <2> QED BY <2>1, <2>2 DEF Has
<1>5. cr3 = NoPaging
  BY DEF StartInit
<1> QED BY <1>1, <1>2, <1>3, <1>4, <1>5 DEF StartInv, Routines, Early, Late

\* What is written elsewhere than in the segments leaves them there.
LEMMA BroughtStays ==
  ASSUME file \in Files, NEW m, NEW n, NEW W, Keeps(m, n, W), NEW k \in 0..Len(file.headers),
         Brought(file.headers, k, m),
         \A i \in 1..k : IsLoad(i) => \A j \in 0..(file.headers[i].filesz - 1) :
           file.headers[i].vaddr + j \notin W
  PROVE  Brought(file.headers, k, n)
<1> SUFFICES ASSUME NEW i \in 1..k, file.headers[i].type = "LOAD",
                    NEW j \in 0..(file.headers[i].filesz - 1)
             PROVE  Has(n, file.headers[i].vaddr + j, FromFile(file.headers[i].offset + j))
  BY DEF Brought
<1> DEFINE a == file.headers[i].vaddr + j
           v == FromFile(file.headers[i].offset + j)
<1>1. IsLoad(i)
  BY HeaderTypes DEF IsLoad
<1>2. Has(m, a, v) /\ a \notin W
  BY <1>1 DEF Brought
<1> QED BY <1>2 DEF Keeps

\* setup_paging makes both maps of the first 4M.
LEMMA SetupPagingStep ==
  ASSUME StartInv, SetupPaging
  PROVE  StartInv'
<1>1. /\ routine = "setup_paging" /\ file \in Files /\ copied \in 0..Len(file.headers)
      /\ copied < Len(file.headers) /\ cs = 0 /\ ds = 0 /\ gs = 184 /\ gdtr = 8
      /\ Fits => /\ \A q \in 0..(file.pages - 1) : Has(mem, 16 + q, FromFile(q))
                 /\ Brought(file.headers, copied, mem)
  BY DEF StartInv, SetupPaging, Early, Late
<1>2. /\ routine' = "goto_kernel" /\ file' = file /\ copied' = copied /\ cs' = cs /\ ds' = ds
      /\ gs' = gs /\ gdtr' = gdtr /\ cr3' = 32
  BY DEF SetupPaging, PageDirBase
<1> DEFINE directory == Table(Written(PdeInit(0), PdeInit(KernelBase \div 1024)))
           Top == [p \in {32} |-> directory]
           P == PteInit(36, PgCount)
           C == [p \in (PageDirBase + 1)..(PageDirBase + PtbCount - 1) |-> Zero]
           m1 == Written(C, mem)
           m2 == Written(P, m1)
<1>3. mem' = Written(Top, m2)
  BY DEF SetupPaging, PageDirBase, PageTblBase
<1>4. KernelBase \div 1024 = 768 /\ PtbCount = 2 /\ PgCount = 2048 /\ (PgCount - 1) \div 1024 = 1
  BY DEF KernelBase, PtbCount, PgCount
<1>5. LeadsTo(directory, 0, 36) /\ LeadsTo(directory, 768, 36)
  <2>1. PdeInit(0) = [i \in 0..1 |-> 36 + i - 0] /\ PdeInit(768) = [i \in 768..769 |-> 36 + i - 768]
    BY <1>4 DEF PdeInit, PageTblBase
  <2> DEFINE w == Written(PdeInit(0), PdeInit(768))
  <2>2. 0 \in DOMAIN w /\ w[0] = 36 /\ 768 \in DOMAIN w /\ w[768] = 36
    BY <2>1 DEF Written
  <2> HIDE DEF w
  <2>3. directory = Table(w)
    BY <1>4 DEF w
  <2> QED BY <2>2, <2>3 DEF Table, LeadsTo
<1>6. DOMAIN P = 36..37 /\ IsIdentity(P[36])
  <2>1. P = [t \in 36..37 |-> Table([i \in 0..1023 |-> (t - 36) * 1024 + i])]
    BY <1>4 DEF PteInit
  <2> DEFINE id == [i \in 0..1023 |-> (36 - 36) * 1024 + i]
  <2>2. DOMAIN id = LowPages /\ \A j \in LowPages : id[j] = j
    BY DEF LowPages
  <2>3. P[36] = Table(id) /\ DOMAIN P = 36..37
    BY <2>1
  <2> HIDE DEF id
  <2> QED BY <2>2, <2>3 DEF Table, IsIdentity
<1>7. DOMAIN Top = {32} /\ Top[32] = directory /\ DOMAIN C = 33..33
  BY <1>4 DEF PageDirBase
<1> HIDE DEF Top, P, C, directory
<1>8. LowMap(mem, 32, 0, 36)' /\ LowMap(mem, 32, 768, 36)'
  <2>1. 32 \in DOMAIN Top /\ 36 \notin DOMAIN Top /\ 36 \in DOMAIN P
    BY <1>6, <1>7
  <2>2. Has(mem', 32, directory)
    BY <1>3, <1>7, <2>1, Overlay
  <2>3. Has(m2, 36, P[36])
    BY <2>1, Overlay
  <2>4. Has(mem', 36, P[36])
    BY <1>3, <2>1, <2>3, Overlay
  <2> QED BY <1>5, <1>6, <2>2, <2>4 DEF LowMap, Has
<1>9. Keeps(mem, mem', 32..37)
  <2>1. DOMAIN C \subseteq 32..37 /\ DOMAIN P \subseteq 32..37 /\ DOMAIN Top \subseteq 32..37
    BY <1>6, <1>7
  <2>2. Keeps(mem, m1, DOMAIN C) /\ Keeps(m1, m2, DOMAIN P) /\ Keeps(m2, mem', DOMAIN Top)
    BY <1>3, WrittenKeeps
  <2> QED BY <2>1, <2>2 DEF Keeps
<1>10. ASSUME Fits
       PROVE  /\ \A q \in 0..(file.pages - 1) : Has(mem', 16 + q, FromFile(q))
              /\ Brought(file.headers, copied, mem')
  <2>1. ASSUME NEW q \in 0..(file.pages - 1) PROVE Has(mem', 16 + q, FromFile(q))
    <3>1. Has(mem, 16 + q, FromFile(q))
      BY <1>1, <1>10
    <3>2. 16 + q \notin 32..37
      BY <1>1, <1>10, HeaderTypes DEF Fits
    <3> QED BY <1>9, <3>1, <3>2 DEF Keeps
  <2>2. ASSUME NEW i, IsLoad(i), NEW j \in 0..(file.headers[i].filesz - 1)
        PROVE  file.headers[i].vaddr + j \notin 32..37
    <3>1. file.headers[i].vaddr + j \in Image
      BY <1>1, <2>2, FilePages
    <3>2. Image \cap (32..37) = {}
      BY DEF Image
    <3> QED BY <3>1, <3>2
  <2>3. Brought(file.headers, copied, mem')
    BY <1>1, <1>9, <1>10, <2>2, BroughtStays
  <2> QED BY <2>1, <2>3
<1> QED BY <1>1, <1>2, <1>8, <1>10 DEF StartInv, Routines, Early, Late, Fits

\* memcpy through the loader's data segment and page tables
LEMMA MemcpyLow ==
  ASSUME cr3 = 32, LowMap(mem, 32, 0, 36), ds = 0, NEW dst \in Nat, NEW src \in Nat, NEW n \in Nat,
         \A j \in 0..(n - 1) : dst + j \in LowPages
  PROVE  \E f : /\ Memcpy(dst, src, n) = Written(f, mem)
                /\ \A a : a \in DOMAIN f <=> \E j \in 0..(n - 1) : a = dst + j
                /\ \A j \in 0..(n - 1) : src + j \in LowPages => f[dst + j] = mem[src + j]
<1> DEFINE S == 0..(n - 1)
           T == {At(ds, dst + j) : j \in S}
           Which(p) == CHOOSE k \in S : At(ds, dst + k) = p
           f == [p \in T |-> mem[At(ds, src + Which(p))]]
<1>1. 32 \in Nat /\ 36 \in Nat
  OBVIOUS
<1>2. \A p \in LowPages : At(ds, p) = p
  BY <1>1, LowAt
<1>3. \A j \in S : At(ds, dst + j) = dst + j
  BY <1>2
<1>4. \A j \in S : Which(dst + j) = j
  BY <1>3
<1>5. \A a : a \in DOMAIN f <=> \E j \in S : a = dst + j
  BY <1>3
<1>6. ASSUME NEW j \in S, src + j \in LowPages
      PROVE  f[dst + j] = mem[src + j]
  <2>1. dst + j \in T
    BY <1>3, <1>6
  <2>2. f[dst + j] = mem[At(ds, src + Which(dst + j))]
    BY <2>1
  <2>3. At(ds, src + j) = src + j
    BY <1>2, <1>6
  <2> QED BY <1>4, <1>6, <2>2, <2>3
<1>7. Memcpy(dst, src, n) = Written(f, mem)
  BY DEF Memcpy
<1> HIDE DEF f
<1> QED BY <1>5, <1>6, <1>7

\* The pages of a file that fits lie below 4M.
LEMMA FileInLow ==
  ASSUME NEW o \in Nat, NEW z \in Nat, NEW n \in Nat, o + z <= n, n <= 16, NEW j \in 0..(z - 1)
  PROVE  o + j \in 0..(n - 1) /\ 16 + o + j = 16 + (o + j) /\ 16 + o + j \in LowPages
  BY DEF LowPages

\* goto_kernel copies the segment of one program header to where it belongs.
LEMMA GotoKernelStep ==
  ASSUME StartInv, GotoKernel
  PROVE  StartInv'
<1>1. /\ routine = "goto_kernel" /\ file \in Files /\ copied \in 0..Len(file.headers)
      /\ copied < Len(file.headers) /\ cs = 0 /\ ds = 0 /\ gs = 184 /\ gdtr = 8
      /\ cr3 = 32 /\ LowMap(mem, 32, 0, 36) /\ LowMap(mem, 32, 768, 36)
      /\ Fits => /\ \A q \in 0..(file.pages - 1) : Has(mem, 16 + q, FromFile(q))
                 /\ Brought(file.headers, copied, mem)
  BY DEF StartInv, GotoKernel, Early, Late, Routines
<1> DEFINE i == copied + 1
           h == file.headers[i]
<1>2. /\ file' = file /\ copied' = i /\ ds' = ds /\ gs' = gs /\ gdtr' = gdtr /\ cr3' = cr3
      /\ mem' = IF h.type = "NULL" THEN mem ELSE Memcpy(h.vaddr, Kernel_File + h.offset, h.filesz)
      /\ IF i = Len(file.headers) THEN routine' = "memory_init" /\ cs' = KernelBase
         ELSE routine' = routine /\ cs' = cs
  BY DEF GotoKernel
<1>3. i \in 1..Len(file.headers) /\ i \in Nat /\ h \in Headers /\ copied \in Nat
  BY <1>1, HeaderTypes
<1>4. /\ h.vaddr \in Nat /\ h.offset \in Nat /\ h.filesz \in Nat
      /\ h.type \in {"NULL", "LOAD", "STACK"}
  BY <1>3 DEF Headers
<1>5. ASSUME ~IsLoad(i) PROVE Keeps(mem, mem', {})
  <2>1. CASE h.type = "NULL"
    BY <1>2, <2>1 DEF Keeps
  <2>2. CASE h.type = "STACK"
    <3>1. h.filesz = 0
      BY <1>1, <1>3, <2>2, FilesAssumption, HeaderTypes
    <3>2. \A j \in 0..(h.filesz - 1) : h.vaddr + j \in LowPages
      BY <3>1
    <3>3. Kernel_File + h.offset \in Nat
      BY <1>4 DEF Kernel_File
    <3>4. PICK f : /\ Memcpy(h.vaddr, Kernel_File + h.offset, h.filesz) = Written(f, mem)
                   /\ \A a : a \in DOMAIN f <=> \E j \in 0..(h.filesz - 1) : a = h.vaddr + j
                   /\ \A j \in 0..(h.filesz - 1) : Kernel_File + h.offset + j \in LowPages =>
                        f[h.vaddr + j] = mem[Kernel_File + h.offset + j]
      BY <1>1, <1>4, <3>2, <3>3, MemcpyLow
    <3>5. DOMAIN f = {}
      BY <3>1, <3>4
    <3>6. mem' = Written(f, mem)
      BY <1>2, <2>2, <3>4
    <3> QED BY <3>5, <3>6, WrittenKeeps
  <2> QED BY <1>3, <1>4, <1>5, <2>1, <2>2 DEF IsLoad
<1> DEFINE W == {h.vaddr + j : j \in 0..(h.filesz - 1)}
<1>6. ASSUME IsLoad(i)
      PROVE  /\ Keeps(mem, mem', W)
             /\ Fits => \A j \in 0..(h.filesz - 1) : Has(mem', h.vaddr + j, FromFile(h.offset + j))
  <2>1. \A j \in 0..(h.filesz - 1) : h.vaddr + j \in LowPages
    <3>1. \A j \in 0..(h.filesz - 1) : h.vaddr + j \in Image
      BY <1>1, <1>6, FilePages
    <3> QED BY <3>1, ImageLow
  <2>2. Kernel_File + h.offset \in Nat
    BY <1>4 DEF Kernel_File
  <2>3. PICK f : /\ Memcpy(h.vaddr, Kernel_File + h.offset, h.filesz) = Written(f, mem)
                 /\ \A a : a \in DOMAIN f <=> \E j \in 0..(h.filesz - 1) : a = h.vaddr + j
                 /\ \A j \in 0..(h.filesz - 1) : Kernel_File + h.offset + j \in LowPages =>
                      f[h.vaddr + j] = mem[Kernel_File + h.offset + j]
    BY <1>1, <1>4, <2>1, <2>2, MemcpyLow
  <2>4. mem' = Written(f, mem)
    BY <1>2, <1>6, <2>3 DEF IsLoad
  <2>5. DOMAIN f = W
    BY <2>3
  <2>6. ASSUME Fits, NEW j \in 0..(h.filesz - 1)
        PROVE  Has(mem', h.vaddr + j, FromFile(h.offset + j))
    <3>1. h.offset + h.filesz <= file.pages /\ file.pages \in Nat /\ file.pages <= 16
      BY <1>1, <1>6, <2>6, LoadFacts, HeaderTypes DEF Fits
    <3>2. h.offset + j \in 0..(file.pages - 1) /\ Kernel_File + h.offset + j = 16 + (h.offset + j)
          /\ Kernel_File + h.offset + j \in LowPages
      BY <1>4, <3>1, FileInLow DEF Kernel_File
    <3>3. Has(mem, 16 + (h.offset + j), FromFile(h.offset + j))
      BY <1>1, <2>6, <3>2
    <3>4. f[h.vaddr + j] = FromFile(h.offset + j)
      BY <2>3, <3>2, <3>3 DEF Has
    <3>5. h.vaddr + j \in DOMAIN f
      BY <2>3
    <3> QED BY <2>4, <3>4, <3>5, Overlay
  <2> QED BY <2>4, <2>5, <2>6, WrittenKeeps
<1>7. PICK V : /\ Keeps(mem, mem', V) /\ V \subseteq Image
               /\ V # {} => IsLoad(i) /\ V \subseteq SegmentPages(h)
  <2>1. CASE IsLoad(i)
    <3>1. \A j \in 0..(h.filesz - 1) : h.vaddr + j \in Image /\ h.vaddr + j \in SegmentPages(h)
      BY <1>1, <2>1, FilePages
    <3> QED BY <1>6, <2>1, <3>1
  <2>2. CASE ~IsLoad(i)
    BY <1>5, <2>2
  <2> QED BY <2>1, <2>2
<1>8. LowMap(mem', 32, 0, 36) /\ LowMap(mem', 32, 768, 36)
  <2>1. 32 \notin V /\ 36 \notin V
    BY <1>7 DEF Image
  <2> QED BY <1>1, <1>7, <2>1, LowMapStays
<1>9. ASSUME Fits PROVE \A q \in 0..(file.pages - 1) : Has(mem', 16 + q, FromFile(q))
  <2> SUFFICES ASSUME NEW q \in 0..(file.pages - 1) PROVE Has(mem', 16 + q, FromFile(q))
    OBVIOUS
  <2>1. Has(mem, 16 + q, FromFile(q))
    BY <1>1, <1>9
  <2>2. 16 + q \notin V
    BY <1>1, <1>7, <1>9, HeaderTypes DEF Fits, Image
  <2> QED BY <1>7, <2>1, <2>2 DEF Keeps
<1>10. ASSUME Fits PROVE Brought(file.headers, i, mem')
  <2>1. ASSUME NEW k \in 1..copied, IsLoad(k), NEW j \in 0..(file.headers[k].filesz - 1)
        PROVE  file.headers[k].vaddr + j \notin V
    <3>1. file.headers[k].vaddr + j \in SegmentPages(file.headers[k])
      BY <1>1, <2>1, FilePages
    <3>2. k # i
      BY <1>3
    <3>3. IsLoad(i) => SegmentPages(h) \cap SegmentPages(file.headers[k]) = {}
      BY <1>1, <2>1, <3>2, SegmentsApart
    <3> QED BY <1>7, <3>1, <3>3
  <2>2. Brought(file.headers, copied, mem')
    BY <1>1, <1>7, <1>10, <2>1, BroughtStays
  <2>3. h.type = "LOAD" =>
          \A j \in 0..(h.filesz - 1) : Has(mem', h.vaddr + j, FromFile(h.offset + j))
    BY <1>3, <1>6, <1>10 DEF IsLoad
  <2>4. \A k \in 1..i : k \in 1..copied \/ k = i
    BY <1>3
  <2> QED BY <2>2, <2>3, <2>4 DEF Brought
<1> QED
  <2>1. /\ file' \in Files /\ copied' \in 0..Len(file'.headers) /\ cr3' = 32
        /\ LowMap(mem', 32, 0, 36) /\ LowMap(mem', 32, 768, 36)
        /\ Fits => (\A q \in 0..(file.pages - 1) : Has(mem', 16 + q, FromFile(q)))
                   /\ Brought(file.headers, copied', mem')
    BY <1>1, <1>2, <1>3, <1>8, <1>9, <1>10
  <2>2. CASE i = Len(file.headers)
    BY <1>1, <1>2, <2>1, <2>2 DEF StartInv, Routines, Early, Late, Fits
  <2>3. CASE i # Len(file.headers)
    BY <1>1, <1>2, <1>3, <2>1, <2>3 DEF StartInv, Routines, Early, Late, Fits
  <2> QED BY <2>2, <2>3

\* The bss is where it is as long as the file is.
LEMMA SameBss ==
  ASSUME file' = file
  PROVE  Bss' = Bss /\ \A b : Wiped(b)' = Wiped(b)
<1>1. Loaded' = Loaded
  BY DEF Loaded
<1>2. BssSegment' = BssSegment
  BY <1>1 DEF BssSegment
<1> QED BY <1>2 DEF Bss, BssStart, BssEnd, Wiped

\* memory_init clears the bss, and writes behind it what nobody has.
LEMMA MemoryInitStep ==
  ASSUME StartInv, MemoryInitBss
  PROVE  StartInv'
<1>1. /\ routine = "memory_init" /\ file \in Files /\ copied = Len(file.headers)
      /\ cs = KernelBase /\ ds = 0 /\ gs = 184 /\ gdtr = 8
      /\ cr3 = 32 /\ LowMap(mem, 32, 0, 36) /\ LowMap(mem, 32, 768, 36)
      /\ Fits => Brought(file.headers, copied, mem)
  BY DEF StartInv, MemoryInitBss, Early, Late, Routines
<1> DEFINE W == Bss \cup {BssEnd}
           f == [p \in {At(ds, b) : b \in W} |-> Wiped(CHOOSE b \in W : At(ds, b) = p)]
<1>2. /\ routine' = "arch_init" /\ mem' = Written(f, mem) /\ kernel_mem_size' \in KernelSizes
      /\ UNCHANGED <<file, copied, cs, ds, gs, gdtr, cr3>>
  BY DEF MemoryInitBss
<1>3. DOMAIN f = W /\ \A b \in W : f[b] = Wiped(b)
  <2>1. 32 \in Nat /\ 36 \in Nat
    OBVIOUS
  <2>2. W \subseteq LowPages
    <3>1. Bss \subseteq Image /\ BssEnd \in 257..512
      BY <1>1, BssApart
    <3> QED BY <3>1 DEF LowPages, Image
  <2>3. \A b \in W : At(ds, b) = b
    BY <1>1, <2>1, <2>2, LowAt
  <2> HIDE DEF W
  <2>4. {At(ds, b) : b \in W} = W /\ \A p \in W : (CHOOSE b \in W : At(ds, b) = p) = p
    BY <2>3
  <2> QED BY <2>4
<1> HIDE DEF f
<1>4. Keeps(mem, mem', W) /\ \A b \in Bss : Has(mem', b, Wiped(b))
  BY <1>2, <1>3, WrittenKeeps, Overlay
<1>5. LowMap(mem', 32, 0, 36) /\ LowMap(mem', 32, 768, 36)
  <2>1. 32 \notin W /\ 36 \notin W
    <3>1. Bss \subseteq Image /\ BssEnd \in 257..512
      BY <1>1, BssApart
    <3> QED BY <3>1 DEF Image
  <2> QED BY <1>1, <1>4, <2>1, LowMapStays
<1>6. Fits => Brought(file.headers, copied, mem')
  <2>1. copied \in 0..Len(file.headers)
    BY <1>1, HeaderTypes
  <2> QED BY <1>1, <1>4, <2>1, BssApart, BroughtStays
<1>7. Bss' = Bss /\ \A b : Wiped(b)' = Wiped(b)
  BY <1>2, SameBss
<1> QED
  BY <1>1, <1>2, <1>4, <1>5, <1>6, <1>7, HeaderTypes DEF StartInv, Routines, Early, Late, Fits

\* gdt_init and tss_init change segments only; the gdt is in the kernel's image.
LEMMA ArchInitStep ==
  ASSUME StartInv, NEW gdt_table \in TablePages, ArchInitSegments(gdt_table)
  PROVE  StartInv'
<1>1. /\ routine = "arch_init" /\ routine' = "page_init" /\ gdtr' = gdt_table /\ ds' = KernelBase
      /\ gs' = KernelBase + 184
      /\ file' = file /\ mem' = mem /\ copied' = copied /\ cs' = cs /\ cr3' = cr3
      /\ kernel_mem_size' = kernel_mem_size
  BY DEF ArchInitSegments, Video
<1>2. /\ file \in Files /\ copied \in 0..Len(file.headers) /\ copied = Len(file.headers)
      /\ cs = KernelBase /\ cr3 = 32 /\ LowMap(mem, 32, 0, 36) /\ LowMap(mem, 32, 768, 36)
      /\ Fits => Brought(file.headers, copied, mem)
      /\ kernel_mem_size \in KernelSizes /\ \A b \in Bss : Has(mem, b, Wiped(b))
  BY <1>1 DEF StartInv, Early, Routines
<1>3. gdt_table \in Image
  <2>1. CASE gdt_table \in Bss
    BY <1>2, <2>1, BssApart
  <2>2. ASSUME NEW h \in Loaded, h.filesz > 0, gdt_table = h.vaddr + h.filesz - 1
        PROVE  gdt_table \in Image
    <3>1. PICK i : IsLoad(i) /\ h = file.headers[i]
      BY <1>2, HeaderTypes DEF Loaded, IsLoad
    <3>2. h.vaddr \in Nat /\ h.filesz \in Nat
      BY <1>2, <3>1, LoadFacts
    <3>3. h.filesz - 1 \in 0..(h.filesz - 1) /\ gdt_table = h.vaddr + (h.filesz - 1)
      BY <2>2, <3>2
    <3> QED BY <1>2, <3>1, <3>3, FilePages
  <2> QED BY <2>1, <2>2 DEF TablePages
<1>4. Bss' = Bss /\ \A b : Wiped(b)' = Wiped(b)
  BY <1>1, SameBss
<1> QED BY <1>1, <1>2, <1>3, <1>4 DEF StartInv, Routines, Early, Late, Fits

\* page_init writes tables below the kernel, through the loader's, and changes to them.
LEMMA PageInitStep ==
  ASSUME StartInv, PageInitSwitch
  PROVE  StartInv'
<1>1. /\ file \in Files /\ copied \in 0..Len(file.headers) /\ copied = Len(file.headers)
      /\ cs = KernelBase /\ ds = KernelBase /\ gs = KernelBase + 184 /\ gdtr \in Image
      /\ cr3 = 32 /\ LowMap(mem, 32, 768, 36)
      /\ Fits => Brought(file.headers, copied, mem)
      /\ kernel_mem_size \in KernelSizes /\ \A b \in Bss : Has(mem, b, Wiped(b))
  BY DEF StartInv, PageInitSwitch, Early, Late, Routines
<1> DEFINE n == kernel_mem_size
           tables == (n + 1023) \div 1024
           directory == Table([i \in DirBase..(DirBase + tables - 1) |-> PgTbl + i - DirBase])
           P == PteInit(PgTbl, n)
           pages == Written([p \in {PgDir} |-> directory], P)
           f == [p \in {At(ds, w) : w \in DOMAIN pages} |->
                   pages[CHOOSE w \in DOMAIN pages : At(ds, w) = p]]
<1>2. /\ mem' = Written(f, mem) /\ routine' = "halt" /\ cr3' = 48
      /\ UNCHANGED <<file, copied, cs, ds, gs, gdtr, kernel_mem_size>>
  BY DEF PageInitSwitch, PgDir
<1>3. /\ n \in {1024, 4096, 8192} /\ DirBase = 768 /\ tables \in 1..8
      /\ (n - 1) \div 1024 \in 0..7
  BY <1>1, SizesAssumption DEF DirBase, KernelBase
<1>4. LeadsTo(directory, 768, 49)
  <2> DEFINE d == [i \in DirBase..(DirBase + tables - 1) |-> PgTbl + i - DirBase]
  <2>1. 768 \in DOMAIN d /\ d[768] = 49
    BY <1>3 DEF PgTbl
  <2> HIDE DEF d
  <2>2. directory = Table(d)
    BY DEF d
  <2> HIDE DEF directory
  <2> QED BY <2>1, <2>2 DEF Table, LeadsTo
<1>5. DOMAIN P \subseteq 49..56 /\ 49 \in DOMAIN P /\ IsIdentity(P[49])
  <2> DEFINE T == 49..(49 + (n - 1) \div 1024)
  <2>1. P = [t \in T |-> Table([i \in 0..1023 |-> (t - 49) * 1024 + i])]
    BY DEF PteInit, PgTbl
  <2> DEFINE id == [i \in 0..1023 |-> (49 - 49) * 1024 + i]
  <2>2. DOMAIN id = LowPages /\ \A j \in LowPages : id[j] = j
    BY DEF LowPages
  <2>3. 49 \in T /\ T \subseteq 49..56
    BY <1>3
  <2> HIDE DEF T, P
  <2>4. P[49] = Table(id) /\ DOMAIN P = T
    BY <2>1, <2>3
  <2> HIDE DEF id
  <2> QED BY <2>2, <2>3, <2>4 DEF Table, IsIdentity
<1>6. DOMAIN pages \subseteq 48..56 /\ Has(pages, 48, directory) /\ Has(pages, 49, P[49])
  <2> DEFINE Top == [p \in {PgDir} |-> directory]
  <2> HIDE DEF P, directory
  <2>1. DOMAIN Top = {48} /\ Top[48] = directory
    BY DEF PgDir
  <2> HIDE DEF Top
  <2>2. /\ 48 \in DOMAIN Top /\ 49 \notin DOMAIN Top
        /\ DOMAIN Top \subseteq 48..56 /\ DOMAIN P \subseteq 48..56
    BY <1>5, <2>1
  <2>3. pages = Written(Top, P)
    BY DEF Top
  <2>4. Has(P, 49, P[49])
    BY <1>5 DEF Has
  <2>5. Has(pages, 48, directory)
    BY <2>1, <2>2, <2>3, Overlay
  <2>6. Has(pages, 49, P[49])
    BY <2>2, <2>3, <2>4, Overlay
  <2>7. DOMAIN pages = DOMAIN Top \cup DOMAIN P
    BY <2>3, Overlay
  <2> QED BY <2>2, <2>5, <2>6, <2>7
<1> HIDE DEF P, directory, pages
<1>7. DOMAIN f = DOMAIN pages /\ \A w \in DOMAIN pages : f[w] = pages[w]
  <2>1. 32 \in Nat /\ 36 \in Nat /\ 48..56 \subseteq LowPages
    BY DEF LowPages
  <2>2. \A w \in DOMAIN pages : At(ds, w) = w
    BY <1>1, <1>6, <2>1, HighAt
  <2> QED BY <2>2
<1> HIDE DEF f
<1>8. LowMap(mem', 48, 768, 49)
  <2>1. Has(mem', 48, directory) /\ Has(mem', 49, P[49])
    <3>1. 48 \in DOMAIN f /\ f[48] = directory /\ 49 \in DOMAIN f /\ f[49] = P[49]
      BY <1>6, <1>7 DEF Has
    <3>2. Has(mem', 48, f[48]) /\ Has(mem', 49, f[49])
      BY <1>2, <3>1, Overlay
    <3> QED BY <3>1, <3>2
  <2> QED BY <1>4, <1>5, <2>1 DEF LowMap, Has
<1>9. Keeps(mem, mem', DOMAIN pages) /\ Image \cap DOMAIN pages = {}
  <2>1. Image \cap DOMAIN pages = {}
    BY <1>6 DEF Image
  <2> QED BY <1>2, <1>7, <2>1, WrittenKeeps
<1>10. Fits => Brought(file.headers, copied, mem')
  <2>1. ASSUME NEW i, IsLoad(i), NEW j \in 0..(file.headers[i].filesz - 1)
        PROVE  file.headers[i].vaddr + j \notin DOMAIN pages
    BY <1>1, <1>9, <2>1, FilePages
  <2> QED BY <1>1, <1>9, <2>1, BroughtStays
<1>11. \A b \in Bss : Has(mem', b, Wiped(b))
  BY <1>1, <1>9, BssApart DEF Keeps
<1>12. Bss' = Bss /\ \A b : Wiped(b)' = Wiped(b)
  BY <1>2, SameBss
<1> QED
  BY <1>1, <1>2, <1>8, <1>10, <1>11, <1>12 DEF StartInv, Routines, Early, Late, Fits

LEMMA StartStep == StartInv /\ [StartNext]_startVars => StartInv'
<1> SUFFICES ASSUME StartInv, [StartNext]_startVars PROVE StartInv'
  OBVIOUS
<1>1. CASE SetupPaging
  BY <1>1, SetupPagingStep
<1>2. CASE GotoKernel
  BY <1>2, GotoKernelStep
<1>3. CASE MemoryInitBss
  BY <1>3, MemoryInitStep
<1>4. ASSUME NEW gdt_table \in TablePages, ArchInitSegments(gdt_table) PROVE StartInv'
  BY <1>4, ArchInitStep
<1>5. CASE PageInitSwitch
  BY <1>5, PageInitStep
<1>6. CASE UNCHANGED startVars
  <2>1. Bss' = Bss /\ \A b : Wiped(b)' = Wiped(b)
    BY <1>6, SameBss DEF startVars
  <2> QED BY <1>6, <2>1 DEF startVars, StartInv, Brought, LowMap, Early, Late, Fits
<1> QED BY <1>1, <1>2, <1>3, <1>4, <1>5, <1>6 DEF StartNext

\* What stays in sight while the maps change: the code, the stack, the parameters, the
\* screen, and the gdt.
LEMMA StaysInSight ==
  ASSUME StartInv
  PROVE  /\ ~InKernel => At(cs, Loader) = Loader
         /\ InKernel => \A p \in Image : At(cs, p) = p
         /\ \A p \in {Stack} \cup Params \cup Image : At(ds, p) = p
         /\ At(gs, 0) = Video
         /\ routine # "halt" => FrameOf(gdtr) = gdtr
<1>1. /\ 32 \in Nat /\ 36 \in Nat /\ 48 \in Nat /\ 49 \in Nat
      /\ 8 \in LowPages /\ 184 \in LowPages /\ {Stack} \cup Params \cup Image \subseteq LowPages
  BY DEF LowPages, Stack, Params, Image
<1>2. /\ InKernel <=> ~Early
      /\ Loader = 8 /\ Video = 184
      /\ (184 + 0) % (1024 * 1024) = (0 + 184) % (1024 * 1024)
      /\ 8 \notin Image
  BY DEF InKernel, Early, StartInv, Routines, Loader, Video, Image
<1>3. At(184, 0) = At(0, 184)
  BY <1>2 DEF At
<1>4. CASE routine = "setup_paging"
  <2>1. cr3 = NoPaging /\ cs = 0 /\ ds = 0 /\ gs = 184 /\ gdtr = 8 /\ Early
    BY <1>4 DEF StartInv, Early, Late
  <2>2. \A p \in LowPages : At(0, p) = p /\ FrameOf(p) = p
    BY <2>1, NoPagingAt
  <2> QED BY <1>1, <1>2, <1>3, <2>1, <2>2
<1>5. CASE routine \in Routines \ {"setup_paging", "halt"}
  <2>1. /\ cr3 = 32 /\ LowMap(mem, 32, 0, 36) /\ LowMap(mem, 32, 768, 36)
        /\ cs = IF Early THEN 0 ELSE KernelBase
        /\ IF Late THEN ds = KernelBase /\ gs = KernelBase + 184 /\ gdtr \in Image
           ELSE ds = 0 /\ gs = 184 /\ gdtr = 8
    BY <1>5 DEF StartInv
  <2>2. \A p \in LowPages : At(0, p) = p /\ FrameOf(p) = p
    BY <1>1, <2>1, LowAt
  <2>3. (\A p \in LowPages : At(KernelBase, p) = p) /\ At(KernelBase + 184, 0) = 184
    BY <1>1, <2>1, HighAt
  <2> QED BY <1>1, <1>2, <1>3, <2>1, <2>2, <2>3
<1>6. CASE routine = "halt"
  <2>1. /\ cr3 = 48 /\ LowMap(mem, 48, 768, 49) /\ ~Early
        /\ cs = KernelBase /\ ds = KernelBase /\ gs = KernelBase + 184
    BY <1>6 DEF StartInv, Early, Late
  <2>2. (\A p \in LowPages : At(KernelBase, p) = p) /\ At(KernelBase + 184, 0) = 184
    BY <1>1, <2>1, HighAt
  <2> QED BY <1>1, <1>2, <1>6, <2>1, <2>2
<1> QED BY <1>4, <1>5, <1>6 DEF StartInv

\* The page of the file that belongs at page j of a segment
LEMMA MeantIs ==
  ASSUME file \in Files, NEW i, IsLoad(i), NEW j \in 0..(file.headers[i].filesz - 1)
  PROVE  Meant(file.headers[i].vaddr + j) = FromFile(file.headers[i].offset + j)
<1> DEFINE p == file.headers[i].vaddr + j
           Of(k) == p \in k.vaddr..(k.vaddr + k.filesz - 1)
           h == CHOOSE k \in Loaded : Of(k)
<1>1. /\ file.headers[i] \in Loaded /\ file.headers[i].vaddr \in Nat
      /\ file.headers[i].filesz \in Nat /\ file.headers[i].offset \in Nat
  BY LoadFacts, HeaderTypes DEF Loaded, IsLoad
<1>2. Of(file.headers[i])
  BY <1>1
<1>3. ASSUME NEW k \in Loaded, Of(k) PROVE k = file.headers[i]
  <2>1. PICK n : IsLoad(n) /\ k = file.headers[n]
    BY HeaderTypes DEF Loaded, IsLoad
  <2>2. k.vaddr \in Nat /\ k.filesz \in Nat /\ k.memsz \in Nat /\ k.filesz <= k.memsz
    BY <2>1, LoadFacts
  <2>3. p \in SegmentPages(k)
    BY <1>3, <2>2 DEF SegmentPages
  <2>4. p \in SegmentPages(file.headers[i])
    BY FilePages
  <2> QED BY <2>1, <2>3, <2>4, SegmentsApart
<1>4. h = file.headers[i]
  <2> HIDE DEF Of
  <2> QED BY <1>1, <1>2, <1>3
<1>5. Meant(p) = FromFile(h.offset + p - h.vaddr)
  BY DEF Meant
<1>6. h.offset + p - h.vaddr = file.headers[i].offset + j
  <2> HIDE DEF h
  <2> QED BY <1>1, <1>4
<1> QED BY <1>5, <1>6

\* For every kernel the loader can bring and every size of memory, the code that runs
\* stays in sight and the kernel finds its own image, with a bss that is cleared but for
\* its first dword, until it halts (boot/loader.s, kernel/start.s, gdt_init, page_init).
THEOREM KernelInSight == StartSpec => []KernelSeesItself
<1>1. StartInv => KernelSeesItself
  <2> SUFFICES ASSUME StartInv, file.pages <= PageDirBase - Kernel_File PROVE KernelSeesItself
    BY DEF KernelSeesItself
  <2>1. Fits /\ file \in Files
    BY DEF Fits, StartInv, PageDirBase, Kernel_File
  <2>2. ASSUME InKernel, NEW p \in Text PROVE At(cs, p) = p /\ At(ds, p) = p /\ mem[p] = Meant(p)
    <3>1. PICK i : IsLoad(i) /\ p \in file.headers[i].vaddr..
                                      (file.headers[i].vaddr + file.headers[i].filesz - 1)
      BY <2>1, HeaderTypes DEF Text, Loaded, IsLoad
    <3> DEFINE h == file.headers[i]
               j == p - h.vaddr
    <3>2. h.vaddr \in Nat /\ h.filesz \in Nat
      BY <2>1, <3>1, LoadFacts
    <3>3. j \in 0..(h.filesz - 1) /\ p = h.vaddr + j
      BY <3>1, <3>2
    <3> HIDE DEF j
    <3>4. p \in Image
      BY <2>1, <3>1, <3>3, FilePages
    <3>5. Meant(p) = FromFile(h.offset + j)
      BY <2>1, <3>1, <3>3, MeantIs
    <3>6. Brought(file.headers, Len(file.headers), mem)
      BY <2>1, <2>2 DEF StartInv, Early, InKernel
    <3>7. Has(mem, p, FromFile(h.offset + j))
      BY <3>1, <3>3, <3>6 DEF Brought, IsLoad
    <3> QED BY <2>2, <3>4, <3>5, <3>7, StaysInSight DEF Has
  <2>3. ASSUME routine \in {"arch_init", "page_init", "halt"}, NEW p \in Bss
        PROVE  At(ds, p) = p /\ mem[p] = IF p = BssStart THEN AllButFirst ELSE Zero
    <3>1. p \in Image /\ p # BssEnd /\ Has(mem, p, Wiped(p))
      BY <2>1, <2>3, BssApart DEF StartInv
    <3> QED BY <3>1, StaysInSight DEF Has, Wiped
  <2> QED BY <2>2, <2>3, StaysInSight DEF KernelSeesItself
<1> QED BY <1>1, StartBegins, StartStep, PTL DEF StartSpec

=============================================================================
