------------------------------ MODULE Interrupts ------------------------------
(***************************************************************************)
(* The masks of the two 8259A interrupt controllers (kernel/arch/i8259.c)  *)
(* under a task that calls enable_irq and disable_irq between KernelLock   *)
(* and KernelUnlock (kernel/include/lock.h), and the entry stubs           *)
(* hwint_master and hwint_slave (kernel/include/irq.inc), which preempt it *)
(* and change the same masks.                                              *)
(*                                                                         *)
(* There is one processor: what runs is the handler on top of frames, or   *)
(* the task when there is none.  A stretch of code that runs with          *)
(* interrupts closed, and does nothing a device could see in between, is   *)
(* one action.                                                             *)
(***************************************************************************)
EXTENDS Integers, Sequences, FiniteSets

CONSTANTS Lines,         \* the interrupt lines that have a device, of 0..15
          MaxRequests    \* bound: how often each device asks for an interrupt

ASSUME LinesAssumption == Lines \subseteq 0..15 /\ MaxRequests \in Nat

VARIABLES mask,      \* the mask register of each controller, as its set bits
          request,   \* external: the lines whose device waits for its handler
          asked,     \* external: how often each device has asked
          open,      \* the interrupt flag of the processor
          frames,    \* the handlers that were entered and have not returned
          task,      \* where the task is within enable_irq or disable_irq
          agreed     \* ghost: the masks, had each change the code makes been made at once

maskVars == <<mask, request, asked, open, frames, task, agreed>>

Chip(irq) == IF irq < 8 THEN "master" ELSE "slave"
Bit(irq) == irq % 8
Cascade == 2    \* the master's line the slave is connected to

Idle == [pc |-> "idle"]

\* init_8259A; the boot loader closed interrupts and nothing has opened them yet.
MaskInit ==
  /\ mask = [master |-> (0..7) \ {0, Cascade}, slave |-> 0..7]
  /\ agreed = mask
  /\ request = {} /\ asked = [irq \in Lines |-> 0]
  /\ open = FALSE /\ frames = <<>> /\ task = Idle

\* external: a device asks for an interrupt
Request(irq) ==
  /\ irq \notin request /\ asked[irq] < MaxRequests
  /\ request' = request \cup {irq}
  /\ asked' = [asked EXCEPT ![irq] = @ + 1]
  /\ UNCHANGED <<mask, open, frames, task, agreed>>

-----------------------------------------------------------------------------

TaskRuns == frames = <<>>

\* OpenInt
OpenInt ==
  /\ TaskRuns /\ task = Idle /\ ~open
  /\ open' = TRUE
  /\ UNCHANGED <<mask, request, asked, frames, task, agreed>>

\* A faulty KernelLock without CloseInt.
KernelLockOpen(irq, enable) ==
  /\ TaskRuns /\ task = Idle
  /\ task' = [pc |-> "locked", irq |-> irq, enable |-> enable, eflags |-> open]
  /\ UNCHANGED <<mask, request, asked, open, frames, agreed>>

\* KernelLock, at the start of enable_irq and disable_irq
KernelLock(irq, enable) ==
  /\ TaskRuns /\ task = Idle
  /\ task' = [pc |-> "locked", irq |-> irq, enable |-> enable, eflags |-> open]
  /\ open' = FALSE
  /\ UNCHANGED <<mask, request, asked, frames, agreed>>

\* inb of the mask register
ReadMask ==
  /\ TaskRuns /\ task.pc = "locked"
  /\ task' = [pc |-> "read", irq |-> task.irq, enable |-> task.enable,
              eflags |-> task.eflags, al |-> mask[Chip(task.irq)]]
  /\ UNCHANGED <<mask, request, asked, open, frames, agreed>>

Changed(bits, irq, enable) == IF enable THEN bits \ {Bit(irq)} ELSE bits \cup {Bit(irq)}

\* outb to the mask register
WriteMask ==
  /\ TaskRuns /\ task.pc = "read"
  /\ LET chip == Chip(task.irq) IN
       /\ mask' = [mask EXCEPT ![chip] = Changed(task.al, task.irq, task.enable)]
       /\ agreed' = [agreed EXCEPT ![chip] = Changed(@, task.irq, task.enable)]
  /\ task' = [pc |-> "written", eflags |-> task.eflags]
  /\ UNCHANGED <<request, asked, open, frames>>

\* A faulty KernelUnlock that leaves interrupts as they are.
KernelUnlockClosed ==
  /\ TaskRuns /\ task.pc = "written"
  /\ task' = Idle
  /\ UNCHANGED <<mask, request, asked, open, frames, agreed>>

\* KernelUnlock
KernelUnlock ==
  /\ TaskRuns /\ task.pc = "written"
  /\ open' = task.eflags
  /\ task' = Idle
  /\ UNCHANGED <<mask, request, asked, frames, agreed>>

-----------------------------------------------------------------------------

\* The controllers let the processor see irq.
Signalled(irq) ==
  /\ irq \in request /\ Bit(irq) \notin mask[Chip(irq)]
  /\ Chip(irq) = "slave" => Cascade \notin mask["master"]

Frame(irq) == [irq |-> irq, eflags |-> open]

\* The gate closes interrupts, hwint_master masks its line and tells the controller.
EnterMaster(irq) ==
  /\ Chip(irq) = "master" /\ Signalled(irq) /\ open
  /\ request' = request \ {irq}
  /\ frames' = Append(frames, Frame(irq))
  /\ open' = FALSE
  /\ mask' = [mask EXCEPT !["master"] = @ \cup {Bit(irq)}]
  /\ agreed' = [agreed EXCEPT !["master"] = @ \cup {Bit(irq)}]
  /\ UNCHANGED <<asked, task>>

\* A faulty EnterSlave that opens interrupts without masking its line.
EnterSlaveUnmasked(irq) ==
  /\ Chip(irq) = "slave" /\ Signalled(irq) /\ open
  /\ request' = request \ {irq}
  /\ frames' = Append(frames, Frame(irq))
  /\ UNCHANGED <<asked, task, open, mask, agreed>>

\* hwint_slave up to its sti: the handler runs with interrupts open again.
EnterSlave(irq) ==
  /\ Chip(irq) = "slave" /\ Signalled(irq) /\ open
  /\ request' = request \ {irq}
  /\ frames' = Append(frames, Frame(irq))
  /\ mask' = [mask EXCEPT !["slave"] = @ \cup {Bit(irq)}]
  /\ agreed' = [agreed EXCEPT !["slave"] = @ \cup {Bit(irq)}]
  /\ UNCHANGED <<asked, task, open>>

Running == frames[Len(frames)]

\* After intr_handle, which does nothing: interrupts are closed (already, or by cli),
\* both stubs clear a bit of the master's mask, and the return from the interrupt
\* gives back the flags.  hwint_slave clears irq - 8 there and leaves the slave's mask.
Leave ==
  /\ frames # <<>>
  /\ mask' = [mask EXCEPT !["master"] = @ \ {Bit(Running.irq)}]
  /\ agreed' = [agreed EXCEPT !["master"] = @ \ {Bit(Running.irq)}]
  /\ frames' = SubSeq(frames, 1, Len(frames) - 1)
  /\ open' = Running.eflags
  /\ UNCHANGED <<request, asked, task>>

TaskStep == ReadMask \/ WriteMask \/ KernelUnlock

MaskNext ==
  \/ \E irq \in Lines :
       \/ Request(irq)
       \/ \E enable \in BOOLEAN : KernelLock(irq, enable)
       \/ EnterMaster(irq)
       \/ EnterSlave(irq)
  \/ OpenInt \/ TaskStep \/ Leave

\* The processor runs on.  It looks for a request before each instruction it runs with
\* interrupts open, so a request that is signalled at such a moment, again and again,
\* is not passed over for ever: strong fairness.
MaskFairness ==
  /\ WF_maskVars(TaskStep)
  /\ WF_maskVars(Leave)
  /\ SF_maskVars(\E irq \in Lines : EnterMaster(irq) \/ EnterSlave(irq))

MaskSpec == MaskInit /\ [][MaskNext]_maskVars /\ MaskFairness

-----------------------------------------------------------------------------

Masks == [{"master", "slave"} -> SUBSET (0..7)]

Tasks ==
  {Idle} \cup
  [pc : {"locked"}, irq : Lines, enable : BOOLEAN, eflags : BOOLEAN] \cup
  [pc : {"read"}, irq : Lines, enable : BOOLEAN, eflags : BOOLEAN, al : SUBSET (0..7)] \cup
  [pc : {"written"}, eflags : BOOLEAN]

MaskTypeOK ==
  /\ mask \in Masks /\ agreed \in Masks
  /\ request \subseteq Lines
  /\ open \in BOOLEAN /\ task \in Tasks
  /\ frames \in Seq([irq : Lines, eflags : BOOLEAN])

InService == {frames[i].irq : i \in DOMAIN frames}

\* Although hwint_slave lets other interrupts in while it runs, no line's handler is
\* ever entered a second time before the first has returned: a slave's line is masked
\* as long as its handler runs, and a master's handler runs with interrupts closed.
NoReentry ==
  /\ MaskTypeOK
  /\ \A i, j \in DOMAIN frames : frames[i].irq = frames[j].irq => i = j
  /\ \A irq \in InService : Chip(irq) = "slave" => Bit(irq) \in mask["slave"]
  /\ \A i \in DOMAIN frames : Chip(frames[i].irq) = "master" => i = Len(frames) /\ ~open

\* The task's change of a mask and those of the handlers are never lost in one another:
\* no handler comes between the inb and the outb of enable_irq and disable_irq, so what
\* the task has read is still right when it writes.  agreed takes each change as the code
\* makes it, hwint_slave's of the wrong chip included: LineRestored is about that one.
NoLostMask ==
  /\ mask = agreed
  /\ task # Idle => TaskRuns /\ ~open
  /\ task.pc = "read" => task.al = mask[Chip(task.irq)]

\* A stub that returns has put back the mask bit it set for its line: "restore the
\* corresponding current interrupt" (irq.inc:154 and :192).
LineRestored ==
  [][Len(frames') < Len(frames) => Bit(Running.irq) \notin mask'[Chip(Running.irq)]]_maskVars

\* Interrupts are open for the task, even if closed by a lock or a handler just now.
OpenForTask ==
  IF task # Idle THEN task.eflags ELSE IF TaskRuns THEN open ELSE frames[1].eflags

\* A device whose line is unmasked and stays so gets its handler called, however many
\* handlers and locks of the task come first: all of them open interrupts again.
Served ==
  \A irq \in Lines : (Signalled(irq) /\ OpenForTask) ~> ~Signalled(irq)
=============================================================================
