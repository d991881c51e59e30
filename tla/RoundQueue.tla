------------------------------ MODULE RoundQueue ------------------------------
(***************************************************************************)
(* The ring queue of lib/include/round_queue.h.  Interrupt handlers add    *)
(* items (kernel/arch/irq.c has them post messages, commented out); the    *)
(* task they preempt deletes them.  round_queue_delete does not copy the   *)
(* item: it returns a pointer into the array, which the task reads later, *)
(* while handlers go on adding.                                            *)
(*                                                                         *)
(* The handlers of the slave's lines run with interrupts open (Interrupts),*)
(* so a call of round_queue_add may preempt another one between any two of *)
(* its accesses to tail: the test, the load and the store of the new tail, *)
(* and the load for the copy.  The copy itself is one action with the load *)
(* before it, because until it is done only other calls run, which write   *)
(* other slots.  Where the preempted one is a call of the task itself, the *)
(* same holds; the task deletes while no call is under way.                *)
(***************************************************************************)
EXTENDS Integers, Sequences

CONSTANTS QueueItems,   \* what may be added
          QueueMax,     \* the number of slots
          MaxNesting,   \* bound: how many calls of round_queue_add may preempt one another
          NoItem   \* the content of a slot of the zeroed array

ASSUME QueueAssumption ==
  QueueMax \in Nat \ {0} /\ MaxNesting \in Nat \ {0} /\ NoItem \notin QueueItems

VARIABLES ring,      \* the array
          head, tail,
          adding,    \* the calls of round_queue_add past their test, the running one last
          eMax,      \* whether the last round_queue_add returned E_MAX
          deleting,  \* the task is in round_queue_delete, past the test for NULL
          lent,      \* whether the task has a pointer from round_queue_delete
          item,      \* ghost: the item it was given a pointer to
          crowded,   \* ghost: a call was not refused although others had claimed all free slots
          nested     \* ghost: a call has preempted another one

queueVars == <<ring, head, tail, adding, eMax, deleting, lent, item, crowded, nested>>

Slots == 0..(QueueMax - 1)

\* A call of round_queue_add: its next access to tail, its item, the new tail it has
\* computed, and (ghost) how many calls it has preempted between their test and their load
Adds == [pc : {"load", "store", "copy"}, x : QueueItems, next : Slots, claims : Nat]

\* RoundQueueStruct, round_queue_init
QueueInit ==
  /\ ring = [s \in Slots |-> NoItem]
  /\ head = 0 /\ tail = 0 /\ adding = <<>> /\ eMax = FALSE
  /\ deleting = FALSE /\ lent = FALSE /\ item = NoItem
  /\ crowded = FALSE /\ nested = FALSE

After(slot) == (slot + 1) % QueueMax

Count == (tail - head) % QueueMax

-----------------------------------------------------------------------------

LastAdd == adding[Len(adding)]
Claims ==
  IF adding = <<>> THEN 0 ELSE LastAdd.claims + (IF LastAdd.pc = "load" THEN 1 ELSE 0)

\* A faulty QueueIsFull that leaves no slot unused.
QueueNeverFull == FALSE

QueueIsFull == After(tail) = head

\* round_queue_add is called and refuses the item
AddRefuse ==
  /\ Len(adding) < MaxNesting /\ QueueIsFull
  /\ eMax' = TRUE
  /\ nested' = (nested \/ adding # <<>>)
  /\ UNCHANGED <<ring, head, tail, adding, deleting, lent, item, crowded>>

\* round_queue_add is called and finds room
AddTest(x) ==
  /\ Len(adding) < MaxNesting /\ ~QueueIsFull
  /\ adding' = Append(adding, [pc |-> "load", x |-> x, next |-> 0, claims |-> Claims])
  /\ crowded' = (crowded \/ Count + Claims >= QueueMax - 1)
  /\ nested' = (nested \/ adding # <<>>)
  /\ UNCHANGED <<ring, head, tail, eMax, deleting, lent, item>>

\* The new tail is computed from the present one
AddLoad ==
  /\ adding # <<>> /\ LastAdd.pc = "load"
  /\ adding' = [adding EXCEPT ![Len(adding)] =
                  [LastAdd EXCEPT !.pc = "store", !.next = After(tail)]]
  /\ UNCHANGED <<ring, head, tail, eMax, deleting, lent, item, crowded, nested>>

\* and stored, over what other calls have stored meanwhile
AddStore ==
  /\ adding # <<>> /\ LastAdd.pc = "store"
  /\ tail' = LastAdd.next
  /\ adding' = [adding EXCEPT ![Len(adding)] = [LastAdd EXCEPT !.pc = "copy"]]
  /\ UNCHANGED <<ring, head, eMax, deleting, lent, item, crowded, nested>>

\* memcpy to the slot that tail then names; the call returns
AddCopy ==
  /\ adding # <<>> /\ LastAdd.pc = "copy"
  /\ ring' = [ring EXCEPT ![tail] = LastAdd.x]
  /\ adding' = SubSeq(adding, 1, Len(adding) - 1)
  /\ eMax' = FALSE
  /\ UNCHANGED <<head, tail, deleting, lent, item, crowded, nested>>

-----------------------------------------------------------------------------

\* round_queue_delete up to its test; a new call ends the use of the last pointer.
DeleteTest ==
  /\ adding = <<>> /\ ~deleting /\ head # tail
  /\ deleting' = TRUE /\ lent' = FALSE
  /\ UNCHANGED <<ring, head, tail, adding, eMax, item, crowded, nested>>

\* A faulty DeleteAdvance that lends the slot before it moves head.
DeleteAdvanceAfter ==
  /\ adding = <<>> /\ deleting
  /\ item' = ring[head] /\ head' = After(head)
  /\ deleting' = FALSE /\ lent' = TRUE
  /\ UNCHANGED <<ring, tail, adding, eMax, crowded, nested>>

\* The rest of it: the pointer leads to the new head's slot.
DeleteAdvance ==
  /\ adding = <<>> /\ deleting
  /\ head' = After(head) /\ item' = ring[After(head)]
  /\ deleting' = FALSE /\ lent' = TRUE
  /\ UNCHANGED <<ring, tail, adding, eMax, crowded, nested>>

QueueNext ==
  \/ AddRefuse \/ (\E x \in QueueItems : AddTest(x)) \/ AddLoad \/ AddStore \/ AddCopy
  \/ DeleteTest \/ DeleteAdvance

QueueSpec == QueueInit /\ [][QueueNext]_queueVars

-----------------------------------------------------------------------------

QueueTypeOK ==
  /\ ring \in [Slots -> QueueItems \cup {NoItem}]
  /\ head \in Slots /\ tail \in Slots
  /\ adding \in Seq(Adds) /\ Len(adding) <= MaxNesting
  /\ eMax \in BOOLEAN /\ deleting \in BOOLEAN /\ lent \in BOOLEAN /\ crowded \in BOOLEAN
  /\ nested \in BOOLEAN
  /\ item \in QueueItems \cup {NoItem}

\* What the pointer of round_queue_delete leads to stays the item that was deleted for
\* as long as the task may use it, and the item whose deletion has begun is still there
\* when head moves - however many items handlers add meanwhile and wherever they preempt
\* one another, as long as the ring is not crowded: the test of round_queue_add sees only
\* the slots that are taken, not those that calls it has preempted are about to take.
\* It is not before a call has preempted another one.
LentIntact ==
  /\ QueueTypeOK
  /\ ~crowded => /\ lent => ring[head] = item
                 /\ deleting => head # tail /\ ~lent
  /\ ~nested => ~crowded /\ Len(adding) <= 1

\* The items in the ring; the slot at tail is not yet one of them while its item is copied.
Filled == IF adding # <<>> /\ LastAdd.pc = "copy" THEN Count - 1 ELSE Count
Waiting == [i \in 1..Filled |-> ring[(head + i) % QueueMax]]

Queue == INSTANCE AbstractQueue
           WITH Items <- QueueItems, Capacity <- QueueMax - 1, waiting <- Waiting,
                taken <- ring[head], refused <- eMax

\* Until a call of round_queue_add preempts another one, the slots are a queue of
\* QueueMax - 1 items, also across the end of the array: first in, first out, nothing lost
\* or taken twice, E_MAX only if it is full.  (The one that preempts, and what the two
\* of them leave, may lose items.)
RefinesQueue == Queue!Init /\ [][~nested' => Queue!Next]_(Queue!queueVars)
=============================================================================
