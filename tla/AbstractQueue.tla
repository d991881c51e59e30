----------------------------- MODULE AbstractQueue -----------------------------
(***************************************************************************)
(* What a bounded queue promises to those who add and those who take:      *)
(* items come out in the order they went in, each once, none is refused    *)
(* unless Capacity items wait, and the item taken last stays as it was     *)
(* until the next one is taken.                                            *)
(***************************************************************************)
EXTENDS Integers, Sequences

CONSTANTS Items, Capacity, NoItem

VARIABLES waiting,   \* the items in the queue, the oldest first
          taken,     \* the item taken last, NoItem before the first
          refused    \* whether the last item to be added found the queue full

queueVars == <<waiting, taken, refused>>

Init == waiting = <<>> /\ taken = NoItem /\ refused = FALSE

Add(x) ==
  /\ Len(waiting) < Capacity
  /\ waiting' = Append(waiting, x) /\ refused' = FALSE
  /\ UNCHANGED taken

Refuse ==
  /\ Len(waiting) = Capacity
  /\ refused' = TRUE
  /\ UNCHANGED <<waiting, taken>>

Take ==
  /\ waiting # <<>>
  /\ taken' = Head(waiting) /\ waiting' = Tail(waiting)
  /\ UNCHANGED refused

Next == (\E x \in Items : Add(x)) \/ Refuse \/ Take

Spec == Init /\ [][Next]_queueVars
=============================================================================
