------------------------------ MODULE StackArray ------------------------------
(***************************************************************************)
(* The stack in an array of lib/include/stack_array.h.  stack_array_add    *)
(* counts its item before it looks for room and does not take the count    *)
(* back: after a failed call the next deletion returns a pointer to an     *)
(* item that was never added, possibly behind the array.                   *)
(***************************************************************************)
EXTENDS Integers, Sequences

CONSTANTS StackItems,   \* what may be added
          StackMax,     \* the number of places
          NoEntry,      \* what a place holds before anything is added
          MaxCount      \* bound: below 2^16, so that the u16 count does not wrap

ASSUME StackAssumption ==
  /\ StackMax \in Nat \ {0} /\ NoEntry \notin StackItems
  /\ MaxCount \in Nat /\ MaxCount < 2^16

VARIABLES places,    \* the array
          counted,   \* how many items the stack believes it has
          kept       \* ghost: the items that were added with success and not deleted

stackVars == <<places, counted, kept>>

\* StackArrayStruct, stack_array_init
StackInit ==
  /\ places = [i \in 0..(StackMax - 1) |-> NoEntry]
  /\ counted = 0 /\ kept = <<>>

\* A faulty StackRoom that never refuses an item.
StackRoomAlways == TRUE

\* The test of stack_array_add, after the count went up; it leaves one place unused.
StackRoom == counted + 1 < StackMax

\* stack_array_add
StackArrayAdd(x) ==
  /\ counted < MaxCount
  /\ counted' = counted + 1
  /\ IF StackRoom
     THEN /\ places' = [places EXCEPT ![counted] = x]
          /\ kept' = Append(kept, x)
     ELSE UNCHANGED <<places, kept>>

\* stack_array_delete: the item it returns is the last one kept, unless failed calls
\* of stack_array_add are counted on top of it.
StackArrayDelete ==
  /\ counted > 0
  /\ counted' = counted - 1
  /\ kept' = IF counted > Len(kept) THEN kept ELSE SubSeq(kept, 1, Len(kept) - 1)
  /\ UNCHANGED places

StackNext == (\E x \in StackItems : StackArrayAdd(x)) \/ StackArrayDelete

StackSpec == StackInit /\ [][StackNext]_stackVars

-----------------------------------------------------------------------------

StackTypeOK ==
  /\ places \in [0..(StackMax - 1) -> StackItems \cup {NoEntry}]
  /\ counted \in 0..MaxCount
  /\ kept \in Seq(StackItems)

\* Calls that fail do no harm to what is kept: the items lie in their places in the
\* order they were added, and what is counted beyond them lies on top of a full stack,
\* to be deleted before any of them.
ItemsKept ==
  /\ StackTypeOK
  /\ Len(kept) <= counted /\ Len(kept) < StackMax
  /\ \A i \in 1..Len(kept) : places[i - 1] = kept[i]
  /\ counted > Len(kept) => Len(kept) = StackMax - 1
=============================================================================
