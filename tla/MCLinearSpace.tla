---------------------------- MODULE MCLinearSpace ----------------------------
(***************************************************************************)
(* Two rooms and three blocks of one or two pages for TLC, in a page table *)
(* of four entries: blocks overlap, lie apart, or lie beyond the table and *)
(* come with LB_USED set.                                                  *)
(***************************************************************************)
EXTENDS LinearSpace, TLC

CONSTANTS room1, room2, b1, b2, b3, kernel

TwoRooms == {room1, room2}
ThreeBlocks == {b1, b2, b3, kernel}
SomeTemplates ==
  {[start |-> 1, order |-> 1, used |-> FALSE], [start |-> 2, order |-> 0, used |-> FALSE],
   [start |-> 5, order |-> 0, used |-> TRUE]}
BlockSymmetry == Permutations({b1, b2, b3})
=============================================================================
