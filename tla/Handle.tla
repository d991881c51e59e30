-------------------------------- MODULE Handle --------------------------------
(***************************************************************************)
(* Object handles, kernel/handle/handle.c, over the bitmaps of             *)
(* lib/include/setbit.h.                                                   *)
(*                                                                         *)
(* A handle is the number of a bit.  new takes the first clear bit of the  *)
(* first table whose free_item is not 0; a table gets its bitmap, a block  *)
(* of page frames nobody clears, when new first comes to it.  delete       *)
(* clears the bit and leaves free_item alone, so free_item counts the      *)
(* calls of new a table is still good for, not its clear bits.             *)
(***************************************************************************)
EXTENDS Integers, FiniteSets

CONSTANTS Tables,    \* HANDLE_TABLE_BLCOK_MAX
          Items,     \* HANDLE_TABLE_BLOCK_ITEMS
          Junk       \* the bits that may be set in the page frames alloc returns

Bits == 0..(Items - 1)
TableIds == 0..(Tables - 1)

ASSUME HandleAssumption ==
  Tables \in Nat \ {0} /\ Items \in Nat \ {0} /\ Junk \subseteq SUBSET Bits

VARIABLES bmp,        \* the bits set in each table's bitmap
          bmp_size,   \* 0 until the table has a bitmap
          free_item,
          live        \* ghost: how often each handle has been given out and not deleted

handleVars == <<bmp, bmp_size, free_item, live>>

HandleInit ==
  /\ bmp = [i \in TableIds |-> {}]
  /\ bmp_size = [i \in TableIds |-> 0]
  /\ free_item = [i \in TableIds |-> 0]
  /\ live = [h \in Bits |-> 0]

-----------------------------------------------------------------------------

\* The table new stops at, the first one whose free_item is not 0.  (Were there none,
\* new would return 0 and change nothing.)
Candidate ==
  {i \in TableIds :
     /\ bmp_size[i] = 0 \/ free_item[i] # 0
     /\ \A j \in 0..(i - 1) : bmp_size[j] # 0 /\ free_item[j] = 0}

\* A faulty Opened that does not reserve handle 0.
OpenedAll(i, junk) == IF bmp_size[i] = 0 THEN junk ELSE bmp[i]

\* The bitmap new searches in table i; bit 0 is reserved in a fresh one.
Opened(i, junk) == IF bmp_size[i] = 0 THEN junk \cup {0} ELSE bmp[i]

\* A faulty Search that does not look at the bits.
SearchIgnoresBits(bits) == {1}

\* bmp_search: the lowest clear bit, if there is one.
Search(bits) == {id \in Bits \ bits : \A other \in Bits \ bits : id <= other}

\* new, when it finds a clear bit.
New ==
  \E i \in Candidate, junk \in Junk : \E id \in Search(Opened(i, junk)) :
    /\ bmp' = [bmp EXCEPT ![i] = Opened(i, junk) \cup {id}]
    /\ bmp_size' = [bmp_size EXCEPT ![i] = Items]
    /\ free_item' = [free_item EXCEPT ![i] = (IF bmp_size[i] = 0 THEN Items ELSE @) - 1]
    /\ live' = [live EXCEPT ![id] = @ + 1]

\* new, when the table it stops at has no clear bit: it returns 0 and leaves free_item
\* as it was, so that it stops there ever after.
NewFails ==
  \E i \in Candidate, junk \in Junk :
    /\ Opened(i, junk) = Bits
    /\ bmp' = [bmp EXCEPT ![i] = Opened(i, junk)]
    /\ bmp_size' = [bmp_size EXCEPT ![i] = Items]
    /\ free_item' = [free_item EXCEPT ![i] = IF bmp_size[i] = 0 THEN Items ELSE @]
    /\ UNCHANGED live

\* A faulty Delete that clears the next bit.
DeleteNext(handle) ==
  /\ bmp' = [bmp EXCEPT ![handle \div Items] = @ \ {(handle + 1) % Items}]
  /\ live' = [live EXCEPT ![handle] = @ - 1]
  /\ UNCHANGED <<bmp_size, free_item>>

\* delete, of a handle the caller has got from new.
Delete(handle) ==
  /\ bmp' = [bmp EXCEPT ![handle \div Items] = @ \ {handle % Items}]
  /\ live' = [live EXCEPT ![handle] = @ - 1]
  /\ UNCHANGED <<bmp_size, free_item>>

HandleNext ==
  \/ New
  \/ NewFails
  \/ \E h \in Bits : live[h] > 0 /\ Delete(h)

HandleSpec == HandleInit /\ [][HandleNext]_handleVars

-----------------------------------------------------------------------------

Live == {h \in Bits : live[h] > 0}

\* new has not come to the second table yet.
FirstTableOnly == \A i \in TableIds \ {0} : bmp_size[i] = 0

\* Two objects never have the same handle (new gives out "an object's handle",
\* handle.c:20).
HandlesUnique == \A h \in Bits : live[h] <= 1

\* It holds as long as the handles come from the first table, through every order of
\* new and delete and whatever the bitmap's page frames held.
FirstTableUnique == FirstTableOnly => HandlesUnique

\* 0 means that new failed; it is never the handle of an object, in no table and after
\* no sequence of deletions.
ZeroIsNoHandle == live[0] = 0

\* While handles come from the first table, its bitmap knows every live handle, and the
\* bits that are set without belonging to one stay the same: new and delete lose no
\* handle and make none up.
BitmapIsExact ==
  [][(bmp_size[0] # 0 /\ FirstTableOnly') =>
       Live' \subseteq bmp'[0] /\ bmp'[0] \ Live' = bmp[0] \ Live]_handleVars

\* new never comes to the third table: delete clears bits of the first one only, so the
\* second one is full while its free_item still stands at 1 or more, since bit 0 was
\* counted but is not given out.
OnlyTwoTables == \A i \in TableIds : i > 1 => bmp_size[i] = 0

-----------------------------------------------------------------------------
(***************************************************************************)
(* The inductive invariant behind FirstTableUnique, ZeroIsNoHandle and     *)
(* OnlyTwoTables (proved in HandleProof).                                  *)
(***************************************************************************)

FieldsInv ==
  /\ bmp \in [TableIds -> SUBSET Bits]
  /\ bmp_size \in [TableIds -> {0, Items}]
  /\ free_item \in [TableIds -> 0..Items]
  /\ live \in [Bits -> Nat]

\* Bit 0 is set in every bitmap, and stays so: its handle is nobody's to delete.
ZeroInv == ZeroIsNoHandle /\ \A i \in TableIds : bmp_size[i] # 0 => 0 \in bmp[i]

\* Each live handle has one owner and its bit in the first table's bitmap.
UniqueInv ==
  FirstTableOnly => \A h \in Bits : live[h] > 0 => live[h] = 1 /\ bmp_size[0] # 0 /\ h \in bmp[0]

\* The second table has more bits set than new was called for, so that it is full
\* before free_item gets to 0.
SecondInv ==
  /\ OnlyTwoTables
  /\ (1 \in TableIds /\ bmp_size[1] # 0) => free_item[1] + Cardinality(bmp[1]) > Items

\* What new and delete keep of the bitmaps, the counters and the owners of handles.
HandleInv == FieldsInv /\ ZeroInv /\ UniqueInv /\ SecondInv
=============================================================================
