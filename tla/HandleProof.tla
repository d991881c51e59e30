----------------------------- MODULE HandleProof -----------------------------
(***************************************************************************)
(* Proofs about kernel/handle/handle.c, for any number of tables of any    *)
(* size and whatever the page frames of the bitmaps hold: handles are      *)
(* unique while they come from the first table, whose bitmap knows them, 0 *)
(* is never one, and new never gets past the second table.                 *)
(*                                                                         *)
(* The invariant relates three things the code keeps apart: the bitmap,    *)
(* free_item, and the callers' handles.  ZeroInv and UniqueInv say that    *)
(* delete, which clears whatever bit it is told, clears only bits that     *)
(* belong to its caller; SecondInv says by how much free_item is wrong.    *)
(***************************************************************************)
EXTENDS Handle, FiniteSetTheorems, TLAPS

\* A handle is the bit number in the first table: the division in delete gives 0.
LEMMA HandleIsBit ==
  ASSUME NEW h \in Bits
  PROVE  h \div Items = 0 /\ h % Items = h
  BY HandleAssumption DEF Bits

\* The sets of bits are finite and have at most as many elements as there are bits.
LEMMA BitsFinite ==
  /\ \A S \in SUBSET Bits :
       IsFiniteSet(S) /\ Cardinality(S) \in Nat /\ Cardinality(S) <= Items
  /\ Cardinality(Bits) = Items
<1>1. IsFiniteSet(Bits) /\ Cardinality(Bits) = Items
  BY FS_Interval, HandleAssumption DEF Bits
<1>2. ASSUME NEW S \in SUBSET Bits
      PROVE  IsFiniteSet(S) /\ Cardinality(S) \in Nat /\ Cardinality(S) <= Items
  BY <1>1, <1>2, FS_Subset, FS_CardinalityType
<1> QED BY <1>1, <1>2

\* No table has a bitmap before the first call of new.
LEMMA InitInv == HandleInit => HandleInv
<1> SUFFICES ASSUME HandleInit PROVE HandleInv
  OBVIOUS
<1> USE HandleAssumption
<1>1. 0 \in Bits
  BY DEF Bits
<1>2. FieldsInv
  BY DEF HandleInit, FieldsInv
<1> QED BY <1>1, <1>2 DEF HandleInit, HandleInv, ZeroInv, ZeroIsNoHandle, UniqueInv, SecondInv,
                         OnlyTwoTables

\* new stops at the first or at the second table.
LEMMA CandidateIsEarly ==
  ASSUME HandleInv, NEW i \in Candidate
  PROVE  i \in TableIds /\ i \in {0, 1} /\ (bmp_size[i] # 0 => free_item[i] > 0)
<1> USE HandleAssumption
<1>1. i \in TableIds /\ (bmp_size[i] # 0 => free_item[i] > 0)
  BY DEF Candidate, HandleInv, FieldsInv
<1>2. ASSUME i > 1 PROVE FALSE
  <2>1. 1 \in TableIds /\ 1 \in 0..(i - 1)
    BY <1>1, <1>2 DEF TableIds
  <2>2. bmp_size[1] # 0 /\ free_item[1] = 0
    BY <2>1 DEF Candidate
  <2>3. 0 + Cardinality(bmp[1]) > Items
    BY <2>1, <2>2 DEF HandleInv, SecondInv
  <2>4. bmp[1] \in SUBSET Bits
    BY <2>1 DEF HandleInv, FieldsInv
  <2> QED BY <2>3, <2>4, BitsFinite
<1> QED BY <1>1, <1>2 DEF TableIds

\* The bitmap new searches has bit 0 set, and more bits set than free_item counts as
\* used up.
LEMMA OpenedProps ==
  ASSUME HandleInv, NEW i \in Candidate, NEW junk \in Junk
  PROVE  /\ Opened(i, junk) \in SUBSET Bits
         /\ 0 \in Opened(i, junk)
         /\ LET left == IF bmp_size[i] = 0 THEN Items ELSE free_item[i]
            IN  /\ left \in 1..Items
                /\ (i = 1 \/ bmp_size[i] = 0)
                     => left + Cardinality(Opened(i, junk)) > Items
<1> USE HandleAssumption
<1>1. i \in TableIds /\ (bmp_size[i] # 0 => free_item[i] > 0)
  BY CandidateIsEarly
<1>2. CASE bmp_size[i] = 0
  <2>1. Opened(i, junk) = junk \cup {0} /\ junk \in SUBSET Bits /\ 0 \in Bits
    BY <1>2 DEF Opened, Bits
  <2>2. Cardinality(junk \cup {0}) # 0 /\ Cardinality(junk \cup {0}) \in Nat
    BY <2>1, BitsFinite, FS_EmptySet
  <2> QED BY <1>2, <2>1, <2>2
<1>3. CASE bmp_size[i] # 0
  <2>1. Opened(i, junk) = bmp[i] /\ bmp[i] \in SUBSET Bits /\ 0 \in bmp[i]
    BY <1>1, <1>3 DEF Opened, HandleInv, FieldsInv, ZeroInv
  <2>2. free_item[i] \in 1..Items
    BY <1>1, <1>3 DEF HandleInv, FieldsInv
  <2>3. i = 1 => free_item[i] + Cardinality(bmp[i]) > Items
    BY <1>1, <1>3 DEF HandleInv, SecondInv
  <2> QED BY <1>3, <2>1, <2>2, <2>3
<1> QED BY <1>2, <1>3

\* new keeps the invariant when it finds a clear bit.
LEMMA NewInv == HandleInv /\ New => HandleInv'
<1> SUFFICES ASSUME HandleInv, New PROVE HandleInv'
  OBVIOUS
<1> USE HandleAssumption
<1>1. PICK i \in Candidate, junk \in Junk : \E id \in Search(Opened(i, junk)) :
        /\ bmp' = [bmp EXCEPT ![i] = Opened(i, junk) \cup {id}]
        /\ bmp_size' = [bmp_size EXCEPT ![i] = Items]
        /\ free_item' = [free_item EXCEPT ![i] = (IF bmp_size[i] = 0 THEN Items ELSE @) - 1]
        /\ live' = [live EXCEPT ![id] = @ + 1]
  BY DEF New
<1>2. PICK id \in Search(Opened(i, junk)) :
        /\ bmp' = [bmp EXCEPT ![i] = Opened(i, junk) \cup {id}]
        /\ bmp_size' = [bmp_size EXCEPT ![i] = Items]
        /\ free_item' = [free_item EXCEPT ![i] = (IF bmp_size[i] = 0 THEN Items ELSE @) - 1]
        /\ live' = [live EXCEPT ![id] = @ + 1]
  BY <1>1
<1> DEFINE bits == Opened(i, junk)
           left == IF bmp_size[i] = 0 THEN Items ELSE free_item[i]
<1>3. i \in TableIds /\ i \in {0, 1}
  BY CandidateIsEarly
<1>4. /\ bits \in SUBSET Bits /\ 0 \in bits
      /\ left \in 1..Items
      /\ (i = 1 \/ bmp_size[i] = 0) => left + Cardinality(bits) > Items
  BY OpenedProps
<1>5. id \in Bits /\ id \notin bits /\ id # 0
  BY <1>4 DEF Search
<1>6. FieldsInv
  BY DEF HandleInv
<1>7. /\ bmp'[i] = bits \cup {id} /\ bmp_size'[i] = Items /\ free_item'[i] = left - 1
      /\ \A j \in TableIds : j # i => /\ bmp'[j] = bmp[j]
                                      /\ bmp_size'[j] = bmp_size[j]
                                      /\ free_item'[j] = free_item[j]
      /\ live'[id] = live[id] + 1
      /\ \A h \in Bits : h # id => live'[h] = live[h]
  BY <1>2, <1>3, <1>5, <1>6 DEF FieldsInv
<1>8. FieldsInv'
  <2>1. bmp' \in [TableIds -> SUBSET Bits]
    BY <1>2, <1>3, <1>4, <1>5, <1>6 DEF FieldsInv
  <2>2. bmp_size' \in [TableIds -> {0, Items}]
    BY <1>2, <1>3, <1>6 DEF FieldsInv
  <2>3. free_item' \in [TableIds -> 0..Items]
    BY <1>2, <1>3, <1>4, <1>6 DEF FieldsInv
  <2>4. live' \in [Bits -> Nat]
    BY <1>2, <1>5, <1>6 DEF FieldsInv
  <2> QED BY <2>1, <2>2, <2>3, <2>4 DEF FieldsInv
<1>9. ZeroInv'
  BY <1>3, <1>4, <1>5, <1>7 DEF HandleInv, ZeroInv, ZeroIsNoHandle, Bits
<1>10. UniqueInv'
  <2> SUFFICES ASSUME FirstTableOnly', NEW h \in Bits, live'[h] > 0
               PROVE  live'[h] = 1 /\ bmp_size'[0] # 0 /\ h \in bmp'[0]
    BY DEF UniqueInv
  <2>1. i = 0
    BY <1>3, <1>7 DEF FirstTableOnly
  <2>2. FirstTableOnly
    BY <1>7, <2>1 DEF FirstTableOnly
  <2>3. \A g \in Bits : live[g] > 0 => live[g] = 1 /\ bmp_size[0] # 0 /\ g \in bmp[0]
    BY <2>2 DEF HandleInv, UniqueInv
  <2>4. \A g \in Bits : live[g] > 0 => g \in bits
    BY <2>1, <2>3 DEF Opened
  <2>5. live[id] = 0
    BY <1>5, <1>6, <2>4 DEF FieldsInv
  <2> QED BY <1>7, <2>1, <2>3, <2>4, <2>5
<1>11. SecondInv'
  <2>1. OnlyTwoTables'
    BY <1>3, <1>7 DEF HandleInv, SecondInv, OnlyTwoTables
  <2>2. ASSUME 1 \in TableIds, bmp_size'[1] # 0
        PROVE  free_item'[1] + Cardinality(bmp'[1]) > Items
    <3>1. CASE i = 1
      <4>1. Cardinality(bits \cup {id}) = Cardinality(bits) + 1 /\ Cardinality(bits) \in Nat
        BY <1>4, <1>5, BitsFinite, FS_AddElement
      <4>2. free_item'[1] = left - 1 /\ bmp'[1] = bits \cup {id}
        BY <1>7, <3>1
      <4>3. left \in Int /\ left + Cardinality(bits) > Items
        BY <1>4, <3>1
      <4> HIDE DEF left
      <4> QED BY <4>1, <4>2, <4>3
    <3>2. CASE i # 1
      BY <1>7, <2>2, <3>2 DEF HandleInv, SecondInv
    <3> QED BY <3>1, <3>2
  <2> QED BY <2>1, <2>2 DEF SecondInv
<1> QED BY <1>8, <1>9, <1>10, <1>11 DEF HandleInv

\* new keeps the invariant when the table it stops at is full.
LEMMA NewFailsInv == HandleInv /\ NewFails => HandleInv'
<1> SUFFICES ASSUME HandleInv, NewFails PROVE HandleInv'
  OBVIOUS
<1> USE HandleAssumption
<1>1. PICK i \in Candidate, junk \in Junk :
        /\ bmp' = [bmp EXCEPT ![i] = Opened(i, junk)]
        /\ bmp_size' = [bmp_size EXCEPT ![i] = Items]
        /\ free_item' = [free_item EXCEPT ![i] = IF bmp_size[i] = 0 THEN Items ELSE @]
        /\ live' = live
  BY DEF NewFails
<1> DEFINE bits == Opened(i, junk)
           left == IF bmp_size[i] = 0 THEN Items ELSE free_item[i]
<1>2. i \in TableIds /\ i \in {0, 1}
  BY CandidateIsEarly
<1>3. /\ bits \in SUBSET Bits /\ 0 \in bits
      /\ left \in 1..Items
      /\ (i = 1 \/ bmp_size[i] = 0) => left + Cardinality(bits) > Items
  BY OpenedProps
<1>4. FieldsInv
  BY DEF HandleInv
<1>5. /\ bmp'[i] = bits /\ bmp_size'[i] = Items /\ free_item'[i] = left
      /\ \A j \in TableIds : j # i => /\ bmp'[j] = bmp[j]
                                      /\ bmp_size'[j] = bmp_size[j]
                                      /\ free_item'[j] = free_item[j]
  BY <1>1, <1>2, <1>4 DEF FieldsInv
<1>6. FieldsInv'
  <2>1. bmp' \in [TableIds -> SUBSET Bits]
    BY <1>1, <1>2, <1>3, <1>4 DEF FieldsInv
  <2>2. bmp_size' \in [TableIds -> {0, Items}]
    BY <1>1, <1>2, <1>4 DEF FieldsInv
  <2>3. free_item' \in [TableIds -> 0..Items]
    BY <1>1, <1>2, <1>3, <1>4 DEF FieldsInv
  <2> QED BY <1>1, <1>4, <2>1, <2>2, <2>3 DEF FieldsInv
<1>7. ZeroInv'
  BY <1>1, <1>2, <1>3, <1>5 DEF HandleInv, ZeroInv, ZeroIsNoHandle
<1>8. UniqueInv'
  <2> SUFFICES ASSUME FirstTableOnly', NEW h \in Bits, live'[h] > 0
               PROVE  live'[h] = 1 /\ bmp_size'[0] # 0 /\ h \in bmp'[0]
    BY DEF UniqueInv
  <2>1. i = 0
    BY <1>2, <1>5 DEF FirstTableOnly
  <2>2. FirstTableOnly
    BY <1>5, <2>1 DEF FirstTableOnly
  <2>3. live[h] = 1 /\ bmp_size[0] # 0 /\ h \in bmp[0]
    BY <1>1, <2>2 DEF HandleInv, UniqueInv
  <2> QED BY <1>1, <1>5, <2>1, <2>3 DEF Opened
<1>9. SecondInv'
  <2>1. OnlyTwoTables'
    BY <1>2, <1>5 DEF HandleInv, SecondInv, OnlyTwoTables
  <2>2. (1 \in TableIds /\ bmp_size'[1] # 0) => free_item'[1] + Cardinality(bmp'[1]) > Items
    BY <1>2, <1>3, <1>5 DEF HandleInv, SecondInv
  <2> QED BY <2>1, <2>2 DEF SecondInv
<1> QED BY <1>6, <1>7, <1>8, <1>9 DEF HandleInv

\* delete of a live handle keeps the invariant: it clears a bit of the first table, not
\* bit 0, and no other live handle's.
LEMMA DeleteInv ==
  ASSUME HandleInv, NEW h \in Bits, live[h] > 0, Delete(h)
  PROVE  HandleInv'
<1> USE HandleAssumption
<1>1. h \div Items = 0 /\ h % Items = h /\ h # 0 /\ 0 \in TableIds /\ 0 \in Bits
  BY HandleIsBit DEF HandleInv, ZeroInv, ZeroIsNoHandle, TableIds, Bits
<1>2. FieldsInv
  BY DEF HandleInv
<1>3. /\ bmp' = [bmp EXCEPT ![0] = @ \ {h}]
      /\ live' = [live EXCEPT ![h] = @ - 1]
      /\ bmp_size' = bmp_size /\ free_item' = free_item
  BY <1>1 DEF Delete
<1>4. /\ bmp'[0] = bmp[0] \ {h}
      /\ \A j \in TableIds : j # 0 => bmp'[j] = bmp[j]
      /\ live'[h] = live[h] - 1
      /\ \A g \in Bits : g # h => live'[g] = live[g]
  BY <1>1, <1>2, <1>3 DEF FieldsInv
<1>5. FieldsInv'
  <2>1. bmp' \in [TableIds -> SUBSET Bits]
    BY <1>1, <1>2, <1>3 DEF FieldsInv
  <2>2. live' \in [Bits -> Nat]
    BY <1>2, <1>3 DEF FieldsInv
  <2> QED BY <1>2, <1>3, <2>1, <2>2 DEF FieldsInv
<1>6. ZeroInv'
  BY <1>1, <1>3, <1>4 DEF HandleInv, ZeroInv, ZeroIsNoHandle
<1>7. UniqueInv'
  <2> SUFFICES ASSUME FirstTableOnly', NEW g \in Bits, live'[g] > 0
               PROVE  live'[g] = 1 /\ bmp_size'[0] # 0 /\ g \in bmp'[0]
    BY DEF UniqueInv
  <2>1. \A k \in Bits : live[k] > 0 => live[k] = 1 /\ bmp_size[0] # 0 /\ k \in bmp[0]
    BY <1>3 DEF HandleInv, UniqueInv, FirstTableOnly
  <2>2. g # h
    BY <1>4, <2>1
  <2> QED BY <1>3, <1>4, <2>1, <2>2
<1>8. SecondInv'
  BY <1>3, <1>4 DEF HandleInv, SecondInv, OnlyTwoTables
<1> QED BY <1>5, <1>6, <1>7, <1>8 DEF HandleInv

-----------------------------------------------------------------------------

\* The invariant holds after every sequence of calls of new and delete.
THEOREM HandleInvariance == HandleSpec => []HandleInv
<1>1. HandleInv /\ [HandleNext]_handleVars => HandleInv'
  <2> SUFFICES ASSUME HandleInv, [HandleNext]_handleVars PROVE HandleInv'
    OBVIOUS
  <2>1. CASE New
    BY <2>1, NewInv
  <2>2. CASE NewFails
    BY <2>2, NewFailsInv
  <2>3. ASSUME NEW h \in Bits, live[h] > 0, Delete(h) PROVE HandleInv'
    BY <2>3, DeleteInv
  <2>4. CASE UNCHANGED handleVars
    BY <2>4 DEF handleVars, HandleInv, FieldsInv, ZeroInv, ZeroIsNoHandle, UniqueInv, SecondInv,
                FirstTableOnly, OnlyTwoTables
  <2> QED BY <2>1, <2>2, <2>3, <2>4 DEF HandleNext
<1> QED BY <1>1, InitInv, PTL DEF HandleSpec

\* While all handles come from the first table no two objects have the same one,
\* however often new and delete are called and whatever the page frames held.
THEOREM FirstTableHandles == HandleSpec => []FirstTableUnique
<1>1. HandleInv => FirstTableUnique
  BY DEF HandleInv, FieldsInv, UniqueInv, FirstTableUnique, HandlesUnique
<1> QED BY <1>1, HandleInvariance, PTL

\* The 0 that new returns when it fails is never a live handle.
THEOREM ZeroReserved == HandleSpec => []ZeroIsNoHandle
<1>1. HandleInv => ZeroIsNoHandle
  BY DEF HandleInv, ZeroInv
<1> QED BY <1>1, HandleInvariance, PTL

\* Of the tables of handles only the first two are ever used.
THEOREM TwoTables == HandleSpec => []OnlyTwoTables
<1>1. HandleInv => OnlyTwoTables
  BY DEF HandleInv, SecondInv
<1> QED BY <1>1, HandleInvariance, PTL

-----------------------------------------------------------------------------

\* What a step of new or delete may do to the first bitmap and the live handles.
FirstBitmapExact ==
  (bmp_size[0] # 0 /\ FirstTableOnly') =>
     Live' \subseteq bmp'[0] /\ bmp'[0] \ Live' = bmp[0] \ Live

\* The live handles are those of the first table, each with one owner.
LEMMA LiveInFirst ==
  ASSUME HandleInv, FirstTableOnly
  PROVE  Live \subseteq bmp[0] /\ \A h \in Bits : h \in Live <=> live[h] = 1
  BY DEF HandleInv, UniqueInv, Live

\* new finds a bit that is clear, and so no live handle's, and sets it for a new one.
LEMMA NewExact == HandleInv /\ New => FirstBitmapExact
<1> SUFFICES ASSUME HandleInv, New, bmp_size[0] # 0, FirstTableOnly'
             PROVE  Live' \subseteq bmp'[0] /\ bmp'[0] \ Live' = bmp[0] \ Live
  BY DEF FirstBitmapExact
<1> USE HandleAssumption
<1>1. PICK i \in Candidate, junk \in Junk : \E id \in Search(Opened(i, junk)) :
        /\ bmp' = [bmp EXCEPT ![i] = Opened(i, junk) \cup {id}]
        /\ bmp_size' = [bmp_size EXCEPT ![i] = Items]
        /\ free_item' = [free_item EXCEPT ![i] = (IF bmp_size[i] = 0 THEN Items ELSE @) - 1]
        /\ live' = [live EXCEPT ![id] = @ + 1]
  BY DEF New
<1>2. PICK id \in Search(Opened(i, junk)) :
        /\ bmp' = [bmp EXCEPT ![i] = Opened(i, junk) \cup {id}]
        /\ bmp_size' = [bmp_size EXCEPT ![i] = Items]
        /\ live' = [live EXCEPT ![id] = @ + 1]
  BY <1>1
<1>3. i \in TableIds /\ FieldsInv
  BY CandidateIsEarly DEF HandleInv
<1>4. i = 0 /\ FirstTableOnly
  <2>1. bmp_size'[i] = Items /\ \A j \in TableIds : j # i => bmp_size'[j] = bmp_size[j]
    BY <1>2, <1>3 DEF FieldsInv
  <2>2. i = 0
    BY <1>3, <2>1 DEF FirstTableOnly
  <2> QED BY <2>1, <2>2 DEF FirstTableOnly
<1>5. Opened(i, junk) = bmp[0]
  BY <1>4 DEF Opened
<1>6. id \in Bits /\ id \notin bmp[0]
  BY <1>5 DEF Search
<1>7. Live \subseteq bmp[0] /\ \A h \in Bits : h \in Live <=> live[h] = 1
  BY <1>4, LiveInFirst
<1>8. bmp'[0] = bmp[0] \cup {id}
  BY <1>2, <1>3, <1>4, <1>5 DEF FieldsInv
<1>9. Live' = Live \cup {id}
  <2>1. live'[id] = live[id] + 1 /\ live[id] \in Nat /\ \A h \in Bits : h # id => live'[h] = live[h]
    BY <1>2, <1>3, <1>6 DEF FieldsInv
  <2> QED BY <1>6, <2>1 DEF Live
<1> QED BY <1>6, <1>7, <1>8, <1>9

\* delete clears the bit of its caller's handle and no other.
LEMMA DeleteExact ==
  ASSUME HandleInv, NEW h \in Bits, live[h] > 0, Delete(h)
  PROVE  FirstBitmapExact
<1> SUFFICES ASSUME FirstTableOnly'
             PROVE  Live' \subseteq bmp'[0] /\ bmp'[0] \ Live' = bmp[0] \ Live
  BY DEF FirstBitmapExact
<1>1. h \div Items = 0 /\ h % Items = h /\ 0 \in TableIds
  BY HandleIsBit, HandleAssumption DEF TableIds
<1>2. /\ bmp' = [bmp EXCEPT ![0] = @ \ {h}]
      /\ live' = [live EXCEPT ![h] = @ - 1]
      /\ bmp_size' = bmp_size
  BY <1>1 DEF Delete
<1>3. FieldsInv /\ FirstTableOnly
  BY <1>2 DEF HandleInv, FirstTableOnly
<1>4. Live \subseteq bmp[0] /\ \A g \in Bits : g \in Live <=> live[g] = 1
  BY <1>3, LiveInFirst
<1>5. h \in Live /\ live[h] = 1
  BY <1>4 DEF Live
<1>6. bmp'[0] = bmp[0] \ {h}
  BY <1>1, <1>2, <1>3 DEF FieldsInv
<1>7. Live' = Live \ {h}
  <2>1. live'[h] = 0 /\ \A g \in Bits : g # h => live'[g] = live[g]
    BY <1>2, <1>3, <1>5 DEF FieldsInv
  <2> QED BY <2>1 DEF Live
<1> QED BY <1>4, <1>5, <1>6, <1>7

\* new, when the bitmap it stops at is full, leaves it and the handles as they are.
LEMMA NewFailsExact == HandleInv /\ NewFails => FirstBitmapExact
<1> SUFFICES ASSUME HandleInv, NewFails, bmp_size[0] # 0, FirstTableOnly'
             PROVE  Live' \subseteq bmp'[0] /\ bmp'[0] \ Live' = bmp[0] \ Live
  BY DEF FirstBitmapExact
<1> USE HandleAssumption
<1>1. PICK i \in Candidate, junk \in Junk :
        /\ bmp' = [bmp EXCEPT ![i] = Opened(i, junk)]
        /\ bmp_size' = [bmp_size EXCEPT ![i] = Items]
        /\ live' = live
  BY DEF NewFails
<1>2. i \in TableIds /\ FieldsInv
  BY CandidateIsEarly DEF HandleInv
<1>3. bmp_size'[i] = Items /\ \A j \in TableIds : j # i => bmp_size'[j] = bmp_size[j]
  BY <1>1, <1>2 DEF FieldsInv
<1>4. i = 0 /\ FirstTableOnly
  BY <1>2, <1>3 DEF FirstTableOnly
<1>5. bmp'[0] = bmp[0] /\ Live' = Live
  BY <1>1, <1>2, <1>4 DEF FieldsInv, Opened, Live
<1> QED BY <1>4, <1>5, LiveInFirst

\* While handles come from the first table, new and delete lose no handle and make none
\* up: the bitmap knows every live handle, and its other bits stay as they were.
THEOREM BitmapStaysExact == HandleSpec => BitmapIsExact
<1>1. HandleInv /\ [HandleNext]_handleVars => [FirstBitmapExact]_handleVars
  <2> SUFFICES ASSUME HandleInv, HandleNext PROVE FirstBitmapExact
    OBVIOUS
  <2>1. CASE New
    BY <2>1, NewExact
  <2>2. CASE NewFails
    BY <2>2, NewFailsExact
  <2>3. ASSUME NEW h \in Bits, live[h] > 0, Delete(h) PROVE FirstBitmapExact
    BY <2>3, DeleteExact
  <2> QED BY <2>1, <2>2, <2>3 DEF HandleNext
<1>2. BitmapIsExact <=> [][FirstBitmapExact]_handleVars
  BY DEF BitmapIsExact, FirstBitmapExact
<1> QED BY <1>1, <1>2, HandleInvariance, PTL DEF HandleSpec
=============================================================================
