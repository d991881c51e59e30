------------------------------- MODULE LibProof --------------------------------
(***************************************************************************)
(* Proofs about the data structures of lib/: the ring queue, the stack     *)
(* array, the atomic data, the hash table and the conversions of numbers.  *)
(***************************************************************************)
EXTENDS RoundQueue, StackArray, Atomic, HashTable, Numbers, SequenceTheorems,
        FiniteSetTheorems, WellFoundedInduction, TLAPS

(***************************************************************************)
(* The ring queue of lib/include/round_queue.h keeps what it has lent,     *)
(* although calls of round_queue_add preempt one another, and implements a *)
(* bounded queue until they do, for every number of slots.                 *)
(***************************************************************************)

(***************************************************************************)
(* Slots: one step of an index, and the distance of two indices.           *)
(***************************************************************************)

\* After leads from a slot to another slot, the first one behind the last.
LEMMA AfterSlot ==
  ASSUME NEW s \in Slots
  PROVE  /\ After(s) \in Slots
         /\ After(s) = IF s + 1 < QueueMax THEN s + 1 ELSE 0
<1>1. (s + 1) % QueueMax = IF s + 1 < QueueMax THEN s + 1 ELSE s + 1 - QueueMax
  BY QueueAssumption DEF Slots
<1> QED BY <1>1, QueueAssumption DEF After, Slots

\* How far slot s is ahead of slot h
Ahead(s, h) == (s - h) % QueueMax

LEMMA AheadIs ==
  ASSUME NEW h \in Slots, NEW s \in Slots
  PROVE  /\ Ahead(s, h) = IF s < h THEN s - h + QueueMax ELSE s - h
         /\ Ahead(s, h) \in 0..(QueueMax - 1)
         /\ Ahead(s, h) = 0 <=> s = h
<1>1. (s - h) % QueueMax = IF s - h < 0 THEN s - h + QueueMax ELSE s - h
  BY QueueAssumption DEF Slots
<1>2. Ahead(s, h) = IF s < h THEN s - h + QueueMax ELSE s - h
  BY <1>1, QueueAssumption DEF Ahead, Slots
<1> QED BY <1>2, QueueAssumption DEF Slots

\* The slot i behind another, across the end of the array
LEMMA AcrossEnd ==
  ASSUME NEW h \in Slots, NEW i \in 0..QueueMax
  PROVE  /\ (h + i) % QueueMax = IF h + i < QueueMax THEN h + i ELSE h + i - QueueMax
         /\ (h + i) % QueueMax \in Slots
<1>1. (h + i) % QueueMax = IF h + i < QueueMax THEN h + i ELSE h + i - QueueMax
  BY QueueAssumption DEF Slots
<1> QED BY <1>1, QueueAssumption DEF Slots

\* The slot behind another is one further ahead of the head, unless it is the head.
LEMMA AheadAfter ==
  ASSUME NEW h \in Slots, NEW s \in Slots, After(s) # h
  PROVE  Ahead(After(s), h) = Ahead(s, h) + 1 /\ Ahead(s, h) < QueueMax - 1
<1>1. After(s) \in Slots /\ After(s) = IF s + 1 < QueueMax THEN s + 1 ELSE 0
  BY AfterSlot
<1>2. /\ Ahead(s, h) = IF s < h THEN s - h + QueueMax ELSE s - h
      /\ Ahead(After(s), h) = IF After(s) < h THEN After(s) - h + QueueMax ELSE After(s) - h
  BY <1>1, AheadIs
<1> QED BY <1>1, <1>2, QueueAssumption DEF Slots

\* A ring without a slot left between tail and head is full.
LEMMA FullAhead ==
  ASSUME NEW h \in Slots, NEW s \in Slots
  PROVE  After(s) = h <=> Ahead(s, h) = QueueMax - 1
<1>1. After(s) = IF s + 1 < QueueMax THEN s + 1 ELSE 0
  BY AfterSlot
<1>2. Ahead(s, h) = IF s < h THEN s - h + QueueMax ELSE s - h
  BY AheadIs
<1> QED BY <1>1, <1>2, QueueAssumption DEF Slots

(***************************************************************************)
(* What has been lent.                                                     *)
(***************************************************************************)

\* As long as the ring is not crowded, each call past its test has a slot of its own to
\* go to, and one is left for each call it has preempted before its load: none moves the
\* tail t onto the head h.
AddInv(a, h, t) ==
  /\ a.pc = "load" => Ahead(t, h) + a.claims + 1 <= QueueMax - 1
  /\ a.pc = "store" => 1 <= Ahead(a.next, h) /\ Ahead(a.next, h) + a.claims <= QueueMax - 1
  /\ a.pc = "copy" => t # h

\* What the calls above a have to leave
Claim(a) == a.claims + (IF a.pc = "load" THEN 1 ELSE 0)

\* A call that has preempted none and not been preempted goes to the slot behind the last.
AloneInv ==
  \A i \in 1..Len(adding) :
    ~nested /\ adding[i].pc = "store" => adding[i].next = After(tail)

QueueInv ==
  /\ LentIntact /\ AloneInv
  /\ ~crowded => /\ \A i \in 1..Len(adding) : AddInv(adding[i], head, tail)
                 /\ \A i, j \in 1..Len(adding) : i < j => Claim(adding[i]) <= adding[j].claims

LEMMA QueueBegins == QueueInit => QueueInv
<1> SUFFICES ASSUME QueueInit PROVE QueueInv
  OBVIOUS
<1>1. 0 \in Slots
  BY QueueAssumption DEF Slots
<1>2. ring = [s \in Slots |-> NoItem]
  BY DEF QueueInit
<1>3. ring \in [Slots -> QueueItems \cup {NoItem}]
  BY <1>2
<1>4. adding \in Seq(Adds) /\ Len(adding) = 0
  BY EmptySeq DEF QueueInit
<1> QED BY <1>1, <1>3, <1>4, QueueAssumption DEF QueueInit, QueueInv, LentIntact, QueueTypeOK

\* The types, at the calls under way
LEMMA QueueTypes ==
  ASSUME QueueInv
  PROVE  /\ QueueTypeOK /\ Len(adding) \in Nat
         /\ \A i \in 1..Len(adding) : adding[i] \in Adds
         /\ adding # <<>> => Len(adding) \in 1..Len(adding) /\ LastAdd \in Adds
<1>1. QueueTypeOK /\ adding \in Seq(Adds)
  BY DEF QueueInv, LentIntact, QueueTypeOK
<1>2. Len(adding) \in Nat /\ \A i \in 1..Len(adding) : adding[i] \in Adds
  BY <1>1, LenProperties, ElementOfSeq
<1>3. adding # <<>> => Len(adding) # 0
  BY <1>1, EmptySeq
<1> QED BY <1>1, <1>2, <1>3 DEF LastAdd

\* A call that others have preempted keeps its invariant through a step of the last one,
\* b, which leaves tail alone or stores it.
LEMMA BelowKeeps ==
  ASSUME NEW a \in Adds, NEW b \in Adds, NEW h \in Slots, NEW t \in Slots, NEW u \in Slots,
         AddInv(a, h, t), AddInv(b, h, t), Claim(a) <= b.claims,
         u = t \/ (b.pc = "store" /\ u = b.next)
  PROVE  AddInv(a, h, u)
<1>1. CASE u = t
  BY <1>1
<1>2. CASE b.pc = "store" /\ u = b.next
  <2>1. 1 <= Ahead(u, h) /\ Ahead(u, h) + b.claims <= QueueMax - 1 /\ Ahead(u, h) \in Nat
    BY <1>2, AheadIs, QueueAssumption DEF AddInv
  <2>2. u # h
    BY <2>1, AheadIs
  <2>3. a.claims \in Nat /\ b.claims \in Nat
    BY DEF Adds
  <2>4. a.pc = "load" => Ahead(u, h) + a.claims + 1 <= QueueMax - 1
    BY <2>1, <2>3, QueueAssumption DEF Claim
  <2> QED BY <2>2, <2>4 DEF AddInv
<1> QED BY <1>1, <1>2

\* The rest of the invariant after a step of the last call that changes its record to a
\* and tail, and leaves what is lent.
LEMMA LastStep ==
  ASSUME QueueInv, adding # <<>>, NEW a \in Adds,
         adding' = [adding EXCEPT ![Len(adding)] = a], a.claims = LastAdd.claims,
         LastAdd.pc # "load" => a.pc # "load",
         UNCHANGED <<ring, head, eMax, deleting, lent, item, crowded, nested>>,
         ~nested /\ a.pc = "store" => a.next = After(tail'),
         tail' \in Slots, tail' = tail \/ (LastAdd.pc = "store" /\ tail' = LastAdd.next),
         ~crowded => AddInv(a, head, tail') /\ (deleting => tail' # head)
  PROVE  QueueInv'
<1>1. /\ QueueTypeOK /\ Len(adding) \in Nat /\ Len(adding) \in 1..Len(adding)
      /\ LastAdd \in Adds /\ LastAdd = adding[Len(adding)] /\ adding \in Seq(Adds)
      /\ \A i \in 1..Len(adding) : adding[i] \in Adds
  BY QueueTypes DEF QueueTypeOK, LastAdd
<1>2. /\ adding' \in Seq(Adds) /\ Len(adding') = Len(adding)
      /\ \A i \in 1..Len(adding) : adding'[i] = IF i = Len(adding) THEN a ELSE adding[i]
  BY <1>1, ExceptSeq
<1>3. LentIntact'
  BY <1>1, <1>2 DEF QueueInv, LentIntact, QueueTypeOK
<1>4. ASSUME ~crowded', NEW i \in 1..Len(adding') PROVE AddInv(adding'[i], head', tail')
  <2>1. CASE i = Len(adding)
    BY <1>2, <1>4, <2>1
  <2>2. CASE i # Len(adding)
    <3>1. i < Len(adding) /\ i \in 1..Len(adding)
      BY <1>1, <1>2, <2>2
    <3>2. /\ AddInv(adding[i], head, tail) /\ AddInv(LastAdd, head, tail)
          /\ Claim(adding[i]) <= LastAdd.claims
      BY <1>1, <1>4, <3>1 DEF QueueInv
    <3>3. head \in Slots /\ tail \in Slots
      BY <1>1 DEF QueueTypeOK
    <3>4. AddInv(adding[i], head, tail')
      BY <1>1, <3>1, <3>2, <3>3, BelowKeeps
    <3> QED BY <1>2, <2>2, <3>1, <3>4
  <2> QED BY <2>1, <2>2
<1>5. ASSUME ~crowded', NEW i \in 1..Len(adding'), NEW j \in 1..Len(adding'), i < j
      PROVE  Claim(adding'[i]) <= adding'[j].claims
  <2>1. adding'[i] = adding[i] /\ i \in 1..Len(adding) /\ j \in 1..Len(adding)
    BY <1>1, <1>2, <1>5
  <2>2. adding'[j].claims = adding[j].claims
    BY <1>1, <1>2, <2>1
  <2> QED BY <1>5, <2>1, <2>2 DEF QueueInv
<1>6. AloneInv'
  <2>1. ASSUME ~nested, NEW i \in 1..Len(adding'), adding'[i].pc = "store"
        PROVE  adding'[i].next = After(tail')
    <3>1. Len(adding) <= 1
      BY <2>1 DEF QueueInv, LentIntact
    <3>2. i = Len(adding)
      BY <1>1, <1>2, <3>1
    <3> QED BY <1>1, <1>2, <2>1, <3>2
  <2> QED BY <2>1 DEF AloneInv, After
<1> QED BY <1>3, <1>4, <1>5, <1>6 DEF QueueInv

LEMMA AddLoadKeeps == QueueInv /\ AddLoad => QueueInv'
<1> SUFFICES ASSUME QueueInv, AddLoad PROVE QueueInv'
  OBVIOUS
<1> DEFINE a == [LastAdd EXCEPT !.pc = "store", !.next = After(tail)]
<1>1. /\ adding # <<>> /\ LastAdd.pc = "load" /\ adding' = [adding EXCEPT ![Len(adding)] = a]
      /\ UNCHANGED <<ring, head, tail, eMax, deleting, lent, item, crowded, nested>>
  BY DEF AddLoad
<1>2. /\ LastAdd \in Adds /\ head \in Slots /\ tail \in Slots
      /\ LastAdd = adding[Len(adding)] /\ Len(adding) \in 1..Len(adding)
  BY <1>1, QueueTypes DEF QueueTypeOK, LastAdd
<1>3. After(tail) \in Slots
  BY <1>2, AfterSlot
<1>4. a \in Adds /\ a.claims = LastAdd.claims /\ a.pc = "store" /\ a.next = After(tail)
  BY <1>2, <1>3 DEF Adds
<1>5. ASSUME ~crowded PROVE AddInv(a, head, tail) /\ (deleting => tail # head)
  <2>1. Ahead(tail, head) + LastAdd.claims + 1 <= QueueMax - 1
    BY <1>1, <1>2, <1>5 DEF QueueInv, AddInv
  <2>2. Ahead(tail, head) \in Nat /\ LastAdd.claims \in Nat
    BY <1>2, AheadIs, QueueAssumption DEF Adds
  <2>3. After(tail) # head
    BY <1>2, <2>1, <2>2, FullAhead, QueueAssumption
  <2>4. Ahead(After(tail), head) = Ahead(tail, head) + 1
    BY <1>2, <2>3, AheadAfter
  <2>5. deleting => tail # head
    BY <1>5 DEF QueueInv, LentIntact
  <2> QED BY <1>4, <2>1, <2>2, <2>4, <2>5, QueueAssumption DEF AddInv
<1> HIDE DEF a
<1> QED BY <1>1, <1>2, <1>4, <1>5, LastStep

LEMMA AddStoreKeeps == QueueInv /\ AddStore => QueueInv'
<1> SUFFICES ASSUME QueueInv, AddStore PROVE QueueInv'
  OBVIOUS
<1> DEFINE a == [LastAdd EXCEPT !.pc = "copy"]
<1>1. /\ adding # <<>> /\ LastAdd.pc = "store" /\ adding' = [adding EXCEPT ![Len(adding)] = a]
      /\ tail' = LastAdd.next
      /\ UNCHANGED <<ring, head, eMax, deleting, lent, item, crowded, nested>>
  BY DEF AddStore
<1>2. /\ LastAdd \in Adds /\ head \in Slots /\ tail \in Slots
      /\ LastAdd = adding[Len(adding)] /\ Len(adding) \in 1..Len(adding)
  BY <1>1, QueueTypes DEF QueueTypeOK, LastAdd
<1>3. a \in Adds /\ a.claims = LastAdd.claims /\ a.pc = "copy"
  BY <1>2 DEF Adds
<1>4. tail' \in Slots
  BY <1>1, <1>2 DEF Adds
<1>5. ASSUME ~crowded PROVE AddInv(a, head, tail') /\ (deleting => tail' # head)
  <2>1. 1 <= Ahead(tail', head)
    BY <1>1, <1>2, <1>5 DEF QueueInv, AddInv
  <2>2. tail' # head
    BY <1>2, <1>4, <2>1, AheadIs
  <2> QED BY <1>3, <2>2 DEF AddInv
<1> HIDE DEF a
<1> QED BY <1>1, <1>2, <1>3, <1>4, <1>5, LastStep

\* The copy goes to another slot than the one that is lent.
LEMMA AddCopyKeeps == QueueInv /\ AddCopy => QueueInv'
<1> SUFFICES ASSUME QueueInv, AddCopy PROVE QueueInv'
  OBVIOUS
<1>1. /\ adding # <<>> /\ LastAdd.pc = "copy" /\ ring' = [ring EXCEPT ![tail] = LastAdd.x]
      /\ adding' = SubSeq(adding, 1, Len(adding) - 1) /\ eMax' = FALSE
      /\ UNCHANGED <<head, tail, deleting, lent, item, crowded, nested>>
  BY DEF AddCopy
<1>2. /\ QueueTypeOK /\ LastAdd \in Adds /\ LastAdd = adding[Len(adding)]
      /\ Len(adding) \in Nat /\ Len(adding) \in 1..Len(adding)
      /\ \A i \in 1..Len(adding) : adding[i] \in Adds
  BY <1>1, QueueTypes DEF LastAdd
<1>3. /\ adding' \in Seq(Adds) /\ Len(adding') = Len(adding) - 1
      /\ \A i \in 1..Len(adding') : adding'[i] = adding[i]
  <2>1. PICK n \in Nat : n = Len(adding) /\ n >= 1
    BY <1>2
  <2>2. \A i \in 1..(n - 1) : adding[i] \in Adds
    BY <1>2, <2>1
  <2>3. /\ SubSeq(adding, 1, n - 1) \in Seq(Adds)
        /\ Len(SubSeq(adding, 1, n - 1)) = IF 1 <= n - 1 THEN (n - 1) - 1 + 1 ELSE 0
        /\ \A i \in 1..((n - 1) - 1 + 1) : SubSeq(adding, 1, n - 1)[i] = adding[1 + i - 1]
    BY <2>1, <2>2, SubSeqProperties
  <2> QED BY <1>1, <2>1, <2>3
<1>4. ring' \in [Slots -> QueueItems \cup {NoItem}]
  BY <1>1, <1>2 DEF QueueTypeOK, Adds
<1>5. ASSUME ~crowded PROVE ring'[head] = ring[head]
  <2>1. tail # head
    BY <1>1, <1>2, <1>5 DEF QueueInv, AddInv
  <2> QED BY <1>1, <1>2, <2>1 DEF QueueTypeOK
<1>6. QueueTypeOK'
  <2>1. Len(adding) <= MaxNesting /\ MaxNesting \in Nat
    BY <1>2, QueueAssumption DEF QueueTypeOK
  <2>2. Len(adding') <= MaxNesting
    BY <1>2, <1>3, <2>1
  <2>3. eMax' \in BOOLEAN /\ UNCHANGED <<head, tail, deleting, lent, item, crowded, nested>>
    BY <1>1
  <2> QED BY <1>2, <1>3, <1>4, <2>2, <2>3 DEF QueueTypeOK
<1>7. LentIntact'
  BY <1>1, <1>5, <1>6 DEF QueueInv, LentIntact
<1>8. ASSUME NEW i \in 1..Len(adding') PROVE i \in 1..Len(adding) /\ adding'[i] = adding[i]
  BY <1>2, <1>3
<1>9. AloneInv'
  BY <1>1, <1>8 DEF QueueInv, AloneInv, After
<1> QED BY <1>1, <1>7, <1>8, <1>9 DEF QueueInv

\* A call that finds room joins those it has preempted.
LEMMA AddTestKeeps == ASSUME QueueInv, NEW x \in QueueItems, AddTest(x) PROVE QueueInv'
<1> DEFINE a == [pc |-> "load", x |-> x, next |-> 0, claims |-> Claims]
<1>1. /\ Len(adding) < MaxNesting /\ After(tail) # head /\ adding' = Append(adding, a)
      /\ crowded' = (crowded \/ Count + Claims >= QueueMax - 1)
      /\ nested' = (nested \/ adding # <<>>)
      /\ UNCHANGED <<ring, head, tail, eMax, deleting, lent, item>>
  BY DEF AddTest, QueueIsFull
<1>2. /\ QueueTypeOK /\ Len(adding) \in Nat /\ adding \in Seq(Adds)
      /\ head \in Slots /\ tail \in Slots
      /\ \A i \in 1..Len(adding) : adding[i] \in Adds
      /\ adding # <<>> => Len(adding) \in 1..Len(adding) /\ LastAdd \in Adds
  BY QueueTypes DEF QueueTypeOK
<1>3. Claims \in Nat /\ Claims = IF adding = <<>> THEN 0 ELSE Claim(adding[Len(adding)])
  BY <1>2 DEF Claims, Claim, Adds, LastAdd
<1>4. a \in Adds /\ a.pc = "load" /\ a.claims = Claims /\ Claim(a) = Claims + 1
  <2>1. 0 \in Slots
    BY QueueAssumption DEF Slots
  <2> QED BY <1>3, <2>1 DEF Adds, Claim
<1>5. /\ adding' \in Seq(Adds) /\ Len(adding') = Len(adding) + 1
      /\ \A i \in 1..Len(adding) : adding'[i] = adding[i]
      /\ adding'[Len(adding) + 1] = a
  <2> HIDE DEF a
  <2> QED BY <1>1, <1>2, <1>4, AppendProperties
<1> HIDE DEF a
<1>6. Count = Ahead(tail, head) /\ Count \in Nat /\ Count < QueueMax - 1
  BY <1>1, <1>2, AheadIs, AheadAfter, QueueAssumption DEF Count, Ahead
<1>7. (~crowded') => (~crowded) /\ AddInv(a, head, tail)
  <2> SUFFICES ASSUME ~crowded' PROVE ~crowded /\ AddInv(a, head, tail)
    OBVIOUS
  <2>1. ~crowded /\ ~(Count + Claims >= QueueMax - 1)
    BY <1>1
  <2>2. Ahead(tail, head) + Claims + 1 <= QueueMax - 1
    BY <1>3, <1>6, <2>1, QueueAssumption
  <2> QED BY <1>4, <2>1, <2>2 DEF AddInv
<1>8. ASSUME ~nested' PROVE ~nested /\ ~crowded' /\ Len(adding) = 0
  <2>1. adding = <<>> /\ ~nested
    BY <1>1, <1>8
  <2>2. ~crowded /\ Claims = 0
    BY <1>3, <2>1 DEF QueueInv, LentIntact
  <2>3. Len(adding) = 0
    BY <2>1
  <2>4. ~(Count + Claims >= QueueMax - 1)
    BY <1>6, <2>2, QueueAssumption
  <2>5. ~crowded'
    BY <1>1, <2>2, <2>4
  <2> QED BY <2>1, <2>3, <2>5
<1>9. LentIntact'
  <2>1. /\ crowded' \in BOOLEAN /\ nested' \in BOOLEAN /\ Len(adding') <= MaxNesting
        /\ ~nested' => Len(adding') <= 1
    BY <1>1, <1>2, <1>5, <1>8, QueueAssumption DEF QueueTypeOK
  <2>2. QueueTypeOK'
    BY <1>1, <1>2, <1>5, <2>1 DEF QueueTypeOK
  <2>3. ~crowded' => ~crowded
    BY <1>7
  <2> QED BY <1>1, <1>8, <2>1, <2>2, <2>3 DEF QueueInv, LentIntact
<1>10. ASSUME ~crowded', NEW i \in 1..Len(adding') PROVE AddInv(adding'[i], head', tail')
  <2>1. i \in 1..Len(adding) \/ i = Len(adding) + 1
    BY <1>2, <1>5
  <2> QED BY <1>1, <1>5, <1>7, <1>10, <2>1 DEF QueueInv
<1>11. ASSUME ~crowded', NEW i \in 1..Len(adding'), NEW j \in 1..Len(adding'), i < j
       PROVE  Claim(adding'[i]) <= adding'[j].claims
  <2>1. i \in 1..Len(adding) /\ (j \in 1..Len(adding) \/ j = Len(adding) + 1)
    BY <1>2, <1>5, <1>11
  <2>2. CASE j \in 1..Len(adding)
    BY <1>5, <1>7, <1>11, <2>1, <2>2 DEF QueueInv
  <2>3. CASE j = Len(adding) + 1
    <3>1. adding'[j].claims = Claim(adding[Len(adding)])
      <4>1. adding # <<>>
        BY <1>2, <2>1, EmptySeq
      <4> QED BY <1>3, <1>4, <1>5, <2>3, <4>1
    <3>2. CASE i = Len(adding)
      <4>1. Claim(adding[i]) \in Nat
        BY <1>2, <2>1 DEF Claim, Adds
      <4> QED BY <1>5, <2>1, <3>1, <3>2, <4>1
    <3>3. CASE i # Len(adding)
      <4>1. i < Len(adding) /\ Len(adding) \in 1..Len(adding)
        BY <1>2, <2>1, <3>3
      <4>2. Claim(adding[i]) <= adding[Len(adding)].claims
        BY <1>7, <1>11, <2>1, <4>1 DEF QueueInv
      <4>3. adding[i] \in Adds /\ adding[Len(adding)] \in Adds
        BY <1>2, <2>1, <4>1
      <4>4. /\ Claim(adding[i]) \in Nat /\ adding[Len(adding)].claims \in Nat
            /\ adding[Len(adding)].claims <= Claim(adding[Len(adding)])
            /\ Claim(adding[Len(adding)]) \in Nat
        BY <4>3 DEF Claim, Adds
      <4> QED BY <1>5, <2>1, <3>1, <4>2, <4>4
    <3> QED BY <3>2, <3>3
  <2> QED BY <2>1, <2>2, <2>3
<1>12. AloneInv'
  <2>1. ASSUME ~nested', NEW i \in 1..Len(adding') PROVE adding'[i].pc = "load"
    BY <1>4, <1>5, <1>8, <2>1
  <2> QED BY <2>1 DEF AloneInv
<1> QED BY <1>9, <1>10, <1>11, <1>12 DEF QueueInv

\* The steps of the task, which runs when no call is under way
LEMMA TaskKeeps == QueueInv /\ (DeleteTest \/ DeleteAdvance \/ AddRefuse) => QueueInv'
<1> SUFFICES ASSUME QueueInv, DeleteTest \/ DeleteAdvance \/ AddRefuse PROVE QueueInv'
  OBVIOUS
<1>1. QueueTypeOK /\ After(head) \in Slots
  BY AfterSlot DEF QueueInv, LentIntact, QueueTypeOK
<1>2. UNCHANGED <<ring, tail, adding, crowded>>
  BY DEF DeleteTest, DeleteAdvance, AddRefuse
<1>3. LentIntact'
  <2>1. CASE DeleteTest
    BY <1>1, <2>1 DEF DeleteTest, QueueInv, LentIntact, QueueTypeOK
  <2>2. CASE DeleteAdvance
    BY <1>1, <2>2 DEF DeleteAdvance, QueueInv, LentIntact, QueueTypeOK
  <2>3. CASE AddRefuse
    BY <1>1, <2>3 DEF AddRefuse, QueueInv, LentIntact, QueueTypeOK
  <2> QED BY <2>1, <2>2, <2>3
<1>4. CASE AddRefuse
  <2>1. AloneInv'
    BY <1>2, <1>4 DEF AddRefuse, QueueInv, AloneInv, After
  <2> QED BY <1>2, <1>3, <1>4, <2>1 DEF AddRefuse, QueueInv
<1>5. CASE DeleteTest \/ DeleteAdvance
  <2>1. adding' = <<>>
    BY <1>2, <1>5 DEF DeleteTest, DeleteAdvance
  <2>2. Len(adding') = 0
    BY <2>1
  <2>3. AloneInv'
    BY <2>2 DEF AloneInv
  <2> QED BY <1>3, <2>2, <2>3 DEF QueueInv
<1> QED BY <1>4, <1>5

LEMMA QueueStep == QueueInv /\ [QueueNext]_queueVars => QueueInv'
<1>1. QueueInv /\ UNCHANGED queueVars => QueueInv'
  BY DEF queueVars, QueueInv, LentIntact, AloneInv, After, QueueTypeOK
<1> QED BY <1>1, AddLoadKeeps, AddStoreKeeps, AddCopyKeeps, AddTestKeeps, TaskKeeps
        DEF QueueNext

LEMMA QueueInvariance == QueueSpec => []QueueInv
<1> QED BY QueueBegins, QueueStep, PTL DEF QueueSpec

\* What round_queue_delete has lent stays as it was whatever handlers add, as long as the
\* ring is not crowded, for every number of slots and of calls of round_queue_add that
\* preempt one another (lib/include/round_queue.h).
THEOREM QueueLent == QueueSpec => []LentIntact
<1>1. QueueInv => LentIntact
  BY DEF QueueInv
<1> QED BY <1>1, QueueInvariance, PTL

(***************************************************************************)
(* The bounded queue, until calls of round_queue_add preempt one another.  *)
(***************************************************************************)

\* One call is under way at most, and it goes to the slot behind the last.
LEMMA OneAdd ==
  ASSUME QueueInv, ~nested
  PROVE  /\ ~crowded /\ head \in Slots /\ tail \in Slots
         /\ adding # <<>> => Len(adding) = 1 /\ LastAdd \in Adds /\ AddInv(LastAdd, head, tail)
         /\ adding # <<>> /\ LastAdd.pc = "store" => LastAdd.next = After(tail)
         /\ Count = Ahead(tail, head) /\ Count \in 0..(QueueMax - 1)
<1>1. QueueTypeOK /\ ~crowded /\ head \in Slots /\ tail \in Slots
  BY DEF QueueInv, LentIntact, QueueTypeOK
<1>2. ASSUME adding # <<>>
      PROVE  /\ Len(adding) = 1 /\ LastAdd \in Adds /\ AddInv(LastAdd, head, tail)
             /\ LastAdd.pc = "store" => LastAdd.next = After(tail)
  <2>1. LastAdd \in Adds /\ Len(adding) \in 1..Len(adding) /\ Len(adding) \in Nat
    BY <1>2, QueueTypes
  <2>2. Len(adding) <= 1
    BY DEF QueueInv, LentIntact
  <2>3. Len(adding) = 1
    <3>1. \A n \in Nat : n \in 1..n /\ n <= 1 => n = 1
      OBVIOUS
    <3> QED BY <2>1, <2>2, <3>1
  <2>4. AddInv(adding[1], head, tail) /\ (adding[1].pc = "store" => adding[1].next = After(tail))
    BY <1>1, <2>3 DEF QueueInv, AloneInv
  <2> QED BY <2>1, <2>3, <2>4 DEF LastAdd
<1>3. Count = Ahead(tail, head) /\ Count \in 0..(QueueMax - 1)
  BY <1>1, AheadIs DEF Count, Ahead
<1> QED BY <1>1, <1>2, <1>3

LEMMA WaitingSeq ==
  ASSUME QueueInv, ~nested
  PROVE  /\ Filled \in 0..(QueueMax - 1) /\ Filled <= Count
         /\ Waiting \in Seq(QueueItems \cup {NoItem}) /\ Len(Waiting) = Filled
         /\ \A i \in 1..Filled : Waiting[i] = ring[(head + i) % QueueMax]
         /\ \A i \in 1..Count : (head + i) % QueueMax \in Slots
<1>1. /\ head \in Slots /\ tail \in Slots
      /\ adding # <<>> => AddInv(LastAdd, head, tail)
      /\ Count = Ahead(tail, head) /\ Count \in 0..(QueueMax - 1)
  BY OneAdd
<1>2. Filled \in 0..(QueueMax - 1) /\ Filled <= Count
  <2>1. (adding # <<>> /\ LastAdd.pc = "copy") => Count # 0
    BY <1>1, AheadIs DEF AddInv
  <2> QED BY <1>1, <2>1, QueueAssumption DEF Filled
<1>3. ASSUME NEW i \in 1..Count PROVE (head + i) % QueueMax \in Slots
  <2>1. i \in 0..QueueMax
    BY <1>1, QueueAssumption
  <2> QED BY <1>1, <2>1, AcrossEnd
<1>4. \A i \in 1..Filled : ring[(head + i) % QueueMax] \in QueueItems \cup {NoItem}
  BY <1>1, <1>2, <1>3, QueueAssumption DEF QueueInv, LentIntact, QueueTypeOK
<1> QED BY <1>2, <1>3, <1>4 DEF Waiting

\* The store of tail shows no new item yet.
LEMMA StoreShowsNothing ==
  ASSUME QueueInv, ~nested, AddStore
  PROVE  Waiting' = Waiting
<1>1. /\ adding # <<>> /\ LastAdd.pc = "store" /\ tail' = LastAdd.next
      /\ adding' = [adding EXCEPT ![Len(adding)] = [LastAdd EXCEPT !.pc = "copy"]]
      /\ UNCHANGED <<ring, head>>
  BY DEF AddStore
<1>2. /\ head \in Slots /\ tail \in Slots /\ Len(adding) = 1 /\ LastAdd \in Adds
      /\ AddInv(LastAdd, head, tail) /\ Count = Ahead(tail, head)
  BY <1>1, OneAdd
<1>3. tail' = After(tail) /\ 1 <= Ahead(tail', head) /\ tail' \in Slots
  <2>1. tail' = After(tail)
    BY <1>1, OneAdd
  <2>2. LastAdd.next \in Slots /\ 1 <= Ahead(LastAdd.next, head)
    BY <1>1, <1>2 DEF AddInv, Adds
  <2> QED BY <1>1, <2>1, <2>2
<1>4. Ahead(tail', head) = Count + 1 /\ Count \in 0..(QueueMax - 1)
  <2>1. After(tail) # head
    BY <1>2, <1>3, AheadIs
  <2> QED BY <1>2, <1>3, <2>1, AheadAfter, AheadIs
<1>5. Count' = Count + 1
  BY <1>1, <1>4 DEF Count, Ahead
<1>6. adding' # <<>> /\ LastAdd'.pc = "copy"
  <2>1. [LastAdd EXCEPT !.pc = "copy"] \in Adds /\ [LastAdd EXCEPT !.pc = "copy"].pc = "copy"
    BY <1>2 DEF Adds
  <2>2. adding \in Seq(Adds)
    BY DEF QueueInv, LentIntact, QueueTypeOK
  <2>3. /\ adding' \in Seq(Adds) /\ Len(adding') = 1
        /\ adding'[1] = [LastAdd EXCEPT !.pc = "copy"]
    BY <1>1, <1>2, <2>1, <2>2, ExceptSeq
  <2>4. adding' # <<>>
    <3> SUFFICES ASSUME adding' = <<>> PROVE FALSE
      OBVIOUS
    <3>1. Len(adding') = 0
      OBVIOUS
    <3> QED BY <2>3, <3>1
  <2> QED BY <2>1, <2>3, <2>4 DEF LastAdd
<1>7. Filled = Count /\ Filled' = Count' - 1
  BY <1>1, <1>6 DEF Filled
<1>8. Filled' = Filled
  BY <1>4, <1>5, <1>7
<1> QED BY <1>1, <1>8 DEF Waiting

\* The copy adds the item behind those that wait.
LEMMA CopyAppends ==
  ASSUME QueueInv, ~nested, AddCopy
  PROVE  /\ LastAdd.x \in QueueItems /\ Waiting' = Append(Waiting, LastAdd.x)
         /\ Len(Waiting) < QueueMax - 1 /\ ring'[head'] = ring[head]
<1> DEFINE x == LastAdd.x
           W == [i \in 1..Count |-> ring'[(head + i) % QueueMax]]
<1>1. /\ adding # <<>> /\ LastAdd.pc = "copy" /\ ring' = [ring EXCEPT ![tail] = x]
      /\ adding' = SubSeq(adding, 1, Len(adding) - 1)
      /\ UNCHANGED <<head, tail>>
  BY DEF AddCopy
<1>2. /\ head \in Slots /\ tail \in Slots /\ Len(adding) = 1 /\ LastAdd \in Adds
      /\ AddInv(LastAdd, head, tail)
      /\ Count = Ahead(tail, head) /\ Count \in 0..(QueueMax - 1)
  BY <1>1, OneAdd
<1>3. tail # head /\ x \in QueueItems /\ Count # 0 /\ Filled = Count - 1
  BY <1>1, <1>2, AheadIs DEF AddInv, Adds, Filled
<1>4. adding' = <<>>
  BY <1>1, <1>2, SubSeqEmpty
<1>5. Filled' = Count
  BY <1>1, <1>4 DEF Filled, Count
<1>6. /\ Waiting \in Seq(QueueItems \cup {NoItem}) /\ Len(Waiting) = Count - 1
      /\ \A i \in 1..(Count - 1) : Waiting[i] = ring[(head + i) % QueueMax]
      /\ \A i \in 1..Count : (head + i) % QueueMax \in Slots
  BY <1>3, WaitingSeq
<1>7. Waiting' = W
  BY <1>1, <1>5 DEF Waiting
<1>8. ring \in [Slots -> QueueItems \cup {NoItem}]
  BY DEF QueueInv, LentIntact, QueueTypeOK
<1>9. ASSUME NEW i \in 1..Count
      PROVE  (head + i) % QueueMax = tail <=> i = Count
  <2>1. i \in 0..QueueMax /\ i \in 1..(QueueMax - 1)
    BY <1>2, QueueAssumption
  <2>2. (head + i) % QueueMax = IF head + i < QueueMax THEN head + i ELSE head + i - QueueMax
    BY <1>2, <2>1, AcrossEnd
  <2>3. Count = IF tail < head THEN tail - head + QueueMax ELSE tail - head
    BY <1>2, AheadIs
  <2> QED BY <1>2, <2>1, <2>2, <2>3, QueueAssumption DEF Slots
<1>10. ASSUME NEW i \in 1..Count PROVE W[i] = IF i = Count THEN x ELSE Waiting[i]
  <2>1. W[i] = IF i = Count THEN x ELSE ring[(head + i) % QueueMax]
    BY <1>1, <1>6, <1>8, <1>9
  <2> QED BY <1>2, <1>6, <2>1
<1>11. /\ Append(Waiting, x) \in Seq(QueueItems \cup {NoItem})
       /\ Len(Append(Waiting, x)) = Count
       /\ \A i \in 1..(Count - 1) : Append(Waiting, x)[i] = Waiting[i]
       /\ Append(Waiting, x)[Count] = x
  <2>1. x \in QueueItems \cup {NoItem}
    BY <1>3
  <2> HIDE DEF x
  <2>2. /\ Append(Waiting, x) \in Seq(QueueItems \cup {NoItem})
        /\ Len(Append(Waiting, x)) = Len(Waiting) + 1
        /\ \A i \in 1..Len(Waiting) : Append(Waiting, x)[i] = Waiting[i]
        /\ Append(Waiting, x)[Len(Waiting) + 1] = x
    BY <1>6, <2>1, AppendProperties
  <2>3. Len(Waiting) + 1 = Count
    BY <1>2, <1>6
  <2> QED BY <1>6, <2>2, <2>3
<1>12. \A i \in 1..Count : W[i] = Append(Waiting, x)[i]
  BY <1>2, <1>10, <1>11
<1>13. W \in Seq(QueueItems \cup {NoItem}) /\ Len(W) = Count
  <2>1. \A i \in 1..Count : ring'[(head + i) % QueueMax] \in QueueItems \cup {NoItem}
    BY <1>1, <1>3, <1>6, <1>8
  <2> QED BY <1>2, <2>1
<1>14. W = Append(Waiting, x)
  <2> HIDE DEF W, x
  <2> QED BY <1>11, <1>12, <1>13, SeqEqual
<1>15. ring'[head'] = ring[head]
  BY <1>1, <1>2, <1>3, <1>8
<1>16. Len(Waiting) < QueueMax - 1
  BY <1>2, <1>6, QueueAssumption
<1> QED BY <1>3, <1>7, <1>14, <1>15, <1>16

\* The item that is taken is the first that waits.
LEMMA AdvanceTakes ==
  ASSUME QueueInv, ~nested, DeleteAdvance
  PROVE  Waiting # <<>> /\ ring'[head'] = Head(Waiting) /\ Waiting' = Tail(Waiting)
<1>1. /\ adding = <<>> /\ adding' = <<>> /\ head' = After(head) /\ tail' = tail
      /\ ring' = ring /\ head # tail
  BY OneAdd DEF DeleteAdvance, QueueInv, LentIntact
<1>2. /\ head \in Slots /\ tail \in Slots /\ head' \in Slots
      /\ head' = IF head + 1 < QueueMax THEN head + 1 ELSE 0
      /\ Count = Ahead(tail, head)
  BY <1>1, OneAdd, AfterSlot
<1>3. /\ Count = IF tail < head THEN tail - head + QueueMax ELSE tail - head
      /\ Count' = IF tail < head' THEN tail - head' + QueueMax ELSE tail - head'
  <2>1. Count' = Ahead(tail, head')
    BY <1>1 DEF Count, Ahead
  <2> QED BY <1>2, <2>1, AheadIs
<1>4. Count' = Count - 1 /\ Count \in 1..(QueueMax - 1)
  BY <1>1, <1>2, <1>3, QueueAssumption DEF Slots
<1>5. Filled = Count /\ Filled' = Count - 1
  BY <1>1, <1>4 DEF Filled
<1>6. ASSUME NEW i \in 0..(Count - 1)
      PROVE  (head' + i) % QueueMax = (head + (i + 1)) % QueueMax
  <2>1. (head' + i) % QueueMax
          = IF head' + i < QueueMax THEN head' + i ELSE head' + i - QueueMax
    <3>1. i \in 0..QueueMax
      BY <1>4, QueueAssumption
    <3> QED BY <1>2, <3>1, AcrossEnd
  <2>2. (head + (i + 1)) % QueueMax
          = IF head + (i + 1) < QueueMax THEN head + (i + 1) ELSE head + (i + 1) - QueueMax
    <3>1. i + 1 \in 0..QueueMax
      BY <1>4, QueueAssumption
    <3> QED BY <1>2, <3>1, AcrossEnd
  <2> QED BY <1>2, <1>4, <2>1, <2>2, QueueAssumption DEF Slots
<1>7. /\ Waiting \in Seq(QueueItems \cup {NoItem}) /\ Len(Waiting) = Count
      /\ \A i \in 1..Count : Waiting[i] = ring[(head + i) % QueueMax]
  BY <1>5, WaitingSeq
<1>8. Waiting # <<>> /\ Head(Waiting) = ring[(head + 1) % QueueMax]
  <2>1. Len(Waiting) # 0 /\ 1 \in 1..Count
    BY <1>4, <1>7
  <2>2. Waiting # <<>>
    <3> SUFFICES ASSUME Waiting = <<>> PROVE FALSE
      OBVIOUS
    <3>1. Len(Waiting) = 0
      OBVIOUS
    <3> QED BY <2>1, <3>1
  <2>3. Head(Waiting) = Waiting[1]
    BY <1>7, <2>2, HeadTailProperties
  <2> QED BY <1>7, <2>1, <2>2, <2>3
<1>9. ring'[head'] = ring[(head + 1) % QueueMax]
  BY <1>1 DEF After
<1>10. Waiting' = [i \in 1..(Count - 1) |-> ring[(head' + i) % QueueMax]]
  BY <1>1, <1>5 DEF Waiting
<1>11. ASSUME NEW i \in 1..(Count - 1)
       PROVE  ring[(head' + i) % QueueMax] = Waiting[i + 1]
  BY <1>4, <1>6, <1>7
<1>12. \A i \in 1..(Count - 1) : ring[(head' + i) % QueueMax] \in QueueItems \cup {NoItem}
  BY <1>4, <1>7, <1>11, ElementOfSeq
<1>13. Waiting' \in Seq(QueueItems \cup {NoItem}) /\ Len(Waiting') = Count - 1
  BY <1>4, <1>10, <1>12
<1>14. /\ Tail(Waiting) \in Seq(QueueItems \cup {NoItem}) /\ Len(Tail(Waiting)) = Count - 1
       /\ \A i \in 1..(Count - 1) : Tail(Waiting)[i] = Waiting[i + 1]
  BY <1>7, <1>8, HeadTailProperties
<1>15. \A i \in 1..(Count - 1) : Waiting'[i] = Tail(Waiting)[i]
  BY <1>10, <1>11, <1>14
<1> QED BY <1>8, <1>9, <1>13, <1>14, <1>15, SeqEqual

\* A call that is refused finds as many items waiting as there is room for.
LEMMA FullCount ==
  ASSUME QueueInv, ~nested', AddRefuse
  PROVE  Len(Waiting) = QueueMax - 1
<1>1. adding = <<>> /\ After(tail) = head /\ ~nested
  BY DEF AddRefuse, QueueIsFull
<1>2. Count = QueueMax - 1
  BY <1>1, OneAdd, FullAhead
<1> QED BY <1>1, <1>2, WaitingSeq DEF Filled

\* Neither a call that finds room nor its load of tail shows anything.
LEMMA TestShowsNothing ==
  ASSUME QueueInv, ~nested', AddLoad \/ \E x \in QueueItems : AddTest(x)
  PROVE  Waiting' = Waiting
<1>0. ~nested
  BY DEF AddLoad, AddTest
<1>1. UNCHANGED <<ring, head, tail>>
  BY DEF AddLoad, AddTest
<1>2. Len(adding) \in Nat /\ adding \in Seq(Adds)
  BY QueueTypes DEF QueueTypeOK
<1>3. Filled = Count /\ Filled' = Count
  <2>1. CASE AddLoad
    <3>1. /\ LastAdd.pc = "load" /\ LastAdd \in Adds /\ Len(adding) = 1
          /\ tail \in Slots
          /\ adding' = [adding EXCEPT ![Len(adding)] =
                          [LastAdd EXCEPT !.pc = "store", !.next = After(tail)]]
      BY <1>0, <2>1, OneAdd DEF AddLoad
    <3>2. LastAdd'.pc = "store"
      <4>1. [LastAdd EXCEPT !.pc = "store", !.next = After(tail)] \in Adds
        BY <3>1, AfterSlot DEF Adds
      <4>2. [LastAdd EXCEPT !.pc = "store", !.next = After(tail)].pc = "store"
        BY <3>1 DEF Adds
      <4> QED BY <1>2, <3>1, <4>1, <4>2, ExceptSeq DEF LastAdd
    <3> QED BY <1>1, <3>1, <3>2 DEF Filled, Count
  <2>2. CASE \E x \in QueueItems : AddTest(x)
    <3>1. PICK x \in QueueItems : AddTest(x)
      BY <2>2
    <3>3. adding = <<>>
      BY <3>1 DEF AddTest
    <3>4. LastAdd'.pc = "load"
      <4> DEFINE a == [pc |-> "load", x |-> x, next |-> 0, claims |-> Claims]
      <4>1. adding' = Append(adding, a) /\ a.pc = "load"
        BY <3>1 DEF AddTest
      <4>2. 0 \in Slots /\ Claims \in Nat
        BY <3>3, QueueAssumption DEF Slots, Claims
      <4>3. a \in Adds
        BY <4>2 DEF Adds
      <4> HIDE DEF a
      <4>4. Len(adding') = Len(adding) + 1 /\ adding'[Len(adding) + 1] = a
        BY <1>2, <4>1, <4>3, AppendProperties
      <4> QED BY <4>1, <4>4 DEF LastAdd
    <3> QED BY <1>1, <3>3, <3>4 DEF Filled, Count
  <2> QED BY <2>1, <2>2
<1> QED BY <1>1, <1>3 DEF Waiting

LEMMA StepRefines ==
  ASSUME QueueInv, ~nested', [QueueNext]_queueVars
  PROVE  [Queue!Next]_(Queue!queueVars)
<1>0. ~nested
  BY DEF QueueNext, queueVars, AddRefuse, AddTest, AddLoad, AddStore, AddCopy, DeleteTest,
         DeleteAdvance
<1>1. CASE AddRefuse
  <2>1. UNCHANGED <<ring, head, tail, adding>> /\ eMax' = TRUE
    BY <1>1 DEF AddRefuse
  <2>2. Waiting' = Waiting
    BY <2>1 DEF Waiting, Filled, Count, LastAdd
  <2> QED BY <1>1, <2>1, <2>2, FullCount DEF Queue!Next, Queue!Refuse
<1>2. CASE AddLoad \/ \E x \in QueueItems : AddTest(x)
  <2>1. UNCHANGED <<ring, head, eMax>>
    BY <1>2 DEF AddLoad, AddTest
  <2> QED BY <1>2, <2>1, TestShowsNothing DEF Queue!queueVars
<1>3. CASE AddStore
  <2>1. UNCHANGED <<ring, head, eMax>>
    BY <1>3 DEF AddStore
  <2> QED BY <1>0, <1>3, <2>1, StoreShowsNothing DEF Queue!queueVars
<1>4. CASE AddCopy
  <2>1. eMax' = FALSE
    BY <1>4 DEF AddCopy
  <2> QED BY <1>0, <1>4, <2>1, CopyAppends DEF Queue!Next, Queue!Add
<1>5. CASE DeleteTest
  BY <1>5 DEF DeleteTest, Queue!queueVars, Waiting, Filled, Count, LastAdd
<1>6. CASE DeleteAdvance
  <2>1. eMax' = eMax
    BY <1>6 DEF DeleteAdvance
  <2> QED BY <1>0, <1>6, <2>1, AdvanceTakes DEF Queue!Next, Queue!Take
<1>7. CASE UNCHANGED queueVars
  BY <1>7 DEF queueVars, Queue!queueVars, Waiting, Filled, Count, LastAdd
<1> QED BY <1>1, <1>2, <1>3, <1>4, <1>5, <1>6, <1>7 DEF QueueNext

LEMMA InitRefines == QueueInit => Queue!Init
<1> SUFFICES ASSUME QueueInit PROVE Queue!Init
  OBVIOUS
<1>1. 0 \in Slots /\ head = 0 /\ tail = 0 /\ adding = <<>>
  BY QueueAssumption DEF QueueInit, Slots
<1>2. Filled = 0
  BY <1>1, AheadIs DEF Filled, Count, Ahead
<1>3. Waiting = <<>>
  BY <1>2 DEF Waiting
<1> QED BY <1>1, <1>3 DEF QueueInit, Queue!Init

\* Until a call of round_queue_add preempts another one, it and round_queue_delete are a
\* first-in first-out queue of one item less than there are slots, for every number of
\* slots, although the new tail is stored before the item is there.
THEOREM QueueRefines == QueueSpec => RefinesQueue
<1>1. QueueInit => Queue!Init
  BY InitRefines
<1>2. QueueInv /\ [QueueNext]_queueVars => [~nested' => Queue!Next]_(Queue!queueVars)
  BY StepRefines
<1> QED BY <1>1, <1>2, QueueInvariance, PTL DEF QueueSpec, RefinesQueue

-----------------------------------------------------------------------------
(***************************************************************************)
(* stack_array_add counts items it has no room for                         *)
(* (lib/include/stack_array.h); what was added with success stays in its   *)
(* place for every size of the array and any number of failed calls.       *)
(***************************************************************************)

LEMMA KeptInit == StackInit => ItemsKept
<1> SUFFICES ASSUME StackInit PROVE ItemsKept
  OBVIOUS
<1>1. /\ counted = 0 /\ kept = <<>> /\ kept \in Seq(StackItems) /\ Len(kept) = 0
  BY EmptySeq DEF StackInit
<1>2. places \in [0..(StackMax - 1) -> StackItems \cup {NoEntry}]
  BY DEF StackInit
<1> QED BY <1>1, <1>2, StackAssumption DEF ItemsKept, StackTypeOK

LEMMA AddKeeps ==
  ASSUME ItemsKept, NEW x \in StackItems, StackArrayAdd(x)
  PROVE  ItemsKept'
<1> USE DEF ItemsKept, StackTypeOK
<1>1. counted' = counted + 1 /\ counted' \in 0..MaxCount /\ Len(kept) \in Nat
  BY StackAssumption, LenProperties DEF StackArrayAdd
<1>2. CASE StackRoom
  <2>1. counted = Len(kept) /\ counted + 1 < StackMax
    BY <1>1, <1>2, StackAssumption DEF StackRoom
  <2>2. places' = [places EXCEPT ![counted] = x] /\ kept' = Append(kept, x)
    BY <1>2 DEF StackArrayAdd
  <2>3. /\ kept' \in Seq(StackItems) /\ Len(kept') = Len(kept) + 1
        /\ \A i \in 1..Len(kept) : kept'[i] = kept[i]
        /\ kept'[Len(kept) + 1] = x
    BY <2>2, AppendProperties
  <2>4. counted \in 0..(StackMax - 1)
    BY <1>1, <2>1, StackAssumption
  <2>5. /\ places' \in [0..(StackMax - 1) -> StackItems \cup {NoEntry}]
        /\ places'[counted] = x
        /\ \A j \in 0..(StackMax - 1) : j # counted => places'[j] = places[j]
    BY <2>2, <2>4
  <2>6. ASSUME NEW i \in 1..Len(kept') PROVE places'[i - 1] = kept'[i]
    <3>1. CASE i = Len(kept) + 1
      BY <1>1, <2>1, <2>3, <2>5, <3>1
    <3>2. CASE i # Len(kept) + 1
      <4>1. i \in 1..Len(kept) /\ i - 1 \in 0..(StackMax - 1) /\ i - 1 # counted
        BY <1>1, <2>1, <2>3, <3>2, StackAssumption
      <4> QED BY <2>3, <2>5, <4>1
    <3> QED BY <3>1, <3>2
  <2> QED BY <1>1, <2>1, <2>3, <2>5, <2>6, StackAssumption
<1>3. CASE ~StackRoom
  <2>1. UNCHANGED <<places, kept>> /\ counted + 1 >= StackMax
    BY <1>1, <1>3, StackAssumption DEF StackArrayAdd, StackRoom
  <2>2. Len(kept) = StackMax - 1
    BY <1>1, <2>1, StackAssumption
  <2> QED BY <1>1, <2>1, <2>2, StackAssumption
<1> QED BY <1>2, <1>3

LEMMA DeleteKeeps ==
  ASSUME ItemsKept, StackArrayDelete
  PROVE  ItemsKept'
<1> USE DEF ItemsKept, StackTypeOK
<1>1. /\ counted' = counted - 1 /\ counted' \in 0..MaxCount /\ Len(kept) \in Nat
      /\ places' = places
  BY StackAssumption, LenProperties DEF StackArrayDelete
<1>2. CASE counted > Len(kept)
  <2>1. kept' = kept
    BY <1>2 DEF StackArrayDelete
  <2> QED BY <1>1, <1>2, <2>1, StackAssumption
<1>3. CASE ~(counted > Len(kept))
  <2>1. counted = Len(kept) /\ counted > 0
    BY <1>1, <1>3, StackAssumption DEF StackArrayDelete
  <2>2. kept' = SubSeq(kept, 1, Len(kept) - 1)
    BY <1>3 DEF StackArrayDelete
  <2>3. \A i \in 1..(Len(kept) - 1) : kept[i] \in StackItems
    BY <1>1, ElementOfSeq
  <2>4. /\ kept' \in Seq(StackItems) /\ Len(kept') = Len(kept) - 1
        /\ \A i \in 1..(Len(kept) - 1) : kept'[i] = kept[i]
    BY <1>1, <2>1, <2>2, <2>3, SubSeqProperties
  <2> QED BY <1>1, <2>1, <2>4, StackAssumption
<1> QED BY <1>2, <1>3

LEMMA KeptStep == ItemsKept /\ [StackNext]_stackVars => ItemsKept'
<1> SUFFICES ASSUME ItemsKept, [StackNext]_stackVars PROVE ItemsKept'
  OBVIOUS
<1>1. ASSUME NEW x \in StackItems, StackArrayAdd(x) PROVE ItemsKept'
  BY <1>1, AddKeeps
<1>2. CASE StackArrayDelete
  BY <1>2, DeleteKeeps
<1>3. CASE UNCHANGED stackVars
  BY <1>3 DEF stackVars, ItemsKept, StackTypeOK
<1> QED BY <1>1, <1>2, <1>3 DEF StackNext

\* For every size of the array and every number of failed calls, the items that
\* stack_array_add accepted stay in their places and in their order, and what it counted
\* in vain is deleted before any of them (lib/include/stack_array.h).
THEOREM StackKept == StackSpec => []ItemsKept
<1> QED BY KeptInit, KeptStep, PTL DEF StackSpec

(***************************************************************************)
(* The atomic data of lib/include/atomic.h: the context that drops the     *)
(* last share learns of it, for any number of contexts that preempt one    *)
(* another anywhere, as long as the count has room for their shares.       *)
(***************************************************************************)

Steps == {"new", "raise", "take", "give", "lower", "drop", "read", "end", "ended"}

\* The contexts that have their own share, and those that have taken another one
Holders == {c \in Contexts : ~Dropped(c)}
Takers == {c \in Contexts : step[c] = "give"}

\* The value is the number of shares that are held; who is told that it is zero was
\* told so when nobody held one, and the last to drop a share has been told or is about
\* to read.
AtomicInv ==
  /\ AtomicTypeOK /\ step \in [Contexts -> Steps]
  /\ shares = Cardinality(Holders) + Cardinality(Takers)
  /\ \A c \in Contexts :
       /\ ret[c] = 0 => Holders = {}
       /\ ret[c] # None => step[c] \in {"end", "ended"}
       /\ step[c] \in {"take", "give", "lower"} => c \in flags
  /\ Holders = {} => \E c \in Contexts : step[c] = "read" \/ ret[c] = 0

\* Sets of contexts can be counted, and the count has room for them.
LEMMA ContextsFinite ==
  /\ \A S \in SUBSET Contexts :
       IsFiniteSet(S) /\ Cardinality(S) \in Nat /\ 2 * Cardinality(S) < 2^Width
<1>1. IsFiniteSet(Contexts)
  <2>1. 0 \in Int /\ Width - 1 \in Int /\ Contexts \in SUBSET (0..(Width - 1))
    BY AtomicAssumption
  <2>2. IsFiniteSet(0..(Width - 1))
    BY <2>1, FS_Interval
  <2> QED BY <2>1, <2>2, FS_Subset
<1> SUFFICES ASSUME NEW S \in SUBSET Contexts
             PROVE  IsFiniteSet(S) /\ Cardinality(S) \in Nat /\ 2 * Cardinality(S) < 2^Width
  OBVIOUS
<1>2. IsFiniteSet(S) /\ Cardinality(S) <= Cardinality(Contexts)
  BY <1>1, FS_Subset
<1>3. Cardinality(S) \in Nat /\ Cardinality(Contexts) \in Nat
  BY <1>1, <1>2, FS_CardinalityType
<1> QED BY <1>2, <1>3, SharesAssumption

LEMMA AtomicInitInv == AtomicInit => AtomicInv
<1> SUFFICES ASSUME AtomicInit PROVE AtomicInv
  OBVIOUS
<1>1. /\ shares = Cardinality(Contexts) /\ flags = {} /\ preempts = <<>>
      /\ step = [c \in Contexts |-> "new"]
      /\ ret = [c \in Contexts |-> None] /\ own = [c \in Contexts |-> None]
  BY DEF AtomicInit
<1>2. Holders = Contexts /\ Takers = {}
  BY <1>1 DEF Holders, Takers, Dropped
<1>3. shares \in 0..(2^Width - 1) /\ shares = Cardinality(Holders) + Cardinality(Takers)
  <2>1. Cardinality(Contexts) \in Nat /\ 2 * Cardinality(Contexts) < 2^Width
    BY ContextsFinite
  <2>2. Cardinality({}) = 0
    BY FS_EmptySet
  <2> QED BY <1>1, <1>2, <2>1, <2>2, SharesAssumption
<1>4. AtomicTypeOK
  BY <1>1, <1>3, EmptySeq DEF AtomicTypeOK
<1>5. step \in [Contexts -> Steps] /\ \A c \in Contexts : step[c] = "new" /\ ret[c] = None
  BY <1>1 DEF Steps
<1> QED BY <1>2, <1>3, <1>4, <1>5, SharesAssumption DEF AtomicInv, None

\* A step of c from one place to another, of which both or neither come before it has
\* dropped its share: only the number of takers may change.
LEMMA AdvanceKeeps ==
  ASSUME AtomicInv, NEW c \in Contexts, NEW from \in Steps, NEW to \in Steps,
         step[c] = from, step' = [step EXCEPT ![c] = to]
  PROVE  /\ step' \in [Contexts -> Steps] /\ step'[c] = to
         /\ \A d \in Contexts : d # c => step'[d] = step[d]
         /\ Takers' = IF to = "give" THEN Takers \cup {c} ELSE Takers \ {c}
         /\ Holders' = IF to \in {"read", "end", "ended"} THEN Holders \ {c}
                                                          ELSE Holders \cup {c}
         /\ c \in Takers <=> from = "give"
         /\ c \in Holders <=> from \notin {"read", "end", "ended"}
<1>1. step \in [Contexts -> Steps]
  BY DEF AtomicInv
<1>2. step'[c] = to /\ \A d \in Contexts : d # c => step'[d] = step[d]
  BY <1>1
<1>3. step' \in [Contexts -> Steps]
  BY <1>1
<1>4. Takers' = IF to = "give" THEN Takers \cup {c} ELSE Takers \ {c}
  BY <1>2 DEF Takers
<1>5. Holders' = IF to \in {"read", "end", "ended"} THEN Holders \ {c} ELSE Holders \cup {c}
  BY <1>2 DEF Holders, Dropped
<1>6. (c \in Takers <=> from = "give") /\ (c \in Holders <=> from \notin {"read", "end", "ended"})
  BY DEF Takers, Holders, Dropped
<1> QED BY <1>2, <1>3, <1>4, <1>5, <1>6

\* The counts after c has joined or left a set of contexts.
LEMMA CountChange ==
  ASSUME NEW S \in SUBSET Contexts, NEW c \in Contexts
  PROVE  /\ Cardinality(S) \in Nat /\ 2 * Cardinality(S) < 2^Width
         /\ Cardinality(S \cup {c}) = IF c \in S THEN Cardinality(S) ELSE Cardinality(S) + 1
         /\ Cardinality(S \ {c}) = IF c \in S THEN Cardinality(S) - 1 ELSE Cardinality(S)
  BY ContextsFinite, FS_AddElement, FS_RemoveElement

\* A value within the width of the counter is what the addition computes.
LEMMA NoWrap ==
  ASSUME NEW n \in -1..1, Add(n), shares \in Nat, shares + n \in 0..(2^Width - 1)
  PROVE  shares' = shares + n
<1> DEFINE M == 2^Width
<1>1. M \in Nat /\ shares + n \in 0..(M - 1)
  BY SharesAssumption
<1>2. shares' = (shares + n) % M
  BY DEF Add
<1> HIDE DEF M
<1> QED BY <1>1, <1>2

\* Steps of a context that keeps or has dropped its share, and takes no other one.
LEMMA QuietKeeps ==
  ASSUME AtomicInv, NEW c \in Contexts, NEW from \in Steps, NEW to \in Steps,
         step[c] = from, step' = [step EXCEPT ![c] = to],
         from # "give", to # "give", from # "read",
         from \in {"end", "ended"} <=> to \in {"end", "ended"}, to # "read",
         UNCHANGED <<shares, ret, own>>,
         flags' \subseteq Contexts, flags \ {c} = flags' \ {c},
         to \in {"take", "lower"} => c \in flags',
         preempts' \in Seq(Contexts)
  PROVE  AtomicInv'
<1>1. /\ step' \in [Contexts -> Steps] /\ step'[c] = to
      /\ \A d \in Contexts : d # c => step'[d] = step[d]
      /\ Takers' = Takers /\ Holders' = Holders
  <2>1. /\ step' \in [Contexts -> Steps] /\ step'[c] = to
        /\ \A d \in Contexts : d # c => step'[d] = step[d]
        /\ Takers' = Takers \ {c} /\ c \notin Takers
        /\ Holders' = IF to \in {"read", "end", "ended"} THEN Holders \ {c} ELSE Holders \cup {c}
        /\ c \in Holders <=> from \notin {"read", "end", "ended"}
    BY AdvanceKeeps
  <2>2. Takers' = Takers
    BY <2>1
  <2>3. from \in {"read", "end", "ended"} <=> to \in {"read", "end", "ended"}
    OBVIOUS
  <2>4. Holders' = Holders
    BY <2>1, <2>3
  <2> QED BY <2>1, <2>2, <2>4
<1>2. AtomicTypeOK'
  BY DEF AtomicInv, AtomicTypeOK
<1>3. shares' = Cardinality(Holders') + Cardinality(Takers')
  BY <1>1 DEF AtomicInv
<1>4. ASSUME NEW d \in Contexts
      PROVE  /\ ret'[d] = 0 => Holders' = {}
             /\ ret'[d] # None => step'[d] \in {"end", "ended"}
             /\ step'[d] \in {"take", "give", "lower"} => d \in flags'
  BY <1>1 DEF AtomicInv
<1>5. Holders' = {} => \E d \in Contexts : step'[d] = "read" \/ ret'[d] = 0
  BY <1>1 DEF AtomicInv
<1> QED BY <1>1, <1>2, <1>3, <1>4, <1>5 DEF AtomicInv

LEMMA AtomicBeginKeeps ==
  ASSUME AtomicInv, NEW c \in Contexts, AtomicBegin(c)
  PROVE  AtomicInv'
<1>1. /\ step[c] = "new" /\ step' = [step EXCEPT ![c] = "raise"]
      /\ UNCHANGED <<shares, flags, ret, own>> /\ preempts' = Append(preempts, c)
  BY DEF AtomicBegin
<1>2. preempts' \in Seq(Contexts) /\ flags' \subseteq Contexts
  BY <1>1, AppendProperties DEF AtomicInv, AtomicTypeOK
<1>3. "new" \in Steps /\ "raise" \in Steps
  BY DEF Steps
<1> QED BY <1>1, <1>2, <1>3, QuietKeeps

\* Raising the flag, lowering it, and the return to what was preempted.
LEMMA AtomicFlagKeeps ==
  ASSUME AtomicInv, NEW c \in Contexts, AtomicSetBit(c) \/ AtomicClearBit(c)
  PROVE  AtomicInv'
<1>1. preempts' \in Seq(Contexts) /\ flags \subseteq Contexts
  BY DEF AtomicSetBit, AtomicClearBit, AtomicInv, AtomicTypeOK
<1>2. CASE AtomicSetBit(c)
  <2>1. /\ step[c] = "raise" /\ step' = [step EXCEPT ![c] = "take"]
        /\ UNCHANGED <<shares, ret, own>> /\ flags' = flags \cup {c}
    BY <1>2 DEF AtomicSetBit, Advance
  <2>2. "raise" \in Steps /\ "take" \in Steps /\ flags' \subseteq Contexts
        /\ flags \ {c} = flags' \ {c}
    BY <1>1, <2>1 DEF Steps
  <2> QED BY <1>1, <2>1, <2>2, QuietKeeps
<1>3. CASE AtomicClearBit(c)
  <2>1. /\ step[c] = "lower" /\ step' = [step EXCEPT ![c] = "drop"]
        /\ UNCHANGED <<shares, ret, own>> /\ flags' = flags \ {c}
    BY <1>3 DEF AtomicClearBit, Advance
  <2>2. "lower" \in Steps /\ "drop" \in Steps /\ flags' \subseteq Contexts
        /\ flags \ {c} = flags' \ {c}
    BY <1>1, <2>1 DEF Steps
  <2> QED BY <1>1, <2>1, <2>2, QuietKeeps
<1> QED BY <1>2, <1>3

LEMMA AtomicEndKeeps ==
  ASSUME AtomicInv, NEW c \in Contexts, AtomicEnd(c)
  PROVE  AtomicInv'
<1>1. /\ step[c] = "end" /\ step' = [step EXCEPT ![c] = "ended"]
      /\ UNCHANGED <<shares, flags, ret, own>> /\ preempts # <<>>
      /\ preempts' = SubSeq(preempts, 1, Len(preempts) - 1)
  BY DEF AtomicEnd, Advance
<1>2. preempts \in Seq(Contexts) /\ flags' \subseteq Contexts
  BY <1>1 DEF AtomicInv, AtomicTypeOK
<1>3. preempts' \in Seq(Contexts)
  <2>1. Len(preempts) \in Nat /\ Len(preempts) # 0
    BY <1>1, <1>2, EmptySeq, LenProperties
  <2>2. \A i \in 1..(Len(preempts) - 1) : preempts[i] \in Contexts
    BY <1>2, <2>1, ElementOfSeq
  <2> QED BY <1>1, <1>2, <2>1, <2>2, SubSeqProperties
<1>4. "end" \in Steps /\ "ended" \in Steps
  BY DEF Steps
<1> QED BY <1>1, <1>2, <1>3, <1>4, QuietKeeps

LEMMA AtomicIncKeeps ==
  ASSUME AtomicInv, NEW c \in Contexts, AtomicInc(c)
  PROVE  AtomicInv'
<1>1. /\ step[c] = "take" /\ step' = [step EXCEPT ![c] = "give"] /\ Add(1)
      /\ UNCHANGED <<flags, preempts, ret, own>>
  BY DEF AtomicInc, Advance
<1>2. "take" \in Steps /\ "give" \in Steps
  BY DEF Steps
<1>3. /\ step' \in [Contexts -> Steps] /\ step'[c] = "give"
      /\ \A d \in Contexts : d # c => step'[d] = step[d]
      /\ Takers' = Takers \cup {c} /\ c \notin Takers
      /\ Holders' = Holders \cup {c} /\ c \in Holders
  BY <1>1, <1>2, AdvanceKeeps
<1>4. Holders' = Holders /\ Holders \in SUBSET Contexts /\ Takers \in SUBSET Contexts
      /\ Takers' \in SUBSET Contexts
  BY <1>3 DEF Holders, Takers
<1>5. /\ Cardinality(Takers') = Cardinality(Takers) + 1
      /\ Cardinality(Takers) \in Nat /\ Cardinality(Holders) \in Nat
      /\ 2 * Cardinality(Takers') < 2^Width /\ 2 * Cardinality(Holders) < 2^Width
  BY <1>3, <1>4, CountChange, ContextsFinite
<1>6. shares = Cardinality(Holders) + Cardinality(Takers)
  BY DEF AtomicInv
<1>7. shares' = shares + 1 /\ shares' \in 0..(2^Width - 1)
  <2>1. shares \in Nat /\ shares + 1 \in 0..(2^Width - 1)
    BY <1>5, <1>6, SharesAssumption
  <2> QED BY <1>1, <2>1, NoWrap
<1>8. shares' = Cardinality(Holders') + Cardinality(Takers')
  BY <1>4, <1>5, <1>6, <1>7
<1>9. AtomicTypeOK'
  BY <1>1, <1>7 DEF AtomicInv, AtomicTypeOK
<1>10. ASSUME NEW d \in Contexts
       PROVE  /\ ret'[d] = 0 => Holders' = {}
              /\ ret'[d] # None => step'[d] \in {"end", "ended"}
              /\ step'[d] \in {"take", "give", "lower"} => d \in flags'
  BY <1>1, <1>3, <1>4 DEF AtomicInv
<1> QED BY <1>3, <1>4, <1>8, <1>9, <1>10 DEF AtomicInv

LEMMA AtomicDecKeeps ==
  ASSUME AtomicInv, NEW c \in Contexts, AtomicDec(c)
  PROVE  AtomicInv'
<1>1. /\ step[c] = "give" /\ step' = [step EXCEPT ![c] = "lower"] /\ Add(-1)
      /\ UNCHANGED <<flags, preempts, ret, own>>
  BY DEF AtomicDec, Advance
<1>2. "give" \in Steps /\ "lower" \in Steps
  BY DEF Steps
<1>3. /\ step' \in [Contexts -> Steps] /\ step'[c] = "lower"
      /\ \A d \in Contexts : d # c => step'[d] = step[d]
      /\ Takers' = Takers \ {c} /\ c \in Takers
      /\ Holders' = Holders \cup {c} /\ c \in Holders
  BY <1>1, <1>2, AdvanceKeeps
<1>4. Holders' = Holders /\ Holders \in SUBSET Contexts /\ Takers \in SUBSET Contexts
  BY <1>3 DEF Holders, Takers
<1>5. /\ Cardinality(Takers') = Cardinality(Takers) - 1
      /\ Cardinality(Takers) \in Nat /\ Cardinality(Holders) \in Nat
      /\ 2 * Cardinality(Takers) < 2^Width /\ 2 * Cardinality(Holders) < 2^Width
  BY <1>3, <1>4, CountChange
<1>6. Cardinality(Takers) >= 1
  BY <1>3, <1>4, <1>5, ContextsFinite, FS_EmptySet
<1>7. shares = Cardinality(Holders) + Cardinality(Takers)
  BY DEF AtomicInv
<1>8. shares' = shares - 1 /\ shares' \in 0..(2^Width - 1)
  <2>1. shares \in Nat /\ shares + (-1) \in 0..(2^Width - 1)
    BY <1>5, <1>6, <1>7, SharesAssumption
  <2> QED BY <1>1, <2>1, NoWrap
<1>9. shares' = Cardinality(Holders') + Cardinality(Takers')
  BY <1>4, <1>5, <1>7, <1>8
<1>10. AtomicTypeOK'
  BY <1>1, <1>8 DEF AtomicInv, AtomicTypeOK
<1>11. ASSUME NEW d \in Contexts
       PROVE  /\ ret'[d] = 0 => Holders' = {}
              /\ ret'[d] # None => step'[d] \in {"end", "ended"}
              /\ step'[d] \in {"take", "give", "lower"} => d \in flags'
  BY <1>1, <1>3, <1>4 DEF AtomicInv
<1> QED BY <1>3, <1>4, <1>9, <1>10, <1>11 DEF AtomicInv

\* The first half of atomic_dec_ret: whoever drops the last share is about to read.
LEMMA AtomicDecRetKeeps ==
  ASSUME AtomicInv, NEW c \in Contexts, AtomicDecRet(c)
  PROVE  AtomicInv'
<1>1. /\ step[c] = "drop" /\ step' = [step EXCEPT ![c] = "read"] /\ Add(-1)
      /\ UNCHANGED <<flags, preempts, ret>> /\ own' = [own EXCEPT ![c] = shares']
  BY DEF AtomicDecRet, Advance
<1>2. "drop" \in Steps /\ "read" \in Steps
  BY DEF Steps
<1>3. /\ step' \in [Contexts -> Steps] /\ step'[c] = "read"
      /\ \A d \in Contexts : d # c => step'[d] = step[d]
      /\ Takers' = Takers \ {c} /\ c \notin Takers
      /\ Holders' = Holders \ {c} /\ c \in Holders
  BY <1>1, <1>2, AdvanceKeeps
<1>4. Takers' = Takers /\ Holders \in SUBSET Contexts /\ Takers \in SUBSET Contexts
  BY <1>3 DEF Holders, Takers
<1>5. /\ Cardinality(Holders') = Cardinality(Holders) - 1
      /\ Cardinality(Takers) \in Nat /\ Cardinality(Holders) \in Nat
      /\ 2 * Cardinality(Takers) < 2^Width /\ 2 * Cardinality(Holders) < 2^Width
  BY <1>3, <1>4, CountChange
<1>6. Cardinality(Holders) >= 1
  BY <1>3, <1>4, <1>5, ContextsFinite, FS_EmptySet
<1>7. shares = Cardinality(Holders) + Cardinality(Takers)
  BY DEF AtomicInv
<1>8. shares' = shares - 1 /\ shares' \in 0..(2^Width - 1)
  <2>1. shares \in Nat /\ shares + (-1) \in 0..(2^Width - 1)
    BY <1>5, <1>6, <1>7, SharesAssumption
  <2> QED BY <1>1, <2>1, NoWrap
<1>9. shares' = Cardinality(Holders') + Cardinality(Takers')
  BY <1>4, <1>5, <1>7, <1>8
<1>10. AtomicTypeOK'
  BY <1>1, <1>8 DEF AtomicInv, AtomicTypeOK
<1>11. ASSUME NEW d \in Contexts
       PROVE  /\ ret'[d] = 0 => Holders' = {}
              /\ ret'[d] # None => step'[d] \in {"end", "ended"}
              /\ step'[d] \in {"take", "give", "lower"} => d \in flags'
  BY <1>1, <1>3 DEF AtomicInv
<1> QED BY <1>3, <1>9, <1>10, <1>11 DEF AtomicInv

\* The second half: it returns zero exactly when nobody holds a share any more, although
\* the value may have changed since the first half.
LEMMA AtomicReadKeeps ==
  ASSUME AtomicInv, NEW c \in Contexts, AtomicRead(c)
  PROVE  AtomicInv'
<1>1. /\ step[c] = "read" /\ step' = [step EXCEPT ![c] = "end"]
      /\ UNCHANGED <<shares, flags, preempts, own>> /\ ret' = [ret EXCEPT ![c] = shares]
  BY DEF AtomicRead, Advance
<1>2. "read" \in Steps /\ "end" \in Steps
  BY DEF Steps
<1>3. /\ step' \in [Contexts -> Steps] /\ step'[c] = "end"
      /\ \A d \in Contexts : d # c => step'[d] = step[d]
      /\ Takers' = Takers \ {c} /\ c \notin Takers
      /\ Holders' = Holders \ {c} /\ c \notin Holders
  BY <1>1, <1>2, AdvanceKeeps
<1>4. Takers' = Takers /\ Holders' = Holders
      /\ Holders \in SUBSET Contexts /\ Takers \in SUBSET Contexts
  BY <1>3 DEF Holders, Takers
<1>5. shares' = Cardinality(Holders') + Cardinality(Takers')
  BY <1>1, <1>4 DEF AtomicInv
<1>6. shares = 0 <=> Holders = {}
  <2>1. /\ Cardinality(Holders) \in Nat /\ Cardinality(Takers) \in Nat
        /\ IsFiniteSet(Holders) /\ IsFiniteSet(Takers)
    BY <1>4, ContextsFinite
  <2>2. shares = Cardinality(Holders) + Cardinality(Takers)
    BY DEF AtomicInv
  <2>3. Takers \subseteq Holders
    BY DEF Takers, Holders, Dropped
  <2>4. (Cardinality(Holders) = 0 <=> Holders = {}) /\ (Holders = {} => Cardinality(Takers) = 0)
    BY <2>1, <2>3, FS_EmptySet
  <2> QED BY <2>1, <2>2, <2>4
<1>7. /\ ret'[c] = shares /\ shares # None
      /\ \A d \in Contexts : d # c => ret'[d] = ret[d]
  BY <1>1, SharesAssumption DEF AtomicInv, AtomicTypeOK, None
<1>8. AtomicTypeOK'
  BY <1>1 DEF AtomicInv, AtomicTypeOK
<1>9. ASSUME NEW d \in Contexts
      PROVE  /\ ret'[d] = 0 => Holders' = {}
             /\ ret'[d] # None => step'[d] \in {"end", "ended"}
             /\ step'[d] \in {"take", "give", "lower"} => d \in flags'
  BY <1>1, <1>3, <1>4, <1>6, <1>7 DEF AtomicInv
<1>10. Holders' = {} => \E d \in Contexts : step'[d] = "read" \/ ret'[d] = 0
  BY <1>4, <1>6, <1>7
<1> QED BY <1>3, <1>5, <1>8, <1>9, <1>10 DEF AtomicInv

LEMMA AtomicStep == AtomicInv /\ [AtomicNext]_atomicVars => AtomicInv'
<1> SUFFICES ASSUME AtomicInv, [AtomicNext]_atomicVars PROVE AtomicInv'
  OBVIOUS
<1>1. CASE UNCHANGED atomicVars
  BY <1>1 DEF atomicVars, AtomicInv, AtomicTypeOK, Holders, Takers, Dropped
<1>2. CASE AtomicNext
  BY <1>2, AtomicBeginKeeps, AtomicFlagKeeps, AtomicIncKeeps, AtomicDecKeeps,
     AtomicDecRetKeeps, AtomicReadKeeps, AtomicEndKeeps DEF AtomicNext
<1> QED BY <1>1, <1>2

\* Of the contexts that drop their shares with atomic_dec_ret one at least is told that the
\* count is zero, and only when nobody holds a share (lib/include/atomic.h), for any number of
\* contexts whose shares the count has room for and however they preempt one another.
THEOREM LastShareTold == AtomicSpec => []LastShareSeen
<1>1. AtomicInv => LastShareSeen
  <2> SUFFICES ASSUME AtomicInv PROVE LastShareSeen
    OBVIOUS
  <2>1. ASSUME NEW c \in Contexts, ret[c] = 0
        PROVE  shares = 0 /\ \A d \in Contexts : Dropped(d)
    <3>1. Holders = {} /\ shares = Cardinality(Holders) + Cardinality(Takers)
      BY <2>1 DEF AtomicInv
    <3>2. Takers = {}
      BY <3>1 DEF Takers, Holders, Dropped
    <3>3. Cardinality({}) = 0
      BY FS_EmptySet
    <3> QED BY <3>1, <3>2, <3>3 DEF Holders
  <2>2. (\A c \in Contexts : step[c] = "ended") => \E c \in Contexts : ret[c] = 0
    <3> SUFFICES ASSUME \A c \in Contexts : step[c] = "ended"
                 PROVE  \E c \in Contexts : ret[c] = 0
      OBVIOUS
    <3>1. Holders = {}
      BY DEF Holders, Dropped
    <3> QED BY <3>1 DEF AtomicInv
  <2>3. ASSUME NEW c \in Contexts, step[c] \in {"take", "give", "lower"}
        PROVE  c \in flags /\ AtomicTestBit(c)
    BY <2>3 DEF AtomicInv, AtomicTestBit
  <2> QED BY <2>1, <2>2, <2>3 DEF LastShareSeen, AtomicInv
<1>2. AtomicInit => AtomicInv
  BY AtomicInitInv
<1>3. AtomicInv /\ [AtomicNext]_atomicVars => AtomicInv'
  BY AtomicStep
<1> QED BY <1>1, <1>2, <1>3, PTL DEF AtomicSpec

(***************************************************************************)
(* The hash table of lib/hash_table.c, when a search goes through all of   *)
(* it and it has room for all keys.                                        *)
(***************************************************************************)

LEMMA LeastExists ==
  ASSUME NEW T, T \subseteq Nat, T # {}
  PROVE  \E m \in T : \A j \in T : m <= j
<1>1. PICK m \in T : \A j \in T : <<j, m>> \notin OpToRel(<, Nat)
  BY NatLessThanWellFounded, WFMin
<1>2. \A j \in T : ~(j < m) /\ j \in Nat /\ m \in Nat
  BY <1>1 DEF OpToRel
<1> QED BY <1>2

\* The n-th pair from h on, around the end of the array.
Around(h, n) == IF h + n < Total THEN h + n ELSE h + n - Total

LEMMA HomeIs ==
  ASSUME NEW key \in Nat
  PROVE  HashFun(key) \in Addresses
  BY TotalAssumption DEF HashFun, Addresses

LEMMA ProbeIs ==
  ASSUME NEW key \in Nat, NEW n \in 0..Total
  PROVE  Probe(key, n) = Around(HashFun(key), n)
<1> DEFINE h == HashFun(key)
           def(g) == [i \in 0..n |-> IF i = 0 THEN h ELSE HashNext(g[i - 1])]
           probes == CHOOSE g : g = def(g)
           c == [i \in 0..n |-> Around(h, i)]
<1>1. h \in Nat /\ h < Total /\ Total \in Nat /\ n \in Nat /\ n <= Total
  BY HomeIs, TotalAssumption DEF Addresses
<1>2. Probe(key, n) = probes[n]
  BY DEF Probe
<1> HIDE DEF h
<1>3. c = def(c)
  <2>1. ASSUME NEW i \in 0..n, i # 0 PROVE c[i] = HashNext(c[i - 1])
    BY <1>1, <2>1 DEF HashNext, Around
  <2>2. c[0] = h
    BY <1>1 DEF Around
  <2> HIDE DEF c
  <2>3. def(c) = [i \in 0..n |-> c[i]]
    BY <2>1, <2>2
  <2> QED BY <2>3 DEF c
<1> HIDE DEF c
<1>4. probes = def(probes)
  BY <1>3
<1> HIDE DEF probes
<1>5. probes[0] = h /\ \A i \in 0..n : i # 0 => probes[i] = HashNext(probes[i - 1])
  BY <1>1, <1>4
<1>6. \A i \in 0..n : probes[i] = c[i]
  <2> DEFINE Bad == {i \in 0..n : probes[i] # c[i]}
  <2> SUFFICES ASSUME Bad # {} PROVE FALSE
    OBVIOUS
  <2>0. Bad \subseteq Nat
    BY <1>1
  <2>1. PICK m \in Bad : \A j \in Bad : m <= j
    <3> HIDE DEF Bad
    <3> QED BY <2>0, LeastExists
  <2>2. m \in 0..n /\ m # 0
    BY <1>3, <1>5
  <2>3. probes[m - 1] = c[m - 1]
    BY <1>1, <2>1, <2>2
  <2>4. c[m] = HashNext(c[m - 1])
    BY <1>3, <2>2
  <2> QED BY <1>5, <2>1, <2>2, <2>3, <2>4
<1> QED BY <1>1, <1>2, <1>6 DEF c, h

\* A search reaches every pair before it comes back to its first one.
LEMMA ProbeReaches ==
  ASSUME NEW key \in Nat
  PROVE  /\ \A n \in 0..Total : Probe(key, n) \in Addresses
         /\ \A a \in Addresses : \E n \in 0..(Total - 1) : Probe(key, n) = a
         /\ \A m, n \in 0..(Total - 1) : Probe(key, m) = Probe(key, n) => m = n
<1> DEFINE h == HashFun(key)
<1>1. h \in Nat /\ h < Total /\ Total \in Nat
  BY HomeIs, TotalAssumption DEF Addresses
<1>2. \A n \in 0..Total : Probe(key, n) = Around(h, n)
  BY ProbeIs
<1> HIDE DEF h
<1>3. \A n \in 0..Total : Probe(key, n) \in Addresses
  BY <1>1, <1>2 DEF Around, Addresses
<1>4. ASSUME NEW a \in Addresses PROVE \E n \in 0..(Total - 1) : Probe(key, n) = a
  <2> DEFINE n == IF a >= h THEN a - h ELSE a - h + Total
  <2>1. n \in 0..(Total - 1) /\ n \in 0..Total /\ Around(h, n) = a
    BY <1>1 DEF Around, Addresses
  <2> HIDE DEF n
  <2> QED BY <1>2, <2>1
<1>5. \A m, n \in 0..(Total - 1) : Probe(key, m) = Probe(key, n) => m = n
  <2>1. \A n \in 0..(Total - 1) : n \in 0..Total
    BY <1>1
  <2> QED BY <1>1, <1>2, <2>1 DEF Around
<1> QED BY <1>3, <1>4, <1>5

-----------------------------------------------------------------------------
(***************************************************************************)
(* Where a search ends, in an array p of pairs.                            *)
(***************************************************************************)

Ends(p, key, n) ==
  /\ n \in 0..(Total - 1)
  /\ p[Probe(key, n)].key \in {0, key}
  /\ \A i \in 0..(n - 1) : p[Probe(key, i)].key \notin {0, key}

LEMMA FindAddrIs ==
  ASSUME MaxTry = Total, NEW key \in Nat, NEW n
  PROVE  /\ Ends(pairs, key, n) => FindAddr(key) = Probe(key, n)
         /\ Ends(pairs', key, n) => FindAddr(key)' = Probe(key, n)
<1>1. Total \in Nat \ {0}
  BY TotalAssumption
<1>2. ASSUME Ends(pairs, key, n) PROVE FindAddr(key) = Probe(key, n)
  <2>1. Meets(key) = {n}
    BY <1>1, <1>2 DEF Meets, Ends
  <2>2. n # MaxTry
    BY <1>1, <1>2 DEF Ends
  <2> QED BY <2>1, <2>2 DEF FindAddr
<1>3. ASSUME Ends(pairs', key, n) PROVE FindAddr(key)' = Probe(key, n)
  <2>1. Meets(key)' = {n}
    BY <1>1, <1>3 DEF Meets, Ends
  <2>2. n # MaxTry
    BY <1>1, <1>3 DEF Ends
  <2> QED BY <2>1, <2>2 DEF FindAddr
<1> QED BY <1>2, <1>3

\* A search that can meet the key or a free pair ends at the first one.
LEMMA SearchEnds ==
  ASSUME NEW p, NEW key \in Nat, NEW a \in Addresses, p[a].key \in {0, key}
  PROVE  \E n : Ends(p, key, n)
<1> DEFINE T == {n \in 0..(Total - 1) : p[Probe(key, n)].key \in {0, key}}
<1>1. T # {} /\ T \subseteq Nat
  <2>1. PICK n \in 0..(Total - 1) : Probe(key, n) = a
    BY ProbeReaches
  <2> QED BY <2>1, TotalAssumption
<1>2. PICK n \in T : \A j \in T : n <= j
  BY <1>1, LeastExists
<1>3. \A i \in 0..(n - 1) : i \in 0..(Total - 1) /\ i \notin T
  BY <1>1, <1>2, TotalAssumption
<1> QED BY <1>2, <1>3 DEF Ends

-----------------------------------------------------------------------------
(***************************************************************************)
(* A table that satisfies the invariant.                                   *)
(***************************************************************************)

LEMMA TableTypes ==
  ASSUME TableTypeOK
  PROVE  /\ \A a \in Addresses : pairs[a].key \in Nat
         /\ \A a \in Addresses : pairs[a].key = 0 => pairs[a] = Free
         /\ \A a \in Addresses : pairs[a].key # 0 =>
              pairs[a].key \in Keys /\ pairs[a].value \in Values
         /\ \A k \in Keys : k \in Nat /\ k # 0
         /\ Total \in Nat \ {0} /\ Addresses = 0..(Total - 1) /\ NoAddress \notin Addresses
<1>1. \A k \in Keys : k \in Nat /\ k # 0
  BY KeysAssumption
<1>2. \A a \in Addresses : pairs[a] \in {Free} \cup [key : Keys, value : Values]
  BY DEF TableTypeOK
<1>3. Total \in Nat \ {0} /\ Addresses = 0..(Total - 1) /\ NoAddress \notin Addresses
  BY TotalAssumption DEF Addresses, NoAddress
<1>4. Free.key = 0
  BY DEF Free
<1>5. ASSUME NEW a \in Addresses
      PROVE  \/ pairs[a] = Free /\ pairs[a].key = 0
             \/ pairs[a].key \in Keys /\ pairs[a].value \in Values
  BY <1>2, <1>4
<1> QED BY <1>1, <1>3, <1>5

\* A table without a free pair has every key: there are no more keys than pairs.
LEMMA RoomLeft ==
  ASSUME RoomForAll, HashInv, NEW key \in Keys
  PROVE  \E a \in Addresses : pairs[a].key \in {0, key}
<1> SUFFICES ASSUME \A a \in Addresses : pairs[a].key \notin {0, key} PROVE FALSE
  OBVIOUS
<1> DEFINE f == [a \in Addresses |-> pairs[a].key]
           T == Keys \ {key}
<1>1. f \in [Addresses -> T]
  BY TableTypes DEF HashInv
<1>2. IsFiniteSet(Addresses) /\ Cardinality(Addresses) = Total
  <2>1. Total \in Nat
    BY TotalAssumption
  <2>2. 0 \in Int /\ Total - 1 \in Int
    BY <2>1
  <2>3. IsFiniteSet(0..(Total - 1))
        /\ Cardinality(0..(Total - 1)) = IF 0 > Total - 1 THEN 0 ELSE Total - 1 - 0 + 1
    BY <2>2, FS_Interval
  <2> QED BY <2>1, <2>3 DEF Addresses
<1>3. IsFiniteSet(T) /\ Cardinality(T) < Total
  <2>1. IsFiniteSet(T) /\ Cardinality(T) = Cardinality(Keys) - 1
    BY FS_RemoveElement DEF RoomForAll
  <2>2. Cardinality(Keys) \in Nat
    BY FS_CardinalityType DEF RoomForAll
  <2> QED BY <2>1, <2>2, TotalAssumption DEF RoomForAll
<1> HIDE DEF f, T
<1>4. PICK x \in Addresses, y \in Addresses : x # y /\ f[x] = f[y]
  BY <1>1, <1>2, <1>3, FS_PigeonHole
<1>5. pairs[x].key = pairs[y].key /\ pairs[x].key # 0
  BY <1>4 DEF f
<1> QED BY <1>4, <1>5 DEF HashInv

\* Where a search that meets the key or a free pair ends.
LEMMA SearchMeets ==
  ASSUME MaxTry = Total, TableTypeOK, NEW key \in Nat,
         \E a \in Addresses : pairs[a].key \in {0, key}
  PROVE  /\ FindAddr(key) \in Addresses /\ FindAddr(key) # NoAddress
         /\ pairs[FindAddr(key)].key \in {0, key}
         /\ \E n : Ends(pairs, key, n) /\ FindAddr(key) = Probe(key, n)
<1>1. PICK n : Ends(pairs, key, n)
  BY SearchEnds
<1>2. FindAddr(key) = Probe(key, n)
  BY <1>1, FindAddrIs
<1>3. n \in 0..Total
  BY <1>1, TotalAssumption DEF Ends
<1>4. Probe(key, n) \in Addresses
  BY <1>3, ProbeReaches
<1> QED BY <1>1, <1>2, <1>4, TableTypes DEF Ends

\* hash_next stays within the array.
LEMMA NextIs ==
  ASSUME NEW a \in Addresses
  PROVE  HashNext(a) \in Addresses
  BY TotalAssumption DEF HashNext, Addresses

LEMMA SitsSame ==
  ASSUME pairs' = pairs
  PROVE  \A a : Sits(a)' = Sits(a)
  BY DEF Sits, FindAddr, Meets

-----------------------------------------------------------------------------

LEMMA HashBegins == TableInit => HashInv
<1> SUFFICES ASSUME TableInit PROVE HashInv
  OBVIOUS
<1>1. TableTypeOK
  <2>1. 0 \in 0..MaxTry
    BY TotalAssumption
  <2> QED BY <2>1 DEF TableInit, TableTypeOK
<1>2. \A a \in Addresses : pairs[a].key = 0
  BY DEF TableInit, Free
<1> QED BY <1>1, <1>2 DEF TableInit, HashInv, Sorting

\* hash_set writes to the pair its key is in, or to a free one that stands in no other
\* key's way.
LEMMA HashSetInv ==
  ASSUME MaxTry = Total, RoomForKeys, HashInv,
         NEW key \in Keys, NEW value \in Values, HashSet(key, value)
  PROVE  HashInv'
<1> DEFINE a == FindAddr(key)
           new == [key |-> key, value |-> value]
<1>1. ~Sorting /\ addr' = addr /\ tries' = tries
      /\ pairs' = [pairs EXCEPT ![a] = new]
  BY DEF HashSet
<1>2. TableTypeOK /\ MaxTry = Total /\ key \in Nat /\ key # 0
  BY KeysAssumption DEF HashInv
<1>3. /\ a \in Addresses /\ pairs[a].key \in {0, key}
      /\ \E n : Ends(pairs, key, n) /\ a = Probe(key, n)
  BY <1>2, SearchMeets DEF RoomForKeys
<1>4. /\ pairs'[a].key = key
      /\ \A b \in Addresses : b # a => pairs'[b] = pairs[b]
  BY <1>1, <1>2, <1>3 DEF TableTypeOK
<1>5. TableTypeOK'
  <2>1. new \in [key : Keys, value : Values]
    OBVIOUS
  <2> HIDE DEF new, a
  <2> QED BY <1>1, <1>2, <1>3, <2>1 DEF TableTypeOK
<1>6. \A b \in Addresses : pairs[b].key # 0 => Sits(b)
  BY <1>1 DEF HashInv
<1> HIDE DEF a, new
<1>7. \A b \in Addresses : pairs[b].key = key => b = a
  <2> SUFFICES ASSUME NEW b \in Addresses, pairs[b].key = key PROVE b = a
    OBVIOUS
  <2> QED BY <1>2, <1>6 DEF Sits, a
<1>8. \A b, c \in Addresses : pairs'[b].key = pairs'[c].key /\ pairs'[b].key # 0 => b = c
  BY <1>4, <1>7 DEF HashInv
<1>9. ASSUME NEW b \in Addresses, pairs'[b].key # 0 PROVE Sits(b)'
  <2>1. CASE b = a
    <3>1. PICK n : Ends(pairs, key, n) /\ a = Probe(key, n)
      BY <1>3
    <3>2. ASSUME NEW i \in 0..(n - 1)
          PROVE  Probe(key, i) \in Addresses /\ Probe(key, i) # a
      <4>1. i \in 0..(Total - 1) /\ n \in 0..(Total - 1) /\ i # n /\ i \in 0..Total
        BY <3>1, TotalAssumption DEF Ends
      <4> QED BY <1>2, <3>1, <4>1, ProbeReaches
    <3>3. Ends(pairs', key, n)
      BY <1>4, <3>1, <3>2 DEF Ends
    <3> QED BY <1>2, <1>4, <2>1, <3>1, <3>3, FindAddrIs DEF Sits
  <2>2. CASE b # a
    <3> DEFINE k == pairs[b].key
    <3>1. pairs'[b] = pairs[b] /\ k # 0 /\ k \in Nat /\ FindAddr(k) = b
      BY <1>2, <1>4, <1>6, <1>9, <2>2, TableTypes DEF Sits
    <3>2. PICK n : Ends(pairs, k, n) /\ b = Probe(k, n)
      BY <1>2, <3>1, SearchMeets
    <3>3. k # key
      BY <1>7, <2>2
    <3>4. ASSUME NEW i \in 0..(n - 1)
          PROVE  pairs'[Probe(k, i)].key \notin {0, k}
      <4>1. i \in 0..Total
        BY <3>2, TotalAssumption DEF Ends
      <4>2. Probe(k, i) \in Addresses /\ pairs[Probe(k, i)].key \notin {0, k}
        BY <3>1, <3>2, <4>1, ProbeReaches DEF Ends
      <4> QED BY <1>2, <1>4, <3>3, <4>2
    <3>5. Ends(pairs', k, n)
      BY <3>1, <3>2, <3>4 DEF Ends
    <3>6. FindAddr(k)' = b
      BY <1>2, <3>1, <3>2, <3>5, FindAddrIs
    <3> QED BY <3>1, <3>6 DEF Sits
  <2> QED BY <2>1, <2>2
<1>10. ~Sorting'
  BY <1>1 DEF Sorting
<1> QED BY <1>5, <1>8, <1>9, <1>10 DEF HashInv

LEMMA HashDelInv ==
  ASSUME MaxTry = Total, RoomForKeys, HashInv, NEW key \in Keys, HashDel(key)
  PROVE  HashInv'
<1> DEFINE a == FindAddr(key)
<1>1. /\ pairs' = [pairs EXCEPT ![a] = Free]
      /\ addr' = a /\ tries' = 0
  BY DEF HashDel
<1>2. TableTypeOK /\ MaxTry = Total /\ key \in Nat
  BY KeysAssumption DEF HashInv
<1>3. a \in Addresses /\ a # NoAddress
  BY <1>2, SearchMeets DEF RoomForKeys
<1> HIDE DEF a
<1>4. /\ pairs'[a] = Free
      /\ \A b \in Addresses : b # a => pairs'[b] = pairs[b]
  BY <1>1, <1>2, <1>3 DEF TableTypeOK
<1>5. TableTypeOK'
  <2>1. 0 \in 0..MaxTry
    BY TotalAssumption
  <2> QED BY <1>1, <1>2, <1>3, <2>1 DEF TableTypeOK
<1>6. pairs'[a].key = 0
  BY <1>4 DEF Free
<1>7. \A b, c \in Addresses : pairs'[b].key = pairs'[c].key /\ pairs'[b].key # 0 => b = c
  BY <1>4, <1>6 DEF HashInv
<1>8. Sorting' /\ FreePairs' # {} /\ 0..(tries' - 1) = {}
  BY <1>1, <1>3, <1>6 DEF Sorting, FreePairs
<1> QED BY <1>5, <1>7, <1>8 DEF HashInv, Passed

LEMMA SortKeepInv ==
  ASSUME MaxTry = Total, HashInv, SortKeep
  PROVE  HashInv'
<1>1. /\ Sorting /\ tries < MaxTry /\ TableTypeOK
      /\ FindAddr(pairs[HashNext(addr)].key) = HashNext(addr)
      /\ addr' = HashNext(addr) /\ tries' = tries + 1 /\ pairs' = pairs
  BY DEF SortKeep, HashInv
<1>2. addr \in Addresses /\ addr' \in Addresses /\ addr' # NoAddress /\ tries \in Nat
  BY <1>1, NextIs, TableTypes DEF TableTypeOK, Sorting
<1>3. TableTypeOK'
  BY <1>1, <1>2, TotalAssumption DEF TableTypeOK
<1>4. ASSUME NEW a \in Passed' PROVE a \in Passed \cup {addr'}
  <2>1. PICK i \in 0..(tries' - 1) : a = IF i <= addr' THEN addr' - i ELSE addr' - i + Total
    BY DEF Passed
  <2>2. CASE i = 0
    <3>1. PICK b \in Nat : b = addr'
      BY <1>2, TotalAssumption DEF Addresses
    <3>2. a = IF 0 <= b THEN b - 0 ELSE b - 0 + Total
      BY <2>1, <2>2, <3>1, Zenon
    <3>3. b \in Nat
      OBVIOUS
    <3>4. a = b
      BY <3>2, <3>3
    <3> QED BY <3>1, <3>4
  <2>3. CASE i # 0
    <3>1. i - 1 \in 0..(tries - 1) /\ i <= Total /\ i \in Nat
      BY <1>1, <1>2, <2>3, TotalAssumption DEF TableTypeOK
    <3>2. a = IF i - 1 <= addr THEN addr - (i - 1) ELSE addr - (i - 1) + Total
      BY <1>1, <1>2, <2>1, <2>3, <3>1, TotalAssumption DEF HashNext, Addresses
    <3> QED BY <3>1, <3>2 DEF Passed
  <2> QED BY <2>2, <2>3
<1>5. Sits(addr') /\ \A a \in Passed : Sits(a)
  BY <1>1 DEF HashInv, Sits
<1>6. \A a \in Passed' : Sits(a)'
  BY <1>1, <1>4, <1>5, SitsSame
<1>7. Sorting' /\ FreePairs' # {}
  BY <1>1, <1>2 DEF Sorting, FreePairs, HashInv
<1> QED BY <1>1, <1>3, <1>6, <1>7 DEF HashInv

\* hash_sort moves a pair to a free one.
LEMMA SortMoveEffect ==
  ASSUME MaxTry = Total, HashInv, SortMove
  PROVE  \E from, to \in Addresses :
           /\ from # to /\ pairs[to] = Free /\ addr' = from /\ tries' = 0
           /\ pairs' \in [Addresses -> {Free} \cup [key : Keys, value : Values]]
           /\ pairs'[from] = Free /\ pairs'[to] = pairs[from]
           /\ \A a \in Addresses : a # from /\ a # to => pairs'[a] = pairs[a]
           /\ to = FindAddr(pairs[from].key)
<1> DEFINE from == HashNext(addr)
           key == pairs[from].key
           to == FindAddr(key)
<1>1. /\ Sorting /\ TableTypeOK /\ MaxTry = Total
      /\ to # from /\ addr' = from /\ tries' = 0
      /\ pairs' = [a \in Addresses |-> CASE a = from -> Free
                                         [] a = to -> pairs[from]
                                         [] OTHER -> pairs[a]]
  BY DEF SortMove, HashInv
<1>2. from \in Addresses /\ key \in Nat
  BY <1>1, NextIs, TableTypes DEF TableTypeOK, Sorting
<1>3. to \in Addresses /\ pairs[to].key \in {0, key}
  BY <1>1, <1>2, SearchMeets
<1>4. pairs[to].key = 0
  BY <1>1, <1>2, <1>3 DEF HashInv
<1>5. pairs[to] = Free
  BY <1>1, <1>3, <1>4, TableTypes
<1>6. to = FindAddr(pairs[from].key)
  OBVIOUS
<1> HIDE DEF from, to, key
<1>7. /\ pairs'[from] = Free /\ pairs'[to] = pairs[from]
      /\ \A a \in Addresses : a # from /\ a # to => pairs'[a] = pairs[a]
  BY <1>1, <1>2, <1>3
<1>8. pairs' \in [Addresses -> {Free} \cup [key : Keys, value : Values]]
  BY <1>1, <1>2, <1>3 DEF TableTypeOK
<1> QED BY <1>1, <1>2, <1>3, <1>5, <1>6, <1>7, <1>8

LEMMA SortMoveInv ==
  ASSUME MaxTry = Total, HashInv, SortMove
  PROVE  HashInv'
<1>1. PICK from \in Addresses, to \in Addresses :
        /\ from # to /\ pairs[to] = Free /\ addr' = from /\ tries' = 0
        /\ pairs' \in [Addresses -> {Free} \cup [key : Keys, value : Values]]
        /\ pairs'[from] = Free /\ pairs'[to] = pairs[from]
        /\ \A a \in Addresses : a # from /\ a # to => pairs'[a] = pairs[a]
  BY SortMoveEffect
<1>2. pairs'[from].key = 0 /\ pairs[to].key = 0
  BY <1>1 DEF Free
<1>3. TableTypeOK'
  <2>1. 0 \in 0..MaxTry
    BY TotalAssumption
  <2> QED BY <1>1, <2>1 DEF TableTypeOK
<1>4. \A b, c \in Addresses : pairs'[b].key = pairs'[c].key /\ pairs'[b].key # 0 => b = c
  BY <1>1, <1>2 DEF HashInv
<1>5. Sorting' /\ FreePairs' # {} /\ Passed' = {}
  <2>1. addr' # NoAddress
    BY <1>1, TotalAssumption DEF Addresses, NoAddress
  <2> QED BY <1>1, <1>2, <2>1 DEF Sorting, FreePairs, Passed
<1> QED BY <1>3, <1>4, <1>5 DEF HashInv

\* When hash_sort ends it has passed all pairs.
LEMMA SortDoneInv ==
  ASSUME MaxTry = Total, HashInv, SortDone
  PROVE  HashInv'
<1>1. /\ Sorting /\ tries = Total /\ TableTypeOK /\ addr' = NoAddress
      /\ pairs' = pairs /\ tries' = tries
  BY DEF SortDone, HashInv
<1>2. addr \in Addresses
  BY <1>1 DEF TableTypeOK, Sorting
<1>3. Addresses \subseteq Passed
  <2> SUFFICES ASSUME NEW a \in Addresses PROVE a \in Passed
    OBVIOUS
  <2> DEFINE i == IF a <= addr THEN addr - a ELSE addr - a + Total
  <2>1. i \in 0..(tries - 1) /\ a = IF i <= addr THEN addr - i ELSE addr - i + Total
    BY <1>1, <1>2, TotalAssumption DEF Addresses
  <2> HIDE DEF i
  <2> QED BY <2>1 DEF Passed
<1>4. \A a \in Addresses : Sits(a)'
  BY <1>1, <1>3, SitsSame DEF HashInv
<1>5. TableTypeOK' /\ ~Sorting'
  BY <1>1 DEF TableTypeOK, Sorting
<1> QED BY <1>1, <1>4, <1>5 DEF HashInv

-----------------------------------------------------------------------------

LEMMA HashStep ==
  ASSUME MaxTry = Total, RoomForKeys, HashInv, [TableNext]_tableVars
  PROVE  HashInv'
<1>1. ASSUME NEW k \in Keys, NEW v \in Values, HashSet(k, v) PROVE HashInv'
  BY <1>1, HashSetInv
<1>2. ASSUME NEW k \in Keys, HashDel(k) PROVE HashInv'
  BY <1>2, HashDelInv
<1>3. CASE SortKeep
  BY <1>3, SortKeepInv
<1>4. CASE SortMove
  BY <1>4, SortMoveInv
<1>5. CASE SortDone
  BY <1>5, SortDoneInv
<1>6. CASE UNCHANGED tableVars
  BY <1>6, SitsSame DEF tableVars, HashInv, TableTypeOK, Sorting, FreePairs, Passed
<1> QED BY <1>1, <1>2, <1>3, <1>4, <1>5, <1>6 DEF TableNext

\* Whatever is set and deleted (lib/hash_table.c), a key has one pair, and a search ends
\* at it, while hash_sort runs at least at those it has passed since it last moved one.
THEOREM TableInvariance ==
  ASSUME RoomForAll
  PROVE  TableSpec => []HashInv /\ []RoomForKeys
<1>1. MaxTry = Total
  BY DEF RoomForAll
<1>2. TableInit => HashInv
  BY HashBegins
<1>3. HashInv => RoomForKeys
  BY RoomLeft DEF RoomForKeys
<1>4. HashInv /\ [TableNext]_tableVars => HashInv'
  BY <1>1, <1>3, HashStep
<1> QED BY <1>2, <1>3, <1>4, PTL DEF TableSpec

LEMMA OnePairOfKey ==
  ASSUME HashInv
  PROVE  OneKeyOnePair
<1> SUFFICES ASSUME NEW k \in Keys PROVE Cardinality(PairsOf(k)) <= 1
  BY DEF OneKeyOnePair, HashInv
<1>1. k # 0
  BY KeysAssumption
<1>2. CASE PairsOf(k) = {}
  BY <1>2, FS_EmptySet
<1>3. CASE PairsOf(k) # {}
  <2>1. PICK a : PairsOf(k) = {a}
    BY <1>1, <1>3 DEF PairsOf, HashInv
  <2>2. Cardinality({a}) = 1
    BY FS_Singleton
  <2> QED BY <2>1, <2>2
<1> QED BY <1>2, <1>3

LEMMA KeysFound ==
  ASSUME MaxTry = Total, RoomForKeys, HashInv
  PROVE  GetFindsAll
<1> SUFFICES ASSUME ~Sorting, NEW k \in Keys
             PROVE  HashGet(k) = IF PairsOf(k) = {} THEN NoValue
                                 ELSE pairs[CHOOSE a \in PairsOf(k) : TRUE].value
  BY DEF GetFindsAll
<1>1. k \in Nat /\ k # 0 /\ TableTypeOK
  BY KeysAssumption DEF HashInv
<1>2. CASE PairsOf(k) = {}
  <2>1. /\ FindAddr(k) \in Addresses /\ FindAddr(k) # NoAddress
        /\ pairs[FindAddr(k)].key \in {0, k}
    BY <1>1, SearchMeets DEF RoomForKeys
  <2> HIDE DEF FindAddr
  <2>2. pairs[FindAddr(k)].key = 0
    BY <1>2, <2>1 DEF PairsOf
  <2> QED BY <1>2, <2>2 DEF HashGet
<1>3. CASE PairsOf(k) # {}
  <2> DEFINE a == CHOOSE b \in PairsOf(k) : TRUE
  <2>1. a \in Addresses /\ pairs[a].key = k
    BY <1>3 DEF PairsOf
  <2>2. FindAddr(k) = a /\ a # NoAddress
    BY <1>1, <2>1, TableTypes DEF HashInv, Sits
  <2> HIDE DEF a
  <2>3. HashGet(k) = pairs[a].value
    BY <1>1, <2>1, <2>2 DEF HashGet
  <2> QED BY <1>3, <2>3 DEF a
<1> QED BY <1>2, <1>3

\* The value of a key, in a table with one pair for each.
ValueIn(p, k) ==
  LET at == {a \in Addresses : p[a].key = k}
  IN  IF at = {} THEN NoValue ELSE p[CHOOSE a \in at : TRUE].value

LEMMA MapIs ==
  /\ [k \in Keys |-> IF PairsOf(k) = {} THEN NoValue
                     ELSE pairs[CHOOSE a \in PairsOf(k) : TRUE].value]
       = [k \in Keys |-> ValueIn(pairs, k)]
  /\ [k \in Keys |-> IF PairsOf(k) = {} THEN NoValue
                     ELSE pairs[CHOOSE a \in PairsOf(k) : TRUE].value]'
       = [k \in Keys |-> ValueIn(pairs', k)]
  BY DEF ValueIn, PairsOf

LEMMA ValueIs ==
  ASSUME NEW p, NEW k,
         \A a, b \in Addresses : p[a].key = p[b].key /\ p[a].key # 0 => a = b, k # 0
  PROVE  /\ \A a \in Addresses : p[a].key = k => ValueIn(p, k) = p[a].value
         /\ (\A a \in Addresses : p[a].key # k) => ValueIn(p, k) = NoValue
  BY DEF ValueIn

OnePair(p) ==
  \A a, b \in Addresses : p[a].key = p[b].key /\ p[a].key # 0 => a = b

\* A key keeps its value when its pair is neither changed nor lost, wherever it is moved.
LEMMA ValueStays ==
  ASSUME NEW p, NEW q, OnePair(p), OnePair(q), NEW k, k # 0,
         \A a \in Addresses : p[a].key = k =>
           \E b \in Addresses : q[b].key = k /\ q[b].value = p[a].value,
         \A b \in Addresses : q[b].key = k => \E a \in Addresses : p[a].key = k
  PROVE  ValueIn(q, k) = ValueIn(p, k)
<1>1. CASE \E a \in Addresses : p[a].key = k
  <2>1. PICK a \in Addresses : p[a].key = k
    BY <1>1
  <2>2. PICK b \in Addresses : q[b].key = k /\ q[b].value = p[a].value
    BY <2>1
  <2>3. ValueIn(p, k) = p[a].value
    BY <2>1, ValueIs DEF OnePair
  <2>4. ValueIn(q, k) = q[b].value
    BY <2>2, ValueIs DEF OnePair
  <2> QED BY <2>2, <2>3, <2>4
<1>2. CASE \A a \in Addresses : p[a].key # k
  <2>1. ValueIn(p, k) = NoValue
    BY <1>2, ValueIs DEF OnePair
  <2>2. ValueIn(q, k) = NoValue
    BY <1>2, ValueIs DEF OnePair
  <2> QED BY <2>1, <2>2
<1> QED BY <1>1, <1>2

\* Between calls the pair a search for a key ends at is its own, or it has none.
LEMMA OwnPair ==
  ASSUME MaxTry = Total, RoomForKeys, HashInv, ~Sorting, NEW key \in Keys
  PROVE  /\ FindAddr(key) \in Addresses /\ pairs[FindAddr(key)].key \in {0, key}
         /\ \A b \in Addresses : pairs[b].key = key => b = FindAddr(key)
<1>1. key \in Nat /\ key # 0 /\ TableTypeOK
  BY KeysAssumption DEF HashInv
<1>2. FindAddr(key) \in Addresses /\ pairs[FindAddr(key)].key \in {0, key}
  BY <1>1, SearchMeets DEF RoomForKeys
<1>3. ASSUME NEW b \in Addresses, pairs[b].key = key PROVE b = FindAddr(key)
  BY <1>1, <1>3 DEF HashInv, Sits
<1> QED BY <1>2, <1>3

LEMMA SetValues ==
  ASSUME MaxTry = Total, RoomForKeys, HashInv, HashInv',
         NEW key \in Keys, NEW value \in Values, HashSet(key, value), NEW k \in Keys
  PROVE  ValueIn(pairs', k) = IF k = key THEN value ELSE ValueIn(pairs, k)
<1> DEFINE a == FindAddr(key)
           new == [key |-> key, value |-> value]
<1>0. pairs' = [pairs EXCEPT ![a] = new] /\ TableTypeOK
  BY DEF HashSet, HashInv
<1>1. /\ a \in Addresses /\ pairs[a].key \in {0, key}
      /\ k # 0 /\ OnePair(pairs) /\ OnePair(pairs')
  BY OwnPair, KeysAssumption DEF HashSet, HashInv, OnePair
<1> HIDE DEF a
<1>2. /\ pairs'[a].key = key /\ pairs'[a].value = value
      /\ \A b \in Addresses : b # a => pairs'[b] = pairs[b]
  BY <1>0, <1>1 DEF TableTypeOK
<1>3. CASE k = key
  BY <1>1, <1>2, <1>3, ValueIs DEF OnePair
<1>4. CASE k # key
  <2>1. \A b \in Addresses : pairs[b].key = k \/ pairs'[b].key = k => b # a
    BY <1>1, <1>2, <1>4
  <2>2. \A b \in Addresses :
          pairs[b].key = k => pairs'[b].key = k /\ pairs'[b].value = pairs[b].value
    BY <1>2, <2>1
  <2>3. \A b \in Addresses : pairs'[b].key = k => pairs[b].key = k
    BY <1>2, <2>1
  <2> QED BY <1>1, <1>4, <2>2, <2>3, ValueStays
<1> QED BY <1>3, <1>4

LEMMA DelValues ==
  ASSUME MaxTry = Total, RoomForKeys, HashInv, HashInv',
         NEW key \in Keys, HashDel(key), NEW k \in Keys
  PROVE  ValueIn(pairs', k) = IF k = key THEN NoValue ELSE ValueIn(pairs, k)
<1> DEFINE a == FindAddr(key)
<1>0. pairs' = [pairs EXCEPT ![a] = Free] /\ TableTypeOK
  BY DEF HashDel, HashInv
<1>1. /\ a \in Addresses /\ pairs[a].key = key
      /\ \A b \in Addresses : pairs[b].key = key => b = a
      /\ k # 0 /\ OnePair(pairs) /\ OnePair(pairs')
  BY OwnPair, KeysAssumption DEF HashDel, HashInv, OnePair
<1> HIDE DEF a
<1>2. /\ pairs'[a].key = 0
      /\ \A b \in Addresses : b # a => pairs'[b] = pairs[b]
  BY <1>0, <1>1 DEF TableTypeOK, Free
<1>3. CASE k = key
  <2>1. \A b \in Addresses : pairs'[b].key # k
    BY <1>1, <1>2, <1>3
  <2> QED BY <1>1, <1>3, <2>1, ValueIs DEF OnePair
<1>4. CASE k # key
  <2>1. \A b \in Addresses : pairs[b].key = k \/ pairs'[b].key = k => b # a
    BY <1>1, <1>2, <1>4
  <2>2. \A b \in Addresses :
          pairs[b].key = k => pairs'[b].key = k /\ pairs'[b].value = pairs[b].value
    BY <1>2, <2>1
  <2>3. \A b \in Addresses : pairs'[b].key = k => pairs[b].key = k
    BY <1>2, <2>1
  <2> QED BY <1>1, <1>4, <2>2, <2>3, ValueStays
<1> QED BY <1>3, <1>4

LEMMA MoveValues ==
  ASSUME MaxTry = Total, HashInv, HashInv', SortMove, NEW k \in Keys
  PROVE  ValueIn(pairs', k) = ValueIn(pairs, k)
<1>1. PICK from \in Addresses, to \in Addresses :
        /\ from # to /\ pairs[to] = Free
        /\ pairs'[from] = Free /\ pairs'[to] = pairs[from]
        /\ \A a \in Addresses : a # from /\ a # to => pairs'[a] = pairs[a]
  BY SortMoveEffect
<1>2. k # 0 /\ Free.key = 0 /\ OnePair(pairs) /\ OnePair(pairs')
  BY KeysAssumption DEF Free, HashInv, OnePair
<1>3. ASSUME NEW a \in Addresses, pairs[a].key = k
      PROVE  \E b \in Addresses : pairs'[b].key = k /\ pairs'[b].value = pairs[a].value
  <2>1. CASE a = from
    BY <1>1, <1>3, <2>1
  <2>2. CASE a # from
    <3>1. pairs'[a] = pairs[a]
      BY <1>1, <1>2, <1>3, <2>2
    <3> QED BY <1>3, <3>1
  <2> QED BY <2>1, <2>2
<1>4. ASSUME NEW b \in Addresses, pairs'[b].key = k
      PROVE  \E a \in Addresses : pairs[a].key = k
  <2>1. CASE b = to
    BY <1>1, <1>4, <2>1
  <2>2. CASE b # to
    <3>1. pairs'[b] = pairs[b]
      BY <1>1, <1>2, <1>4, <2>2
    <3> QED BY <1>4, <3>1
  <2> QED BY <2>1, <2>2
<1> QED BY <1>2, <1>3, <1>4, ValueStays

\* For any set of keys, as long as users leave a pair free (or have set every key they use)
\* and the table is searched all through (lib/hash_table.c): a key has one pair, between
\* calls hash_get finds what is in the table and nothing else, and to its users the table
\* is a map, also while hash_sort moves pairs about.
THEOREM TableWithRoom ==
  ASSUME MaxTry = Total
  PROVE  TableSpec /\ []RoomForKeys =>
           []HashInv /\ []OneKeyOnePair /\ []GetFindsAll /\ RefinesMap
<1> DEFINE map == [k \in Keys |-> IF PairsOf(k) = {} THEN NoValue
                                  ELSE pairs[CHOOSE a \in PairsOf(k) : TRUE].value]
<1>1. TableInit => map = [k \in Keys |-> NoValue]
  BY KeysAssumption DEF TableInit, PairsOf, Free
<1>2. RoomForKeys /\ HashInv /\ HashInv' /\ [TableNext]_tableVars =>
        \/ map' = map
        \/ \E k \in Keys : \/ map' = [map EXCEPT ![k] = NoValue]
                           \/ \E v \in Values : map' = [map EXCEPT ![k] = v]
  <2> SUFFICES ASSUME RoomForKeys, HashInv, HashInv', [TableNext]_tableVars
               PROVE  \/ map' = map
                      \/ \E k \in Keys : \/ map' = [map EXCEPT ![k] = NoValue]
                                         \/ \E v \in Values : map' = [map EXCEPT ![k] = v]
    OBVIOUS
  <2>0. map = [k \in Keys |-> ValueIn(pairs, k)] /\ map' = [k \in Keys |-> ValueIn(pairs', k)]
    BY MapIs
  <2> HIDE DEF map
  <2>1. ASSUME NEW k \in Keys, NEW v \in Values, HashSet(k, v)
        PROVE  map' = [map EXCEPT ![k] = v]
    BY <2>0, <2>1, SetValues
  <2>2. ASSUME NEW k \in Keys, HashDel(k) PROVE map' = [map EXCEPT ![k] = NoValue]
    BY <2>0, <2>2, DelValues
  <2>3. CASE SortMove
    BY <2>0, <2>3, MoveValues
  <2>4. CASE SortKeep \/ SortDone \/ UNCHANGED tableVars
    <3>1. pairs' = pairs
      BY <2>4 DEF SortKeep, SortDone, tableVars
    <3> QED BY <2>0, <3>1
  <2> QED BY <2>1, <2>2, <2>3, <2>4 DEF TableNext
<1>3. TableInit => Map!Init
  BY <1>1 DEF Map!Init
<1>4. RoomForKeys /\ HashInv /\ HashInv' /\ [TableNext]_tableVars => [Map!Next]_map
  BY <1>2 DEF Map!Next, Map!Set, Map!Delete
<1>5. TableInit => HashInv
  BY HashBegins
<1>6. RoomForKeys /\ HashInv /\ [TableNext]_tableVars => HashInv'
  BY HashStep
<1>7. RoomForKeys /\ HashInv => OneKeyOnePair /\ GetFindsAll
  BY OnePairOfKey, KeysFound
<1> QED BY <1>3, <1>4, <1>5, <1>6, <1>7, PTL DEF TableSpec, RefinesMap, Map!Spec

\* No key ever has two pairs, for every size of table and set of keys that fits in.
THEOREM OnePairEach ==
  ASSUME RoomForAll
  PROVE  TableSpec => []OneKeyOnePair
<1>1. HashInv => OneKeyOnePair
  BY OnePairOfKey
<1> QED BY <1>1, TableInvariance, PTL

\* Between calls hash_get finds what is in the table and nothing else.
THEOREM AllFound ==
  ASSUME RoomForAll
  PROVE  TableSpec => []GetFindsAll
<1>1. RoomForKeys /\ HashInv => GetFindsAll
  BY KeysFound DEF RoomForAll
<1> QED BY <1>1, TableInvariance, PTL

\* To its users the table is a map, also while hash_sort moves pairs about.
THEOREM TableRefines ==
  ASSUME RoomForAll
  PROVE  TableSpec => RefinesMap
<1>1. MaxTry = Total
  BY DEF RoomForAll
<1>2. TableSpec /\ []RoomForKeys => RefinesMap
  BY <1>1, TableWithRoom, PTL
<1> QED BY <1>2, TableInvariance, PTL


-----------------------------------------------------------------------------
(***************************************************************************)
(* How hash_sort comes to its end when one pair is free.                   *)
(***************************************************************************)

\* Each key in the table with each step before the one at which a search finds it
Strayed == {kn \in Keys \X (0..(Total - 1)) :
              \E m \in 0..(Total - 1) : kn[2] < m /\ pairs[Probe(kn[1], m)].key = kn[1]}

\* An iteration of hash_sort ends it or brings some key nearer to its home, and otherwise
\* counts: keys only ever move towards their homes.
NearerEnd ==
  Sorting /\ Cardinality(FreePairs) = 1 =>
    \/ ~Sorting'
    \/ /\ Cardinality(FreePairs') = 1
       /\ \/ Cardinality(Strayed') < Cardinality(Strayed)
          \/ Strayed' = Strayed /\ MaxTry - tries' < MaxTry - tries

LEMMA StrayedFinite ==
  ASSUME RoomForAll
  PROVE  IsFiniteSet(Strayed) /\ Cardinality(Strayed) \in Nat
<1>1. IsFiniteSet(0..(Total - 1))
  BY TotalAssumption, FS_Interval
<1>2. IsFiniteSet(Keys \X (0..(Total - 1)))
  BY <1>1, FS_Product DEF RoomForAll
<1>3. Strayed \in SUBSET (Keys \X (0..(Total - 1)))
  BY DEF Strayed
<1> HIDE DEF Strayed
<1> QED BY <1>2, <1>3, FS_Subset, FS_CardinalityType

LEMMA MoveNearer ==
  ASSUME RoomForAll, HashInv, SortMove, Cardinality(FreePairs) = 1
  PROVE  Cardinality(FreePairs') = 1 /\ Cardinality(Strayed') < Cardinality(Strayed)
<1>1. PICK from \in Addresses, to \in Addresses :
        /\ from # to /\ pairs[to] = Free
        /\ pairs'[from] = Free /\ pairs'[to] = pairs[from]
        /\ \A a \in Addresses : a # from /\ a # to => pairs'[a] = pairs[a]
        /\ to = FindAddr(pairs[from].key)
  BY SortMoveEffect DEF RoomForAll
<1> DEFINE key == pairs[from].key
<1>2. MaxTry = Total /\ TableTypeOK /\ Total \in Nat \ {0} /\ Free.key = 0
  BY TotalAssumption DEF RoomForAll, HashInv, Free
<1>3. FreePairs = {to}
  <2>1. to \in FreePairs
    BY <1>1, <1>2 DEF FreePairs
  <2>2. IsFiniteSet(FreePairs)
    <3>1. FreePairs \in SUBSET Addresses /\ IsFiniteSet(Addresses)
      BY TotalAssumption, FS_Interval DEF FreePairs, Addresses
    <3> QED BY <3>1, FS_Subset
  <2>3. \E x : FreePairs = {x}
    BY <2>2, FS_Singleton
  <2> QED BY <2>1, <2>3
<1>4. key # 0
  BY <1>1, <1>3 DEF FreePairs
<1>5. key \in Keys /\ key \in Nat
  BY <1>2, <1>4, TableTypes
<1>6. FreePairs' = {from}
  <2>1. \A a \in Addresses : pairs'[a].key = 0 <=> a = from
    <3> TAKE a \in Addresses
    <3>1. CASE a = from
      BY <1>1, <1>2, <3>1
    <3>2. CASE a = to
      BY <1>1, <1>4, <3>2
    <3>3. CASE a # from /\ a # to
      BY <1>1, <1>3, <3>3 DEF FreePairs
    <3> QED BY <3>1, <3>2, <3>3
  <2> QED BY <1>1, <2>1 DEF FreePairs
<1>7. Cardinality(FreePairs') = 1
  BY <1>6, FS_Singleton
<1>8. PICK j : Ends(pairs, key, j) /\ to = Probe(key, j)
  BY <1>1, <1>2, <1>5, SearchMeets
<1>9. PICK m \in 0..(Total - 1) : Probe(key, m) = from
  BY <1>5, ProbeReaches
<1>10. j \in 0..(Total - 1) /\ j < m
  <2>1. j \in 0..(Total - 1) /\ j # m
    BY <1>1, <1>8, <1>9 DEF Ends
  <2>2. ~(m \in 0..(j - 1))
    BY <1>8, <1>9 DEF Ends
  <2> QED BY <1>2, <2>1, <2>2
<1>11. \A k \in Keys, n \in 0..(Total - 1) : Probe(k, n) \in Addresses /\ k # 0
  <2> TAKE k \in Keys, n \in 0..(Total - 1)
  <2>1. k \in Nat /\ k # 0 /\ n \in 0..Total
    BY KeysAssumption, TotalAssumption
  <2> QED BY <2>1, ProbeReaches
<1> HIDE DEF key
<1>12. key = pairs[from].key
  BY DEF key
<1>13. Strayed' \subseteq Strayed
  <2>0. SUFFICES ASSUME NEW k \in Keys, NEW n \in 0..(Total - 1), NEW i \in 0..(Total - 1),
                      n < i, pairs'[Probe(k, i)].key = k
               PROVE  \E l \in 0..(Total - 1) : n < l /\ pairs[Probe(k, l)].key = k
    BY DEF Strayed
  <2>1. CASE Probe(k, i) = to
    <3>1. k = key
      BY <1>1, <1>12, <2>0, <2>1
    <3>2. i = j
      BY <1>5, <1>8, <1>10, <2>1, <3>1, ProbeReaches
    <3> QED BY <1>2, <1>9, <1>10, <1>12, <2>0, <3>1, <3>2
  <2>2. CASE Probe(k, i) # to
    <3>1. Probe(k, i) # from /\ Probe(k, i) \in Addresses
      BY <1>1, <1>2, <1>11, <2>0
    <3> QED BY <1>1, <2>0, <2>2, <3>1
  <2> QED BY <2>1, <2>2
<1>14. <<key, j>> \in Strayed
  BY <1>5, <1>9, <1>10, <1>12 DEF Strayed
<1>15. <<key, j>> \notin Strayed'
  <2>0. SUFFICES ASSUME NEW i \in 0..(Total - 1), j < i, pairs'[Probe(key, i)].key = key
               PROVE  FALSE
    BY DEF Strayed
  <2>1. Probe(key, i) # to
    <3>1. i # j
      BY <1>10, <2>0
    <3> QED BY <1>5, <1>8, <1>10, <3>1, ProbeReaches
  <2>2. Probe(key, i) # from /\ Probe(key, i) \in Addresses
    BY <1>1, <1>2, <1>4, <1>5, <1>11, <2>0 DEF key
  <2>3. pairs[Probe(key, i)].key = key
    BY <1>1, <2>0, <2>1, <2>2
  <2> QED BY <1>4, <1>12, <2>2, <2>3 DEF HashInv, key
<1>16. Cardinality(Strayed') < Cardinality(Strayed)
  <2>1. IsFiniteSet(Strayed) /\ Cardinality(Strayed) \in Nat
    BY StrayedFinite
  <2>2. Strayed' \in SUBSET Strayed /\ Strayed' # Strayed
    BY <1>13, <1>14, <1>15
  <2> DEFINE s == Strayed
             t == Strayed'
  <2> HIDE DEF s, t
  <2>3. t \in SUBSET s /\ t # s /\ IsFiniteSet(s) /\ Cardinality(s) \in Nat
    BY <2>1, <2>2 DEF s, t
  <2>4. IsFiniteSet(t) /\ Cardinality(t) <= Cardinality(s) /\ Cardinality(t) # Cardinality(s)
    BY <2>3, FS_Subset
  <2>5. Cardinality(t) \in Nat
    BY <2>4, FS_CardinalityType
  <2>6. Cardinality(t) < Cardinality(s)
    BY <2>3, <2>4, <2>5
  <2> QED BY <2>6 DEF s, t
<1> QED BY <1>7, <1>16

\* hash_del from a full table gets nearer to its return with every iteration of hash_sort:
\* one free pair stays one, a move brings a key nearer to its home, and between two moves
\* the loop counts (src/lib/hash_table.c:61).
THEOREM FullDelNearsEnd ==
  ASSUME RoomForAll
  PROVE  TableSpec => [][NearerEnd]_tableVars
<1>1. HashInv /\ [TableNext]_tableVars => [NearerEnd]_tableVars
  <2> SUFFICES ASSUME HashInv, TableNext, Sorting, Cardinality(FreePairs) = 1
               PROVE  \/ ~Sorting'
                      \/ /\ Cardinality(FreePairs') = 1
                         /\ \/ Cardinality(Strayed') < Cardinality(Strayed)
                            \/ Strayed' = Strayed /\ MaxTry - tries' < MaxTry - tries
    BY DEF NearerEnd
  <2>1. CASE SortKeep
    <3>1. pairs' = pairs /\ tries' = tries + 1 /\ tries \in Nat /\ MaxTry \in Nat
      BY <2>1, TotalAssumption DEF SortKeep, HashInv, TableTypeOK
    <3>2. FreePairs' = FreePairs /\ Strayed' = Strayed
      BY <3>1 DEF FreePairs, Strayed
    <3>3. MaxTry - tries' < MaxTry - tries
      BY <3>1
    <3> QED BY <3>2, <3>3
  <2>2. CASE SortMove
    BY <2>2, MoveNearer
  <2>3. CASE SortDone
    BY <2>3 DEF SortDone, Sorting
  <2> QED BY <2>1, <2>2, <2>3 DEF TableNext, HashDel, HashSet
<1> QED BY <1>1, TableInvariance, PTL DEF TableSpec

-----------------------------------------------------------------------------
(***************************************************************************)
(* The conversions of lib/stdlib.c and lib/bcd.c.  The loops of itoa are   *)
(* recursive functions; each is compared, step by step, with what it has   *)
(* made by then (Text, turned round as far as it is).                      *)
(***************************************************************************)

LEMMA IntFacts == IntMax \in Nat /\ IntMax < 10000000000
  BY SMT DEF IntMax

LEMMA TenPowers ==
  /\ 10^0 = 1 /\ 10^1 = 10 /\ 10^2 = 100 /\ 10^3 = 1000 /\ 10^4 = 10000 /\ 10^5 = 100000
  /\ 10^6 = 1000000 /\ 10^7 = 10000000 /\ 10^8 = 100000000 /\ 10^9 = 1000000000
  /\ 10^10 = 10000000000
  BY SMT

\* Each power up to the tenth is ten times the one before.
LEMMA NextPower ==
  ASSUME NEW k \in 0..9
  PROVE  10^k \in Nat /\ 10^k >= 1 /\ 10^(k + 1) = 10 * 10^k
<1>0. CASE k = 0
  BY <1>0, TenPowers, SMT
<1>1. CASE k = 1
  BY <1>1, TenPowers, SMT
<1>2. CASE k = 2
  BY <1>2, TenPowers, SMT
<1>3. CASE k = 3
  BY <1>3, TenPowers, SMT
<1>4. CASE k = 4
  BY <1>4, TenPowers, SMT
<1>5. CASE k = 5
  BY <1>5, TenPowers, SMT
<1>6. CASE k = 6
  BY <1>6, TenPowers, SMT
<1>7. CASE k = 7
  BY <1>7, TenPowers, SMT
<1>8. CASE k = 8
  BY <1>8, TenPowers, SMT
<1>9. CASE k = 9
  BY <1>9, TenPowers, SMT
<1> QED BY <1>0, <1>1, <1>2, <1>3, <1>4, <1>5, <1>6, <1>7, <1>8, <1>9, SMT

\* n is written with d digits, and with no fewer.
HasDigits(n, d) == d \in 1..10 /\ n < 10^d /\ \A j \in 1..(d - 1) : n >= 10^j
Digits(n) == CHOOSE d \in 1..10 : HasDigits(n, d)

LEMMA DigitsIs ==
  ASSUME NEW n \in Magnitudes
  PROVE  /\ n \in Nat /\ Digits(n) \in 1..10 /\ HasDigits(n, Digits(n))
         /\ \A d \in 1..10 : HasDigits(n, d) => d = Digits(n)
<1> DEFINE T == {d \in 1..10 : n < 10^d}
<1>1. n \in Nat /\ n < 10000000000
  BY IntFacts, SMT DEF Magnitudes
<1>2. n < 10^10
  BY <1>1, TenPowers, SMT
<1>3. 10 \in T /\ T \subseteq Nat
  BY <1>2
<1>4. PICK d \in T : \A j \in T : d <= j
  <2> HIDE DEF T
  <2> QED BY <1>3, LeastExists
<1>5. HasDigits(n, d)
  <2>1. ASSUME NEW j \in 1..(d - 1) PROVE n >= 10^j
    <3>1. j \in 1..10 /\ j \notin T /\ j \in 0..10
      BY <1>4
    <3>2. ~(n < 10^j) /\ 10^j \in Nat
      <4>1. j \in 0..9
        BY <1>4
      <4> QED BY <3>1, <4>1, NextPower
    <3> QED BY <1>1, <3>2
  <2> QED BY <1>4, <2>1 DEF HasDigits
<1>6. Digits(n) \in 1..10 /\ HasDigits(n, Digits(n))
  <2>1. \E e \in 1..10 : HasDigits(n, e)
    BY <1>4, <1>5
  <2> QED BY <2>1 DEF Digits
<1>7. ASSUME NEW e \in 1..10, NEW f \in 1..10, HasDigits(n, e), HasDigits(n, f), e < f
      PROVE  FALSE
  <2>1. n < 10^e /\ n >= 10^e
    BY <1>7 DEF HasDigits
  <2>2. 10^e \in Nat
    <3>1. e \in 0..9
      BY <1>7
    <3> QED BY <3>1, NextPower
  <2> HIDE DEF T
  <2> QED BY <1>1, <2>1, <2>2
<1>8. \A e \in 1..10 : HasDigits(n, e) => e = Digits(n)
  <2>1. Digits(n) \in Nat /\ \A e \in 1..10 : e \in Nat
    BY <1>6
  <2>2. SUFFICES ASSUME NEW e \in 1..10, HasDigits(n, e), e # Digits(n) PROVE FALSE
    OBVIOUS
  <2>3. e < Digits(n) \/ Digits(n) < e
    BY <2>1, <2>2
  <2> QED BY <1>6, <1>7, <2>2, <2>3
<1> QED BY <1>1, <1>6, <1>8

\* To leave out the last digit and then more of them is to leave out one more.
LEMMA LeaveOut ==
  ASSUME NEW n \in Nat, NEW p \in Nat, p >= 1
  PROVE  (n \div 10) \div p = n \div (10 * p) /\ n \div p \in Nat
  BY SMT

LEMMA OneDigitLeft ==
  ASSUME NEW n \in Nat, NEW p \in Nat, p >= 1, n < 10 * p
  PROVE  n \div p \in 0..9
  BY SMT

\* A number has one digit more than its tenth.
LEMMA DigitsStep ==
  ASSUME NEW n \in Magnitudes
  PROVE  /\ n < 10 => Digits(n) = 1
         /\ n >= 10 => n \div 10 \in Magnitudes /\ Digits(n) = Digits(n \div 10) + 1
<1>1. n \in Nat /\ n <= IntMax
  BY IntFacts, SMT DEF Magnitudes
<1>2. CASE n < 10
  <2>1. HasDigits(n, 1)
    <3>1. n < 10^1
      BY <1>2, TenPowers
    <3> QED BY <3>1 DEF HasDigits
  <2> QED BY <1>1, <1>2, <2>1, DigitsIs
<1>3. CASE n >= 10
  <2> DEFINE m == n \div 10
             d == Digits(n)
             e == Digits(m)
  <2>1. m \in Nat /\ m <= IntMax
    BY <1>1, IntFacts, SMT
  <2>2. m \in Magnitudes
    BY <2>1, IntFacts, SMT DEF Magnitudes
  <2>3. m \in Nat /\ d \in 1..10 /\ HasDigits(n, d) /\ e \in 1..10 /\ HasDigits(m, e)
    BY <2>2, DigitsIs
  <2>4. \A p \in Nat : n < 10 * p <=> m < p
    BY <1>1, SMT
  <2> HIDE DEF m, d, e
  <2>5. d > 1
    <3>1. SUFFICES ASSUME d = 1 PROVE FALSE
      BY <2>3
    <3>2. n < 10^1
      BY <2>3, <3>1 DEF HasDigits
    <3> QED BY <1>1, <1>3, <3>2, TenPowers
  <2>6. m < 10^(d - 1)
    <3>1. d - 1 \in 0..9 /\ (d - 1) + 1 = d
      BY <2>3
    <3>2. 10^(d - 1) \in Nat /\ 10^d = 10 * 10^(d - 1)
      BY <3>1, NextPower
    <3>3. n < 10^d
      BY <2>3 DEF HasDigits
    <3> DEFINE p == 10^(d - 1)
    <3>4. n < 10 * p /\ p \in Nat
      BY <3>2, <3>3
    <3> HIDE DEF p
    <3>5. m < p
      BY <2>4, <3>4
    <3> QED BY <3>5 DEF p
  <2>7. e <= d - 1
    <3>1. SUFFICES ASSUME e > d - 1 PROVE FALSE
      BY <2>3
    <3>2. d - 1 \in 1..(e - 1) /\ d - 1 \in 0..9
      BY <2>3, <2>5, <3>1
    <3>3. m >= 10^(d - 1) /\ 10^(d - 1) \in Nat
      BY <2>3, <3>2, NextPower DEF HasDigits
    <3> QED BY <2>3, <2>6, <3>3
  <2>8. d <= e + 1
    <3>1. SUFFICES ASSUME d > e + 1 PROVE FALSE
      BY <2>3
    <3>2. e + 1 \in 1..(d - 1) /\ e \in 0..9
      BY <2>3, <3>1
    <3>3. n >= 10^(e + 1) /\ m < 10^e
      BY <2>3, <3>2 DEF HasDigits
    <3>4. 10^e \in Nat /\ 10^(e + 1) = 10 * 10^e
      BY <3>2, NextPower
    <3> DEFINE p == 10^e
    <3>5. n >= 10 * p /\ m < p /\ p \in Nat
      BY <3>3, <3>4
    <3> HIDE DEF p
    <3> QED BY <1>1, <2>4, <3>5
  <2>9. d = e + 1
    BY <2>3, <2>7, <2>8
  <2> QED BY <1>3, <1>1, <2>2, <2>9 DEF m, d, e
<1> QED BY <1>1, <1>2, <1>3

\* The digits of n, the lowest one first
Text(n) == [i \in 1..Digits(n) |-> (n \div 10^(i - 1)) % 10]

LEMMA TextStep ==
  ASSUME NEW n \in Magnitudes
  PROVE  Text(n) = IF n < 10 THEN <<n>> ELSE <<n % 10>> \o Text(n \div 10)
<1>1. n \in Nat
  BY DigitsIs
<1>2. CASE n < 10
  <2>1. Digits(n) = 1
    BY <1>2, DigitsStep
  <2>2. Text(n) = [i \in 1..1 |-> (n \div 10^(i - 1)) % 10]
    BY <2>1 DEF Text
  <2>3. ASSUME NEW i \in 1..1 PROVE (n \div 10^(i - 1)) % 10 = n
    <3>1. i = 1 /\ i - 1 = 0 /\ 10^0 = 1
      BY TenPowers
    <3>2. (n \div 1) % 10 = n
      BY <1>1, <1>2, SMT
    <3> QED BY <3>1, <3>2
  <2>4. Text(n) = [i \in 1..1 |-> n]
    BY <2>2, <2>3
  <2>5. <<n>> = [i \in 1..1 |-> n]
    OBVIOUS
  <2> QED BY <1>2, <2>4, <2>5
<1>3. CASE n >= 10
  <2> DEFINE m == n \div 10
             d == Digits(n)
             e == Digits(m)
             digit(x, i) == (x \div 10^(i - 1)) % 10
  <2>1. m \in Magnitudes /\ m \in Nat /\ d = e + 1 /\ e \in 1..10 /\ d \in 1..10
    BY <1>3, DigitsStep, DigitsIs
  <2>2. \A x \in Nat, i \in 1..10 : digit(x, i) \in 0..9
    <3> SUFFICES ASSUME NEW x \in Nat, NEW i \in 1..10 PROVE digit(x, i) \in 0..9
      OBVIOUS
    <3>1. i - 1 \in 0..9
      OBVIOUS
    <3>2. x \div 10^(i - 1) \in Nat
      BY <3>1, NextPower, LeaveOut
    <3> DEFINE y == x \div 10^(i - 1)
    <3> HIDE DEF y
    <3>3. y \in Nat => y % 10 \in 0..9
      BY SMT
    <3> QED BY <3>2, <3>3 DEF y
  <2>3. digit(n, 1) = n % 10
    <3>1. 1 - 1 = 0 /\ 10^0 = 1 /\ n \div 1 = n
      BY <1>1, TenPowers, SMT
    <3> QED BY <3>1
  <2>4. ASSUME NEW i \in 1..e PROVE digit(n, i + 1) = digit(m, i)
    <3>1. i - 1 \in 0..9 /\ (i + 1) - 1 = (i - 1) + 1
      BY <2>1
    <3>2. 10^(i - 1) \in Nat /\ 10^(i - 1) >= 1 /\ 10^((i - 1) + 1) = 10 * 10^(i - 1)
      BY <3>1, NextPower
    <3>3. m \div 10^(i - 1) = n \div (10 * 10^(i - 1))
      BY <1>1, <3>2, LeaveOut
    <3> QED BY <3>1, <3>2, <3>3
  <2>5. Text(n) = [i \in 1..(e + 1) |-> digit(n, i)] /\ Text(m) = [i \in 1..e |-> digit(m, i)]
    BY <2>1 DEF Text
  <2> HIDE DEF digit, d, e
  <2>6. Text(m) \in Seq(Nat) /\ Len(Text(m)) = e /\ <<n % 10>> \in Seq(Nat)
    <3>1. Text(m) \in [1..e -> Nat]
      BY <2>1, <2>2, <2>5
    <3>2. n % 10 \in Nat
      BY <1>1, SMT
    <3> QED BY <2>1, <3>1, <3>2
  <2>7. ASSUME NEW i \in 1..(e + 1) PROVE (<<n % 10>> \o Text(m))[i] = digit(n, i)
    <3>1. CASE i = 1
      BY <2>1, <2>3, <2>6, <3>1
    <3>2. CASE i # 1
      <4>1. i - 1 \in 1..e /\ (i - 1) + 1 = i
        BY <2>1, <3>2
      <4>2. (<<n % 10>> \o Text(m))[i] = Text(m)[i - 1]
        BY <2>1, <2>6, <3>2
      <4> QED BY <2>4, <2>5, <4>1, <4>2
    <3> QED BY <3>1, <3>2
  <2>8. DOMAIN (<<n % 10>> \o Text(m)) = 1..(e + 1)
    BY <2>1, <2>6
  <2>9. <<n % 10>> \o Text(m) = [i \in 1..(e + 1) |-> (<<n % 10>> \o Text(m))[i]]
    BY <2>8, <2>6
  <2>10. <<n % 10>> \o Text(m) = Text(n)
    BY <2>5, <2>7, <2>9
  <2> QED BY <1>1, <1>3, <2>10 DEF m
<1> QED BY <1>1, <1>2, <1>3

LEMMA BackwardsIs ==
  ASSUME NEW n \in Magnitudes
  PROVE  Backwards[n] = Text(n)
<1> DEFINE def(g) == [x \in Magnitudes |->
                        IF x < 10 THEN <<x>> ELSE <<x % 10>> \o g[x \div 10]]
           c == [x \in Magnitudes |-> Text(x)]
<1>1. \A x \in Magnitudes : x \in Nat
  BY DigitsIs
<1>2. ASSUME NEW x \in Magnitudes, x >= 10 PROVE x \div 10 \in Magnitudes /\ x \div 10 < x
  <2>1. x \div 10 < x
    BY <1>1, <1>2, SMT
  <2> QED BY <1>2, <2>1, DigitsStep
<1>3. c = def(c)
  <2>1. ASSUME NEW x \in Magnitudes
        PROVE  c[x] = IF x < 10 THEN <<x>> ELSE <<x % 10>> \o c[x \div 10]
    BY <1>1, <1>2, TextStep
  <2> HIDE DEF c
  <2>2. def(c) = [x \in Magnitudes |-> c[x]]
    BY <2>1
  <2> QED BY <2>2 DEF c
<1> HIDE DEF c
<1>4. Backwards = def(Backwards)
  <2>1. Backwards = CHOOSE g : g = def(g)
    BY DEF Backwards
  <2> DEFINE b == CHOOSE g : g = def(g)
  <2>2. b = def(b)
    BY <1>3
  <2> QED BY <2>1, <2>2
<1>5. \A x \in Magnitudes : x >= 10 => Backwards[x] = <<x % 10>> \o Backwards[x \div 10]
  <2>1. \A x \in Magnitudes :
          Backwards[x] = IF x < 10 THEN <<x>> ELSE <<x % 10>> \o Backwards[x \div 10]
    BY <1>4
  <2>2. \A x \in Magnitudes : x >= 10 => ~(x < 10)
    BY <1>1
  <2> QED BY <2>1, <2>2, Zenon
<1>6. \A x \in Magnitudes : x < 10 => Backwards[x] = <<x>>
  BY <1>4
<1>7. \A x \in Magnitudes : Backwards[x] = Text(x)
  <2> DEFINE Bad == {x \in Magnitudes : Backwards[x] # Text(x)}
  <2> SUFFICES ASSUME Bad # {} PROVE FALSE
    OBVIOUS
  <2>1. PICK x \in Bad : \A y \in Bad : x <= y
    <3>1. Bad \subseteq Nat
      BY <1>1
    <3> HIDE DEF Bad
    <3> QED BY <3>1, LeastExists
  <2>2. x \in Magnitudes /\ x \in Nat /\ Backwards[x] # Text(x)
    BY <1>1, <2>1
  <2>3. x >= 10
    <3>1. x < 10 => Backwards[x] = Text(x)
      BY <1>6, <2>2, TextStep
    <3> QED BY <2>2, <3>1
  <2> DEFINE y == x \div 10
  <2>4. y \in Magnitudes /\ y < x /\ y \in Nat
    BY <1>1, <1>2, <2>2, <2>3
  <2>5. y \notin Bad
    <3> HIDE DEF Bad, y
    <3> QED BY <2>1, <2>2, <2>4
  <2>6. Backwards[y] = Text(y)
    BY <2>4, <2>5
  <2>7. Text(x) = <<x % 10>> \o Text(y)
    BY <2>2, <2>3, TextStep
  <2> QED BY <1>5, <2>2, <2>3, <2>6, <2>7
<1> QED BY <1>7

LEMMA StrlenIs ==
  ASSUME NEW s \in [Room -> Int], NEW n \in Room, s[n] = Nul, \A k \in 0..(n - 1) : s[k] # Nul
  PROVE  Strlen(s) = n
<1>1. \A m \in Room : s[m] = Nul /\ (\A k \in 0..(m - 1) : s[k] # Nul) => m = n
  <2> SUFFICES ASSUME NEW m \in Room, s[m] = Nul, \A k \in 0..(m - 1) : s[k] # Nul, m # n
               PROVE  FALSE
    OBVIOUS
  <2>1. m \in 0..(n - 1) \/ n \in 0..(m - 1)
    BY DEF Room
  <2> QED BY <2>1
<1> QED BY <1>1 DEF Strlen

\* The buffer after the first loop of itoa
LEMMA StoredIs ==
  ASSUME NEW n \in Magnitudes, NEW s \in [Room -> Int]
  PROVE  /\ Stored(s, n) \in [Room -> Int] /\ Strlen(Stored(s, n)) = Digits(n)
         /\ Stored(s, n)[Digits(n)] = Nul
         /\ \A k \in 0..(Digits(n) - 1) : Stored(s, n)[k] = (n \div 10^k) % 10
<1> DEFINE d == Digits(n)
           t == Stored(s, n)
           digits == Backwards[n] \o <<Nul>>
<1>1. n \in Nat /\ d \in 1..10
  BY DigitsIs
<1>2. ASSUME NEW k \in 0..(d - 1)
      PROVE  /\ (n \div 10^k) % 10 \in 0..9
             /\ k + 1 \in 1..d /\ (k + 1) - 1 = k
  <2>1. k \in 0..9 /\ k + 1 \in 1..d /\ (k + 1) - 1 = k
    BY <1>1
  <2>2. n \div 10^k \in Nat
    BY <1>1, <2>1, NextPower, LeaveOut
  <2> DEFINE y == n \div 10^k
  <2> HIDE DEF y
  <2>3. y \in Nat => y % 10 \in 0..9
    BY SMT
  <2> QED BY <2>1, <2>2, <2>3 DEF y
<1>3. Backwards[n] = [i \in 1..d |-> (n \div 10^(i - 1)) % 10]
  BY BackwardsIs DEF Text
<1> HIDE DEF d
<1>4. Backwards[n] \in Seq(Int) /\ Len(Backwards[n]) = d
  <2>1. ASSUME NEW i \in 1..d PROVE (n \div 10^(i - 1)) % 10 \in Int
    <3>1. i - 1 \in 0..(d - 1)
      BY <1>1
    <3> QED BY <1>2, <3>1
  <2>2. Backwards[n] \in [1..d -> Int]
    BY <1>3, <2>1
  <2> QED BY <1>1, <2>2
<1>5. /\ Len(digits) = d + 1 /\ digits[d + 1] = Nul
      /\ \A i \in 1..d : digits[i] = Backwards[n][i]
  <2>1. <<Nul>> \in Seq(Int) /\ Len(<<Nul>>) = 1 /\ <<Nul>>[1] = Nul
    BY DEF Nul
  <2>2. \A a, b \in Seq(Int) : /\ Len(a \o b) = Len(a) + Len(b)
                               /\ \A i \in 1..Len(a) : (a \o b)[i] = a[i]
                               /\ Len(b) = 1 => (a \o b)[Len(a) + 1] = b[1]
    OBVIOUS
  <2> QED BY <1>4, <2>1, <2>2
<1>6. t = [k \in Room |-> IF k < Len(digits) THEN digits[k + 1] ELSE s[k]]
  BY DEF Stored
<1> HIDE DEF digits, t
<1>7. t \in [Room -> Int]
  <2>1. ASSUME NEW k \in Room PROVE t[k] \in Int
    <3>1. CASE k < Len(digits)
      <4>1. k + 1 \in 1..d \/ k + 1 = d + 1
        BY <1>1, <1>5, <3>1 DEF Room
      <4>2. \A i \in 1..d : Backwards[n][i] \in Int
        BY <1>1, <1>4
      <4>3. digits[k + 1] \in Int
        BY <1>5, <4>1, <4>2 DEF Nul
      <4> QED BY <1>6, <3>1, <4>3
    <3>2. CASE ~(k < Len(digits))
      BY <1>6, <3>2
    <3> QED BY <3>1, <3>2
  <2> QED BY <1>6, <2>1
<1>8. ASSUME NEW k \in 0..(d - 1) PROVE t[k] = (n \div 10^k) % 10 /\ t[k] # Nul
  <2>1. k \in Room /\ k < d + 1
    BY <1>1 DEF Room
  <2>2. t[k] = digits[k + 1]
    BY <1>5, <1>6, <2>1
  <2>3. t[k] = (n \div 10^((k + 1) - 1)) % 10
    BY <1>2, <1>3, <1>5, <2>2
  <2>4. t[k] = (n \div 10^k) % 10 /\ t[k] \in 0..9
    BY <1>2, <2>3
  <2> QED BY <2>4 DEF Nul
<1>9. d \in Room /\ t[d] = Nul
  <2>1. d \in Room /\ d < d + 1
    BY <1>1 DEF Room
  <2> QED BY <1>5, <1>6, <2>1
<1>10. Strlen(t) = d
  BY <1>7, <1>8, <1>9, StrlenIs
<1> QED BY <1>7, <1>8, <1>9, <1>10 DEF t, d

\* Which of len digits have changed places after i rounds of the second loop: the outer i
\* on either side; after the last round all, except for two in the middle.
Turned(len, i, k) ==
  /\ k < len
  /\ IF i = SwapCount(len) THEN ~InMiddle(len, k) ELSE k < i \/ k >= len - i

LEMMA TurnedIs ==
  ASSUME NEW s \in [Room -> Int], NEW len \in 1..10, Strlen(s) = len
  PROVE  TurnedRound(s) =
           [k \in Room |-> IF k < len /\ ~InMiddle(len, k) THEN s[len - 1 - k] ELSE s[k]]
<1> DEFINE count == SwapCount(len)
           def(g) == [i \in 0..count |->
                        IF i = 0 THEN s
                        ELSE [g[i - 1] EXCEPT ![i - 1] = g[i - 1][len - i],
                                              ![len - i] = g[i - 1][i - 1]]]
           turned == CHOOSE g : g = def(g)
           row(i) == [k \in Room |-> IF Turned(len, i, k) THEN s[len - 1 - k] ELSE s[k]]
           c == [i \in 0..count |-> row(i)]
<1>1. /\ count \in 1..6 /\ count = len \div 2 + 1
      /\ len = 2 * (count - 1) \/ len = 2 * (count - 1) + 1
      /\ len % 2 = 0 <=> len = 2 * (count - 1)
  BY SMT DEF SwapCount
<1>2. TurnedRound(s) = turned[count]
  BY DEF TurnedRound
<1>3. \A k : InMiddle(len, k) <=> len = 2 * (count - 1) /\ k \in {count - 2, count - 1}
  BY <1>1 DEF InMiddle
<1> HIDE DEF count
<1>4. row(0) = s
  <2>1. ASSUME NEW k \in Room PROVE ~Turned(len, 0, k)
    BY <1>1 DEF Turned, Room, count
  <2>2. row(0) = [k \in Room |-> s[k]]
    BY <2>1
  <2> QED BY <2>2
<1>5. ASSUME NEW i \in 1..count
      PROVE  row(i) = [row(i - 1) EXCEPT ![i - 1] = row(i - 1)[len - i],
                                         ![len - i] = row(i - 1)[i - 1]]
  <2>1. i - 1 \in Room /\ len - i \in Room /\ i - 1 < len
    BY <1>1 DEF Room
  <2> DEFINE r == row(i - 1)
  <2>2. ASSUME NEW k \in Room
        PROVE  row(i)[k] = IF k = len - i THEN r[i - 1]
                           ELSE IF k = i - 1 THEN r[len - i] ELSE r[k]
    BY <1>1, <1>3, <2>1 DEF Turned, Room, count
  <2> QED BY <2>1, <2>2
<1> HIDE DEF row
<1>6. c = def(c)
  <2>1. ASSUME NEW i \in 0..count
        PROVE  c[i] = IF i = 0 THEN s
                      ELSE [c[i - 1] EXCEPT ![i - 1] = c[i - 1][len - i],
                                            ![len - i] = c[i - 1][i - 1]]
    <3>1. CASE i = 0
      BY <1>4, <3>1
    <3>2. CASE i # 0
      <4>1. i \in 1..count /\ i - 1 \in 0..count
        BY <1>1, <3>2
      <4> QED BY <1>5, <3>2, <4>1
    <3> QED BY <3>1, <3>2
  <2> HIDE DEF c
  <2>2. def(c) = [i \in 0..count |-> c[i]]
    BY <2>1
  <2> QED BY <2>2 DEF c
<1> HIDE DEF c
<1>7. turned = def(turned)
  BY <1>6
<1> HIDE DEF turned
<1>8. /\ turned[0] = s
      /\ \A i \in 0..count : i # 0 =>
           turned[i] = [turned[i - 1] EXCEPT ![i - 1] = turned[i - 1][len - i],
                                             ![len - i] = turned[i - 1][i - 1]]
  <2>1. 0 \in 0..count
    BY <1>1
  <2>2. \A i \in 0..count :
          turned[i] = IF i = 0 THEN s
                      ELSE [turned[i - 1] EXCEPT ![i - 1] = turned[i - 1][len - i],
                                                 ![len - i] = turned[i - 1][i - 1]]
    BY <1>7, Zenon
  <2> QED BY <2>1, <2>2, Zenon
<1>9. \A i \in 0..count : turned[i] = row(i)
  <2> DEFINE Bad == {i \in 0..count : turned[i] # row(i)}
  <2> SUFFICES ASSUME Bad # {} PROVE FALSE
    OBVIOUS
  <2>1. PICK m \in Bad : \A j \in Bad : m <= j
    <3>1. Bad \subseteq Nat
      BY <1>1
    <3> HIDE DEF Bad
    <3> QED BY <3>1, LeastExists
  <2>2. m \in 1..count /\ m \in 0..count /\ m # 0
    BY <1>4, <1>8, <2>1
  <2>3. turned[m - 1] = row(m - 1)
    BY <1>1, <2>1, <2>2
  <2>4. turned[m] = row(m)
    BY <1>5, <1>8, <2>2, <2>3
  <2> QED BY <2>1, <2>4
<1>10. TurnedRound(s) = row(count)
  BY <1>1, <1>2, <1>9
<1>11. \A k \in Room : Turned(len, count, k) <=> k < len /\ ~InMiddle(len, k)
  BY DEF Turned, count
<1> QED BY <1>10, <1>11 DEF row

\* The text itoa makes
LEMMA PositiveText ==
  ASSUME NEW n \in Magnitudes, str \in [Room -> Int], Itoa(n)
  PROVE  /\ Strlen(str') = Digits(n)
         /\ \A k \in 0..(Digits(n) - 1) :
              ~InMiddle(Digits(n), k) => str'[k] = DigitAt(n, Digits(n), k)
<1> DEFINE d == Digits(n)
<1>1. n \in Nat /\ d \in 1..10
  BY DigitsIs
<1>2. CASE n = 0
  <2>1. d = 1
    BY <1>2, DigitsStep
  <2>2. str' = [str EXCEPT ![0] = 0, ![1] = Nul]
    BY <1>2 DEF Itoa
  <2>3. 0 \in Room /\ 1 \in Room
    BY DEF Room
  <2>4. str' \in [Room -> Int] /\ str'[0] = 0 /\ str'[1] = Nul /\ str'[0] # Nul
    BY <2>2, <2>3 DEF Nul
  <2>5. Strlen(str') = 1
    BY <2>3, <2>4, StrlenIs
  <2>6. DigitAt(n, 1, 0) = 0
    BY <1>2, TenPowers, SMT DEF DigitAt
  <2> QED BY <2>1, <2>4, <2>5, <2>6
<1>3. CASE n # 0
  <2> DEFINE s == Stored(str, n)
  <2>1. /\ s \in [Room -> Int] /\ Strlen(s) = d /\ s[d] = Nul
        /\ \A k \in 0..(d - 1) : s[k] = (n \div 10^k) % 10
    BY StoredIs
  <2>2. str' = TurnedRound(s)
    BY <1>3 DEF Itoa
  <2> HIDE DEF s, d
  <2>3. str' = [k \in Room |-> IF k < d /\ ~InMiddle(d, k) THEN s[d - 1 - k] ELSE s[k]]
    BY <1>1, <2>1, <2>2, TurnedIs
  <2>4. ASSUME NEW k \in 0..(d - 1), ~InMiddle(d, k) PROVE str'[k] = DigitAt(n, d, k)
    <3>1. k \in Room /\ k < d /\ d - 1 - k \in 0..(d - 1)
      BY <1>1 DEF Room
    <3>2. str'[k] = s[d - 1 - k]
      BY <2>3, <2>4, <3>1
    <3> QED BY <2>1, <3>1, <3>2 DEF DigitAt
  <2>5. Strlen(str') = d
    <3>1. str' \in [Room -> Int]
      <4>1. ASSUME NEW k \in Room, k < d PROVE d - 1 - k \in Room
        BY <1>1, <4>1 DEF Room
      <4> QED BY <2>1, <2>3, <4>1
    <3>2. \A k \in 0..(d - 1) : s[k] # Nul
      <4> TAKE k \in 0..(d - 1)
      <4>1. k \in 0..9
        BY <1>1
      <4>2. n \div 10^k \in Nat
        BY <1>1, <4>1, NextPower, LeaveOut
      <4> DEFINE y == n \div 10^k
      <4> HIDE DEF y
      <4>3. y \in Nat => y % 10 \in 0..9
        BY SMT
      <4>4. s[k] \in 0..9
        BY <2>1, <4>2, <4>3 DEF y
      <4> QED BY <4>4 DEF Nul
    <3>3. ASSUME NEW k \in 0..(d - 1) PROVE str'[k] # Nul
      <4>1. k \in Room /\ d - 1 - k \in 0..(d - 1)
        BY <1>1 DEF Room
      <4> QED BY <2>3, <3>2, <4>1
    <3>4. d \in Room /\ str'[d] = Nul
      <4>1. d \in Room
        BY <1>1 DEF Room
      <4> QED BY <1>1, <2>1, <2>3, <4>1
    <3> QED BY <3>1, <3>3, <3>4, StrlenIs
  <2> QED BY <2>4, <2>5 DEF d
<1> QED BY <1>2, <1>3

\* Each buffer is converted into once, so that its first content is all that matters.
NumInv == (call = "none" => str \in [Room -> Int]) /\ DigitsRight

\* The text and the number made from a BCD byte
LEMMA BcdText ==
  ASSUME NEW bcd \in 0..255, str \in [Room -> Int], Dbcd(bcd)
  PROVE  DigitsRight'
<1> DEFINE low == bcd % 16
           high == bcd \div 16
<1>1. low \in 0..15 /\ high \in 0..15
  BY SMT
<1>2. call' = "dbcd" /\ number' = low + high * 10 /\ str'[0] = high /\ str'[1] = low
  BY DEF Dbcd, DbcdToInt, Room
<1> HIDE DEF low, high
<1>3. ASSUME high < 10, low < 10
      PROVE  DigitAt(number', 2, 0) = high /\ DigitAt(number', 2, 1) = low
  <2>1. /\ DigitAt(number', 2, 0) = (number' \div 10^1) % 10
        /\ DigitAt(number', 2, 1) = (number' \div 10^0) % 10
    BY DEF DigitAt
  <2>2. ((low + high * 10) \div 10) % 10 = high /\ ((low + high * 10) \div 1) % 10 = low
    BY <1>1, <1>3, SMT
  <2> QED BY <1>2, <2>1, <2>2, TenPowers
<1>4. 0..1 = {0, 1}
  OBVIOUS
<1> QED BY <1>2, <1>3, <1>4 DEF DigitsRight

LEMMA ItoaText ==
  ASSUME NEW n \in Samples, str \in [Room -> Int], Itoa(n)
  PROVE  DigitsRight'
<1> DEFINE d == Digits(n)
<1>1. n \in Magnitudes
  BY NumbersAssumption DEF Magnitudes
<1>2. call' = "itoa" /\ number' = n
  BY DEF Itoa
<1>3. n \in Nat /\ d \in 1..10 /\ HasDigits(n, d)
  BY <1>1, DigitsIs
<1>4. /\ Strlen(str') = d
      /\ \A k \in 0..(d - 1) : ~InMiddle(d, k) => str'[k] = DigitAt(n, d, k)
  BY <1>1, PositiveText
<1> HIDE DEF d
<1>5. n < 10 * 10^(d - 1) /\ 10^(d - 1) \in Nat /\ 10^(d - 1) >= 1
  <2>1. d - 1 \in 0..9 /\ (d - 1) + 1 = d
    BY <1>3
  <2> QED BY <1>3, <2>1, NextPower DEF HasDigits
<1>6. n \div 10^(d - 1) \in 0..9
  BY <1>3, <1>5, OneDigitLeft
<1>7. d > 1 => n >= 10^(d - 1)
  BY <1>3 DEF HasDigits
<1> QED BY <1>2, <1>4, <1>6, <1>7 DEF DigitsRight

\* The digits itoa writes of a number from 0 on are those of the number, except for the
\* two in the middle of an even number of them; a BCD byte becomes the same number as text
\* and as integer (src/lib/stdlib.c:12, src/lib/bcd.c:11).
THEOREM DigitsOfNumber == NumbersSpec => []DigitsRight
<1>1. NumbersInit => NumInv
  BY DEF NumbersInit, NumInv, DigitsRight, Nul, Rest
<1>2. NumInv /\ [NumbersNext]_numberVars => NumInv'
  <2> SUFFICES ASSUME NumInv, [NumbersNext]_numberVars PROVE NumInv'
    OBVIOUS
  <2>1. CASE UNCHANGED numberVars
    BY <2>1 DEF NumInv, DigitsRight, numberVars, Strlen, DigitAt
  <2>2. CASE NumbersNext
    <3>1. str \in [Room -> Int]
      BY <2>2 DEF NumbersNext, NumInv
    <3>2. ASSUME NEW n \in Samples, Itoa(n) PROVE NumInv'
      BY <3>1, <3>2, ItoaText DEF NumInv, Itoa
    <3>3. ASSUME NEW bcd \in BcdBytes, Dbcd(bcd) PROVE NumInv'
      <4>1. bcd \in 0..255
        BY NumbersAssumption
      <4> QED BY <3>1, <3>3, <4>1, BcdText DEF NumInv, Dbcd
    <3> QED BY <2>2, <3>2, <3>3 DEF NumbersNext
  <2> QED BY <2>1, <2>2
<1> QED BY <1>1, <1>2, PTL DEF NumbersSpec, NumInv
=============================================================================
