--------------------------- MODULE LinkedListProof ---------------------------
(***************************************************************************)
(* Proof that the lists of lib/list.c are lists, for any number of heads   *)
(* and nodes, whatever lists the nodes were on before and whatever their   *)
(* pointers held.                                                          *)
(*                                                                         *)
(* First that prev and next always undo each other within a list: HeadsInv *)
(* strengthens RingInv, as a head that passes the functions' tests for     *)
(* NULL is one that list_init has made a ring of.  Then that there is one  *)
(* ring, which RingInv does not say: each list has a sequence of nodes     *)
(* (AreLists) that the calls insert into and remove from, and the pointers *)
(* follow it.  From it what the walks meet, what list_search returns and   *)
(* that the lists are those of AbstractList.                               *)
(***************************************************************************)
EXTENDS LinkedList, ListLemmas, FiniteSetTheorems, WellFoundedInduction, TLAPS

\* A node is on the list of one head at most: on is a function.
LEMMA MembersDisjoint ==
  ASSUME TypeOK, NEW g \in Heads, NEW h \in Heads, g # h
  PROVE  Members(g) \cap Members(h) = {}
  BY CellsAssumption DEF TypeOK, Members

\* Linking an unlinked node behind any cell of a list keeps all lists rings.
LEMMA LinkBehindInv ==
  ASSUME ListInv, NEW h \in ready, NEW c \in Members(h), NEW x \in Unlinked,
         LinkBehind(c, x), on' = [on EXCEPT ![x] = h], UNCHANGED ready
  PROVE  ListInv'
<1> DEFINE d == next[c]
<1> USE CellsAssumption
<1>1. /\ h \in Heads /\ x \in Nodes /\ on[x] = NULL /\ x \in Cells
      /\ Heads \subseteq Cells /\ Nodes \subseteq Cells
      /\ \A g \in Heads : Members(g) \subseteq Cells /\ x \notin Members(g)
      /\ ready \subseteq Heads
  BY DEF ListInv, TypeOK, Unlinked, Members, Cells
<1>2. c \in Cells /\ d \in Members(h) /\ d \in Cells /\ prev[d] = c
  BY <1>1 DEF ListInv, RingInv
<1>3. /\ next' = [next EXCEPT ![x] = d, ![c] = x]
      /\ prev' = [prev EXCEPT ![d] = x, ![x] = c]
  BY DEF LinkBehind
<1>4. c # x /\ d # x
  BY <1>1, <1>2
<1>5. /\ next' \in [Cells -> Pointers] /\ prev' \in [Cells -> Pointers]
      /\ next'[x] = d /\ next'[c] = x
      /\ \A m \in Cells : m # x /\ m # c => next'[m] = next[m]
      /\ prev'[x] = c /\ prev'[d] = x
      /\ \A m \in Cells : m # x /\ m # d => prev'[m] = prev[m]
  <2>1. next \in [Cells -> Pointers] /\ prev \in [Cells -> Pointers]
    BY DEF ListInv, TypeOK
  <2>2. c \in Pointers /\ d \in Pointers /\ x \in Pointers
    BY <1>1, <1>2 DEF Pointers
  <2> HIDE DEF d
  <2> QED BY <1>1, <1>2, <1>3, <1>4, <2>1, <2>2
<1>6. \A g \in Heads : Members(g)' = IF g = h THEN Members(h) \cup {x} ELSE Members(g)
  BY <1>1 DEF Members, ListInv, TypeOK
<1> HIDE DEF d
<1>7. TypeOK'
  BY <1>1, <1>5 DEF ListInv, TypeOK
<1>8. HeadsInv'
  <2>1. \A g \in Heads \ ready' : g \in Cells /\ g # x /\ g # c /\ g # d
    BY <1>1, <1>2, <1>4 DEF Members
  <2> QED BY <1>1, <1>5, <2>1 DEF ListInv, HeadsInv, TypeOK
<1>9. ASSUME NEW g \in ready, g # h, NEW m \in Members(g)
      PROVE  /\ next'[m] \in Members(g) /\ prev'[next'[m]] = m
             /\ prev'[m] \in Members(g) /\ next'[prev'[m]] = m
  <2>1. Members(g) \cap Members(h) = {}
    BY <1>1, <1>9, MembersDisjoint DEF ListInv
  <2>2. \A k \in Members(g) : k \in Cells /\ k # x /\ k # c /\ k # d
    BY <1>1, <1>2, <2>1
  <2>3. /\ next[m] \in Members(g) /\ prev[next[m]] = m
        /\ prev[m] \in Members(g) /\ next[prev[m]] = m
    BY DEF ListInv, RingInv
  <2> QED BY <1>5, <2>2, <2>3
<1>10. ASSUME NEW m \in Members(h) \cup {x}
       PROVE  /\ next'[m] \in Members(h) \cup {x} /\ prev'[next'[m]] = m
              /\ prev'[m] \in Members(h) \cup {x} /\ next'[prev'[m]] = m
  <2>1. CASE m = x
    BY <1>2, <1>5, <2>1
  <2>2. CASE m \in Members(h)
    <3>1. /\ m \in Cells /\ m # x
          /\ next[m] \in Members(h) /\ prev[next[m]] = m
          /\ prev[m] \in Members(h) /\ next[prev[m]] = m
          /\ next[m] \in Cells /\ prev[m] \in Cells /\ next[m] # x /\ prev[m] # x
      BY <1>1, <2>2 DEF ListInv, RingInv
    <3>2. next'[m] \in Members(h) \cup {x} /\ prev'[next'[m]] = m
      <4>1. CASE m = c
        BY <1>5, <4>1
      <4>2. CASE m # c
        BY <1>2, <1>5, <3>1, <4>2
      <4> QED BY <4>1, <4>2
    <3>3. prev'[m] \in Members(h) \cup {x} /\ next'[prev'[m]] = m
      <4>1. CASE m = d
        BY <1>5, <4>1
      <4>2. CASE m # d
        <5>1. prev[m] # c
          BY <3>1, <4>2 DEF d
        <5> QED BY <1>5, <3>1, <4>2, <5>1
      <4> QED BY <4>1, <4>2
    <3> QED BY <3>2, <3>3
  <2> QED BY <2>1, <2>2
<1>11. RingInv'
  <2> SUFFICES ASSUME NEW g \in ready, NEW m \in Members(g)'
               PROVE  /\ next'[m] \in Members(g)' /\ prev'[next'[m]] = m
                      /\ prev'[m] \in Members(g)' /\ next'[prev'[m]] = m
    BY DEF RingInv
  <2>1. CASE g = h
    BY <1>1, <1>6, <1>10, <2>1
  <2>2. CASE g # h
    BY <1>1, <1>6, <1>9, <2>2
  <2> QED BY <2>1, <2>2
<1> QED BY <1>7, <1>8, <1>11 DEF ListInv

\* Unlinking a node of a list closes the gap and touches no other list.
LEMMA ListUnlinkInv ==
  ASSUME ListInv, NEW x \in Nodes \ Unlinked, ListUnlink(x)
  PROVE  ListInv'
<1> DEFINE h == on[x]
           p == prev[x]
           n == next[x]
<1> USE CellsAssumption
<1>1. /\ h \in ready /\ ready \subseteq Heads /\ x \in Members(h)
      /\ Heads \subseteq Cells /\ Nodes \subseteq Cells /\ x \notin Heads
      /\ \A g \in Heads : Members(g) \subseteq Cells
  BY DEF ListInv, TypeOK, HeadsInv, Unlinked, Members, Cells
<1>2. /\ p \in Members(h) /\ n \in Members(h) /\ next[p] = x /\ prev[n] = x
      /\ p \in Cells /\ n \in Cells /\ x \in Cells
  BY <1>1 DEF ListInv, RingInv
<1>3. /\ next' = [next EXCEPT ![p] = n] /\ prev' = [prev EXCEPT ![n] = p]
      /\ on' = [on EXCEPT ![x] = NULL] /\ ready' = ready
  BY DEF ListUnlink
<1>4. /\ next' \in [Cells -> Pointers] /\ prev' \in [Cells -> Pointers]
      /\ next'[p] = n /\ \A m \in Cells : m # p => next'[m] = next[m]
      /\ prev'[n] = p /\ \A m \in Cells : m # n => prev'[m] = prev[m]
  <2>1. next \in [Cells -> Pointers] /\ prev \in [Cells -> Pointers]
    BY DEF ListInv, TypeOK
  <2>2. p \in Pointers /\ n \in Pointers
    BY <1>2 DEF Pointers
  <2> HIDE DEF p, n
  <2> QED BY <1>2, <1>3, <2>1, <2>2
<1>5. \A g \in Heads : Members(g)' = IF g = h THEN Members(h) \ {x} ELSE Members(g)
  BY <1>1, <1>3 DEF Members, ListInv, TypeOK
<1>6. TypeOK'
  BY <1>3, <1>4 DEF ListInv, TypeOK
<1>7. HeadsInv'
  <2>1. \A g \in Heads \ ready : g \in Cells /\ g # p /\ g # n
    BY <1>1, <1>2 DEF Members
  <2> QED BY <1>3, <1>4, <2>1 DEF ListInv, HeadsInv, TypeOK
<1> HIDE DEF h, p, n
<1>8. ASSUME NEW g \in ready, g # h, NEW m \in Members(g)
      PROVE  /\ next'[m] \in Members(g) /\ prev'[next'[m]] = m
             /\ prev'[m] \in Members(g) /\ next'[prev'[m]] = m
  <2>1. Members(g) \cap Members(h) = {}
    BY <1>1, <1>8, MembersDisjoint DEF ListInv
  <2>2. \A k \in Members(g) : k \in Cells /\ k # p /\ k # n
    BY <1>1, <1>2, <2>1
  <2>3. /\ next[m] \in Members(g) /\ prev[next[m]] = m
        /\ prev[m] \in Members(g) /\ next[prev[m]] = m
    BY DEF ListInv, RingInv
  <2> QED BY <1>4, <2>2, <2>3
<1>9. ASSUME NEW m \in Members(h) \ {x}
      PROVE  /\ next'[m] \in Members(h) \ {x} /\ prev'[next'[m]] = m
             /\ prev'[m] \in Members(h) \ {x} /\ next'[prev'[m]] = m
  <2>1. /\ m \in Cells /\ m # x
        /\ next[m] \in Members(h) /\ prev[next[m]] = m
        /\ prev[m] \in Members(h) /\ next[prev[m]] = m
        /\ next[m] \in Cells /\ prev[m] \in Cells
    BY <1>1 DEF ListInv, RingInv
  <2>2. next'[m] \in Members(h) \ {x} /\ prev'[next'[m]] = m
    <3>1. CASE m = p
      <4>1. n # x
        BY <1>2, <2>1, <3>1
      <4> QED BY <1>2, <1>4, <3>1, <4>1
    <3>2. CASE m # p
      <4>1. next[m] # x
        BY <2>1, <3>2 DEF p
      <4>2. next[m] # n
        BY <1>2, <2>1
      <4> QED BY <1>4, <2>1, <3>2, <4>1, <4>2
    <3> QED BY <3>1, <3>2
  <2>3. prev'[m] \in Members(h) \ {x} /\ next'[prev'[m]] = m
    <3>1. CASE m = n
      <4>1. p # x
        BY <1>2, <2>1, <3>1
      <4> QED BY <1>2, <1>4, <3>1, <4>1
    <3>2. CASE m # n
      <4>1. prev[m] # x
        BY <2>1, <3>2 DEF n
      <4>2. prev[m] # p
        BY <1>2, <2>1
      <4> QED BY <1>4, <2>1, <3>2, <4>1, <4>2
    <3> QED BY <3>1, <3>2
  <2> QED BY <2>2, <2>3
<1>10. RingInv'
  <2> SUFFICES ASSUME NEW g \in ready, NEW m \in Members(g)'
               PROVE  /\ next'[m] \in Members(g)' /\ prev'[next'[m]] = m
                      /\ prev'[m] \in Members(g)' /\ next'[prev'[m]] = m
    BY <1>3 DEF RingInv
  <2>1. CASE g = h
    BY <1>1, <1>5, <1>9, <2>1
  <2>2. CASE g # h
    BY <1>1, <1>5, <1>8, <2>2
  <2> QED BY <2>1, <2>2
<1> QED BY <1>6, <1>7, <1>10 DEF ListInv

\* list_init makes the head a ring of itself and touches no other list.
LEMMA ListInitInv ==
  ASSUME ListInv, NEW h \in Heads, ListInit(h)
  PROVE  ListInv'
<1> USE CellsAssumption
<1>1. /\ next' = [next EXCEPT ![h] = h] /\ prev' = [prev EXCEPT ![h] = h]
      /\ ready' = ready \cup {h} /\ on' = on /\ h \notin ready
  BY DEF ListInit
<1>2. /\ Members(h) = {h} /\ h \in Cells /\ h \in Pointers
      /\ \A g \in Heads : Members(g)' = Members(g) /\ Members(g) \subseteq Cells
      /\ \A g \in Heads : g # h => h \notin Members(g)
  BY <1>1 DEF ListInv, HeadsInv, TypeOK, Members, Cells, Pointers
<1>3. /\ next'[h] = h /\ prev'[h] = h
      /\ next' \in [Cells -> Pointers] /\ prev' \in [Cells -> Pointers]
      /\ \A c \in Cells : c # h => next'[c] = next[c] /\ prev'[c] = prev[c]
  BY <1>1, <1>2 DEF ListInv, TypeOK
<1>4. TypeOK'
  BY <1>1, <1>3 DEF ListInv, TypeOK
<1>5. HeadsInv'
  <2>1. \A g \in Heads : g \in Cells
    BY DEF Cells
  <2> QED BY <1>1, <1>3, <2>1 DEF ListInv, HeadsInv
<1>6. RingInv'
  <2> SUFFICES ASSUME NEW g \in ready', NEW m \in Members(g)'
               PROVE  /\ next'[m] \in Members(g)' /\ prev'[next'[m]] = m
                      /\ prev'[m] \in Members(g)' /\ next'[prev'[m]] = m
    BY DEF RingInv
  <2>1. CASE g = h
    BY <1>2, <1>3, <2>1
  <2>2. CASE g # h
    <3>1. g \in ready /\ g \in Heads /\ m \in Members(g)
      BY <1>1, <1>2, <2>2 DEF ListInv, TypeOK
    <3>2. /\ next[m] \in Members(g) /\ prev[next[m]] = m
          /\ prev[m] \in Members(g) /\ next[prev[m]] = m
      BY <3>1 DEF ListInv, RingInv
    <3>3. \A k \in Members(g) : k \in Cells /\ k # h
      BY <1>2, <2>2, <3>1
    <3> QED BY <1>2, <1>3, <3>1, <3>2, <3>3
  <2> QED BY <2>1, <2>2
<1> QED BY <1>4, <1>5, <1>6 DEF ListInv

-----------------------------------------------------------------------------

LEMMA InitIsListInv == Init => ListInv
<1> SUFFICES ASSUME Init PROVE ListInv
  OBVIOUS
<1>1. TypeOK
  BY DEF Init, TypeOK, Pointers, Cells
<1>2. HeadsInv
  BY CellsAssumption DEF Init, HeadsInv, Cells
<1>3. RingInv
  BY DEF Init, RingInv
<1> QED BY <1>1, <1>2, <1>3 DEF ListInv

\* The lists stay rings in every state their callers can bring them to.
THEOREM ListInvariance == Spec => []ListInv
<1>1. ListInv /\ [Next]_vars => ListInv'
  <2> SUFFICES ASSUME ListInv, [Next]_vars PROVE ListInv'
    OBVIOUS
  <2>1. ASSUME NEW h \in Heads, ListInit(h) PROVE ListInv'
    BY <2>1, ListInitInv
  <2>2. ASSUME NEW h \in Heads, NEW x \in Unlinked, ListAdd(h, x) PROVE ListInv'
    <3>1. h \in ready /\ h \in Members(h)
      BY <2>2 DEF ListAdd, ListInv, HeadsInv, Members
    <3> QED BY <2>2, <3>1, LinkBehindInv DEF ListAdd
  <2>3. ASSUME NEW h \in Heads, NEW x \in Unlinked, ListAddTail(h, x) PROVE ListInv'
    <3>1. h \in ready /\ prev[h] \in Members(h)
      BY <2>3 DEF ListAddTail, ListInv, HeadsInv, RingInv, Members
    <3> QED BY <2>3, <3>1, LinkBehindInv DEF ListAddTail
  <2>4. ASSUME NEW h \in Heads, NEW x \in Unlinked, NEW old_node \in Members(h),
               ListInsert(h, x, old_node)
        PROVE  ListInv'
    <3>1. h \in ready
      BY <2>4, CellsAssumption DEF ListInsert, ListInv, HeadsInv, Members
    <3> QED BY <2>4, <3>1, LinkBehindInv DEF ListInsert
  <2>5. ASSUME NEW x \in Nodes \ Unlinked, ListUnlink(x) PROVE ListInv'
    BY <2>5, ListUnlinkInv
  <2>6. CASE UNCHANGED vars
    BY <2>6 DEF vars, ListInv, TypeOK, RingInv, HeadsInv, Members
  <2>7. ASSUME NEW h \in Heads, NEW index \in 0..Cardinality(Nodes), ListDelete(h, index)
        PROVE  ListInv'
    <3>1. PICK x \in Members(h) \ {h} : ListUnlink(x)
      BY <2>7 DEF ListDelete
    <3>2. x \in Nodes \ Unlinked
      BY CellsAssumption DEF Members, Unlinked
    <3> QED BY <3>1, <3>2, ListUnlinkInv
  <2> QED BY <2>1, <2>2, <2>3, <2>4, <2>5, <2>6, <2>7 DEF Next
<1> QED BY <1>1, InitIsListInv, PTL DEF Spec

\* No sequence of calls mixes up two lists or breaks a list's chain of pointers.
THEOREM RingsStay == Spec => []RingInv
<1>1. ListInv => RingInv
  BY DEF ListInv
<1> QED BY <1>1, ListInvariance, PTL

-----------------------------------------------------------------------------
(***************************************************************************)
(* One ring for each list: from the head the pointers lead through all of  *)
(* its nodes, in some order s, and back.  RingInv does not say so: nodes   *)
(* in a ring of their own satisfy it, too.                                 *)
(***************************************************************************)

\* The i-th cell of the ring of h and the nodes s; the 0-th and the last are the head.
Cell(h, s, i) == IF i \in 1..Len(s) THEN s[i] ELSE h

IsRing(nx, pv, h, s) ==
  /\ s \in Seq(Nodes) /\ IsInjective(s)
  /\ \A i \in 0..Len(s) : /\ nx[Cell(h, s, i)] = Cell(h, s, i + 1)
                          /\ pv[Cell(h, s, i + 1)] = Cell(h, s, i)

\* L[h] is the sequence of the nodes of list h.
AreLists(nx, pv, o, rd, L) ==
  /\ L \in [Heads -> Seq(Nodes)]
  /\ \A h \in Heads :
       /\ IsInjective(L[h]) /\ Range(L[h]) = {x \in Nodes : o[x] = h}
       /\ h \in rd => IsRing(nx, pv, h, L[h])

OneRing == \E L : AreLists(next, prev, on, ready, L)

LEMMA CellsOfRing ==
  ASSUME NEW h \in Heads, NEW s \in Seq(Nodes), IsInjective(s)
  PROVE  /\ Len(s) \in Nat /\ DOMAIN s = 1..Len(s)
         /\ \A i \in 1..Len(s) : s[i] \in Nodes /\ s[i] # h /\ s[i] \in Range(s)
         /\ \A i : Cell(h, s, i) \in Cells /\ Cell(h, s, i) \in {h} \cup Range(s)
         /\ Cell(h, s, 0) = h /\ Cell(h, s, Len(s) + 1) = h
         /\ \A i \in 1..Len(s) : Cell(h, s, i) = s[i]
         /\ \A i, j \in 0..Len(s) : Cell(h, s, i) = Cell(h, s, j) => i = j
         /\ \A i, j \in 1..(Len(s) + 1) : Cell(h, s, i) = Cell(h, s, j) => i = j
<1>1. /\ Len(s) \in Nat /\ DOMAIN s = 1..Len(s)
      /\ \A i \in 1..Len(s) : s[i] \in Nodes /\ s[i] # h /\ s[i] \in Range(s)
  BY LenProperties, ElementOfSeq, CellsAssumption DEF Range
<1>2. \A i, j \in 1..Len(s) : s[i] = s[j] => i = j
  BY <1>1 DEF IsInjective
<1>3. \A i : Cell(h, s, i) \in Cells /\ Cell(h, s, i) \in {h} \cup Range(s)
  BY <1>1 DEF Cell, Cells
<1> QED BY <1>1, <1>2, <1>3 DEF Cell

\* A node linked behind the k-th cell becomes the one behind it.
LEMMA RingInsert ==
  ASSUME NEW h \in Heads, NEW s, NEW nx, NEW pv, IsRing(nx, pv, h, s),
         NEW k \in 0..Len(s), NEW x \in Nodes \ Range(s), NEW nx2, NEW pv2,
         nx2[x] = Cell(h, s, k + 1), nx2[Cell(h, s, k)] = x,
         \A c \in Cells : c # x /\ c # Cell(h, s, k) => nx2[c] = nx[c],
         pv2[x] = Cell(h, s, k), pv2[Cell(h, s, k + 1)] = x,
         \A c \in Cells : c # x /\ c # Cell(h, s, k + 1) => pv2[c] = pv[c]
  PROVE  IsRing(nx2, pv2, h, InsertAt(s, k + 1, x))
<1> DEFINE t == InsertAt(s, k + 1, x)
<1>1. s \in Seq(Nodes) /\ IsInjective(s)
  BY DEF IsRing
<1>2. Len(s) \in Nat /\ k + 1 \in 1..(Len(s) + 1)
  BY <1>1, CellsOfRing
<1>3. /\ t \in Seq(Nodes) /\ Len(t) = Len(s) + 1 /\ IsInjective(t)
      /\ \A i \in 1..(Len(s) + 1) : t[i] = IF i < k + 1 THEN s[i]
                                           ELSE IF i = k + 1 THEN x ELSE s[i - 1]
  BY <1>1, <1>2, InsertAtProps, InsertAtRange
<1> HIDE DEF t
<1>4. \A i \in 0..(Len(s) + 2) :
        Cell(h, t, i) = IF i <= k THEN Cell(h, s, i)
                        ELSE IF i = k + 1 THEN x ELSE Cell(h, s, i - 1)
  BY <1>2, <1>3 DEF Cell
<1>5. \A i : Cell(h, s, i) # x
  BY <1>1, CellsOfRing, CellsAssumption
<1>6. ASSUME NEW i \in 0..Len(t) PROVE nx2[Cell(h, t, i)] = Cell(h, t, i + 1)
  <2>1. i \in 0..(Len(s) + 2) /\ i + 1 \in 0..(Len(s) + 2)
    BY <1>2, <1>3
  <2>2. CASE i < k
    <3>1. i \in 0..Len(s) /\ i # k /\ Cell(h, s, i) # Cell(h, s, k) /\ Cell(h, s, i) \in Cells
      BY <1>1, <1>2, <2>2, CellsOfRing
    <3>2. nx2[Cell(h, s, i)] = Cell(h, s, i + 1)
      BY <1>5, <3>1 DEF IsRing
    <3> QED BY <1>2, <1>4, <2>1, <2>2, <3>2
  <2>3. CASE i = k
    BY <1>2, <1>4, <2>1, <2>3
  <2>4. CASE i = k + 1
    BY <1>2, <1>4, <2>1, <2>4
  <2>5. CASE i > k + 1
    <3>1. /\ i - 1 \in 0..Len(s) /\ i - 1 # k
          /\ Cell(h, s, i - 1) # Cell(h, s, k) /\ Cell(h, s, i - 1) \in Cells
      BY <1>1, <1>2, <1>3, <2>5, CellsOfRing
    <3>2. nx2[Cell(h, s, i - 1)] = Cell(h, s, i)
      BY <1>5, <3>1 DEF IsRing
    <3> QED BY <1>2, <1>4, <2>1, <2>5, <3>2
  <2> QED BY <1>2, <2>1, <2>2, <2>3, <2>4, <2>5
<1>7. ASSUME NEW i \in 0..Len(t) PROVE pv2[Cell(h, t, i + 1)] = Cell(h, t, i)
  <2>1. i \in 0..(Len(s) + 2) /\ i + 1 \in 0..(Len(s) + 2)
    BY <1>2, <1>3
  <2>2. CASE i < k
    <3>1. /\ i \in 0..Len(s) /\ i + 1 \in 1..(Len(s) + 1) /\ i + 1 # k + 1
          /\ Cell(h, s, i + 1) # Cell(h, s, k + 1) /\ Cell(h, s, i + 1) \in Cells
      BY <1>1, <1>2, <2>2, CellsOfRing
    <3>2. pv2[Cell(h, s, i + 1)] = Cell(h, s, i)
      BY <1>5, <3>1 DEF IsRing
    <3> QED BY <1>2, <1>4, <2>1, <2>2, <3>2
  <2>3. CASE i = k
    BY <1>2, <1>4, <2>1, <2>3
  <2>4. CASE i = k + 1
    BY <1>2, <1>4, <2>1, <2>4
  <2>5. CASE i > k + 1
    <3>1. /\ i - 1 \in 0..Len(s) /\ i \in 1..(Len(s) + 1) /\ i # k + 1
          /\ Cell(h, s, i) # Cell(h, s, k + 1) /\ Cell(h, s, i) \in Cells
      BY <1>1, <1>2, <1>3, <2>5, CellsOfRing
    <3>2. pv2[Cell(h, s, i)] = Cell(h, s, i - 1)
      BY <1>5, <3>1 DEF IsRing
    <3> QED BY <1>2, <1>4, <2>1, <2>5, <3>2
  <2> QED BY <1>2, <2>1, <2>2, <2>3, <2>4, <2>5
<1> QED BY <1>3, <1>6, <1>7 DEF IsRing, t

\* Unlinking the k-th node closes the ring behind it.
LEMMA RingRemove ==
  ASSUME NEW h \in Heads, NEW s, NEW nx, NEW pv, IsRing(nx, pv, h, s),
         NEW k \in 1..Len(s), NEW nx2, NEW pv2,
         nx2[Cell(h, s, k - 1)] = Cell(h, s, k + 1),
         \A c \in Cells : c # Cell(h, s, k - 1) => nx2[c] = nx[c],
         pv2[Cell(h, s, k + 1)] = Cell(h, s, k - 1),
         \A c \in Cells : c # Cell(h, s, k + 1) => pv2[c] = pv[c]
  PROVE  IsRing(nx2, pv2, h, RemoveAt(s, k))
<1> DEFINE t == RemoveAt(s, k)
<1>1. s \in Seq(Nodes) /\ IsInjective(s)
  BY DEF IsRing
<1>2. Len(s) \in Nat
  BY <1>1, CellsOfRing
<1>3. /\ t \in Seq(Nodes) /\ Len(t) = Len(s) - 1 /\ IsInjective(t)
      /\ \A i \in 1..(Len(s) - 1) : t[i] = IF i < k THEN s[i] ELSE s[i + 1]
  BY <1>1, <1>2, RemoveAtProps, RemoveAtRange
<1> HIDE DEF t
<1>4. \A i \in 0..Len(s) :
        Cell(h, t, i) = IF i < k THEN Cell(h, s, i) ELSE Cell(h, s, i + 1)
  BY <1>2, <1>3 DEF Cell
<1>5. ASSUME NEW i \in 0..Len(t) PROVE nx2[Cell(h, t, i)] = Cell(h, t, i + 1)
  <2>1. i \in 0..Len(s) /\ i + 1 \in 0..Len(s)
    BY <1>2, <1>3
  <2>2. CASE i < k - 1
    <3>1. i \in 0..Len(s) /\ Cell(h, s, i) # Cell(h, s, k - 1) /\ Cell(h, s, i) \in Cells
      BY <1>1, <1>2, <2>1, <2>2, CellsOfRing
    <3>2. nx2[Cell(h, s, i)] = Cell(h, s, i + 1)
      BY <3>1 DEF IsRing
    <3> QED BY <1>2, <1>4, <2>1, <2>2, <3>2
  <2>3. CASE i = k - 1
    BY <1>2, <1>4, <2>1, <2>3
  <2>4. CASE i >= k
    <3>1. i + 1 \in 0..Len(s) /\ Cell(h, s, i + 1) # Cell(h, s, k - 1) /\ Cell(h, s, i + 1) \in Cells
      BY <1>1, <1>2, <2>1, <2>4, CellsOfRing
    <3>2. nx2[Cell(h, s, i + 1)] = Cell(h, s, i + 2)
      BY <3>1 DEF IsRing
    <3> QED BY <1>2, <1>4, <2>1, <2>4, <3>2
  <2> QED BY <1>2, <2>1, <2>2, <2>3, <2>4
<1>6. ASSUME NEW i \in 0..Len(t) PROVE pv2[Cell(h, t, i + 1)] = Cell(h, t, i)
  <2>1. i \in 0..Len(s) /\ i + 1 \in 0..Len(s)
    BY <1>2, <1>3
  <2>2. CASE i < k - 1
    <3>1. i + 1 \in 1..(Len(s) + 1) /\ Cell(h, s, i + 1) # Cell(h, s, k + 1) /\ Cell(h, s, i + 1) \in Cells
      BY <1>1, <1>2, <2>1, <2>2, CellsOfRing
    <3>2. pv2[Cell(h, s, i + 1)] = Cell(h, s, i)
      BY <2>1, <3>1 DEF IsRing
    <3> QED BY <1>2, <1>4, <2>1, <2>2, <3>2
  <2>3. CASE i = k - 1
    BY <1>2, <1>4, <2>1, <2>3
  <2>4. CASE i >= k
    <3>1. /\ i + 1 \in 0..Len(s) /\ i + 2 \in 1..(Len(s) + 1)
          /\ Cell(h, s, i + 2) # Cell(h, s, k + 1) /\ Cell(h, s, i + 2) \in Cells
      BY <1>1, <1>2, <2>1, <2>4, CellsOfRing
    <3>2. pv2[Cell(h, s, i + 2)] = Cell(h, s, i + 1)
      BY <3>1 DEF IsRing
    <3> QED BY <1>2, <1>4, <2>1, <2>4, <3>2
  <2> QED BY <1>2, <2>1, <2>2, <2>3, <2>4
<1> QED BY <1>3, <1>5, <1>6 DEF IsRing, t

\* What is done to other cells leaves a ring as it is.
LEMMA RingElsewhere ==
  ASSUME NEW h \in Heads, NEW s, NEW nx, NEW pv, IsRing(nx, pv, h, s), NEW nx2, NEW pv2,
         \A c \in {h} \cup Range(s) : nx2[c] = nx[c] /\ pv2[c] = pv[c]
  PROVE  IsRing(nx2, pv2, h, s)
  BY CellsOfRing DEF IsRing

-----------------------------------------------------------------------------

\* Linking x behind the k-th cell of a ring inserts it into that list's sequence.
LEMMA InsertLists ==
  ASSUME ListInv, NEW L, AreLists(next, prev, on, ready, L),
         NEW h \in ready, NEW k \in 0..Len(L[h]), NEW x \in Unlinked,
         LinkBehind(Cell(h, L[h], k), x), on' = [on EXCEPT ![x] = h], UNCHANGED ready
  PROVE  AreLists(next', prev', on', ready', [L EXCEPT ![h] = InsertAt(L[h], k + 1, x)])
<1> DEFINE s == L[h]
           c == Cell(h, s, k)
           d == Cell(h, s, k + 1)
           t == InsertAt(s, k + 1, x)
           M == [L EXCEPT ![h] = t]
<1> USE CellsAssumption
<1>1. /\ h \in Heads /\ ready \subseteq Heads /\ x \in Nodes /\ x \in Cells
      /\ s \in Seq(Nodes) /\ IsInjective(s) /\ IsRing(next, prev, h, s)
      /\ Range(s) = {y \in Nodes : on[y] = h} /\ x \notin Range(s)
  BY DEF ListInv, TypeOK, Unlinked, Cells, AreLists
<1>2. /\ Len(s) \in Nat /\ k + 1 \in 1..(Len(s) + 1)
      /\ c \in Cells /\ d \in Cells /\ c # x /\ d # x
      /\ c \in {h} \cup Range(s) /\ d \in {h} \cup Range(s)
  BY <1>1, CellsOfRing
<1>3. next[c] = d /\ prev[d] = c
  BY <1>1 DEF IsRing
<1> HIDE DEF c, d
<1>4. /\ next'[x] = d /\ next'[c] = x
      /\ \A m \in Cells : m # x /\ m # c => next'[m] = next[m]
      /\ prev'[x] = c /\ prev'[d] = x
      /\ \A m \in Cells : m # x /\ m # d => prev'[m] = prev[m]
  <2>1. next \in [Cells -> Pointers] /\ prev \in [Cells -> Pointers]
    BY DEF ListInv, TypeOK
  <2>2. /\ next' = [next EXCEPT ![x] = d, ![c] = x]
        /\ prev' = [prev EXCEPT ![d] = x, ![x] = c]
    BY <1>3 DEF LinkBehind, c
  <2> QED BY <1>1, <1>2, <2>1, <2>2
<1>5. IsRing(next', prev', h, t)
  BY <1>1, <1>2, <1>4, RingInsert DEF c, d
<1>6. t \in Seq(Nodes) /\ IsInjective(t) /\ Range(t) = Range(s) \cup {x}
  <2>1. t \in Seq(Nodes)
    BY <1>1, <1>2, InsertAtProps
  <2>2. IsInjective(t) /\ Range(t) = Range(s) \cup {x}
    BY <1>1, <1>2, InsertAtRange
  <2> QED BY <2>1, <2>2
<1>7. M \in [Heads -> Seq(Nodes)] /\ M[h] = t /\ \A g \in Heads : g # h => M[g] = L[g]
  BY <1>1, <1>6 DEF AreLists
<1> HIDE DEF M, t
<1>8. \A y \in Nodes : on'[y] = IF y = x THEN h ELSE on[y]
  BY DEF ListInv, TypeOK
<1>9. ASSUME NEW g \in Heads, g # h
      PROVE  /\ IsInjective(M[g]) /\ Range(M[g]) = {y \in Nodes : on'[y] = g}
             /\ g \in ready' => IsRing(next', prev', g, M[g])
  <2>1. /\ M[g] = L[g] /\ IsInjective(L[g]) /\ Range(L[g]) = {y \in Nodes : on[y] = g}
        /\ g \in ready => IsRing(next, prev, g, L[g])
    BY <1>7, <1>9 DEF AreLists
  <2>2. Range(M[g]) = {y \in Nodes : on'[y] = g}
    BY <1>8, <1>9, <2>1 DEF Unlinked
  <2>3. \A m \in {g} \cup Range(L[g]) : m \in Cells /\ m # x /\ m # c /\ m # d
    BY <1>1, <1>2, <1>9, <2>1 DEF Unlinked, Cells
  <2>4. \A m \in {g} \cup Range(L[g]) : next'[m] = next[m] /\ prev'[m] = prev[m]
    BY <1>4, <2>3
  <2> QED BY <2>1, <2>2, <2>4, RingElsewhere
<1>10. /\ IsInjective(M[h]) /\ Range(M[h]) = {y \in Nodes : on'[y] = h}
       /\ IsRing(next', prev', h, M[h])
  BY <1>1, <1>5, <1>6, <1>7, <1>8
<1> QED BY <1>7, <1>9, <1>10 DEF AreLists, M, t

\* Unlinking the k-th node of a list removes it from that list's sequence.
LEMMA RemoveLists ==
  ASSUME ListInv, NEW L, AreLists(next, prev, on, ready, L),
         NEW h \in ready, NEW k \in 1..Len(L[h]), ListUnlink(L[h][k])
  PROVE  AreLists(next', prev', on', ready', [L EXCEPT ![h] = RemoveAt(L[h], k)])
<1> DEFINE s == L[h]
           x == s[k]
           c == Cell(h, s, k - 1)
           d == Cell(h, s, k + 1)
           t == RemoveAt(s, k)
           M == [L EXCEPT ![h] = t]
<1> USE CellsAssumption
<1>1. /\ h \in Heads /\ ready \subseteq Heads
      /\ s \in Seq(Nodes) /\ IsInjective(s) /\ IsRing(next, prev, h, s)
      /\ Range(s) = {y \in Nodes : on[y] = h}
  BY DEF ListInv, TypeOK, AreLists
<1>2. /\ Len(s) \in Nat /\ k \in 0..Len(s) /\ k - 1 \in 0..Len(s)
      /\ x \in Nodes /\ x \in Range(s) /\ x = Cell(h, s, k)
      /\ c \in Cells /\ d \in Cells
      /\ c \in {h} \cup Range(s) /\ d \in {h} \cup Range(s)
  BY <1>1, CellsOfRing
<1>3. next[x] = d /\ prev[x] = c
  <2>1. (k - 1) + 1 = k
    BY <1>2
  <2> QED BY <1>1, <1>2, <2>1 DEF IsRing
<1> HIDE DEF c, d, x
<1>4. /\ next'[c] = d /\ \A m \in Cells : m # c => next'[m] = next[m]
      /\ prev'[d] = c /\ \A m \in Cells : m # d => prev'[m] = prev[m]
      /\ ready' = ready /\ on' = [on EXCEPT ![x] = NULL]
  <2>1. next \in [Cells -> Pointers] /\ prev \in [Cells -> Pointers]
    BY DEF ListInv, TypeOK
  <2>2. /\ next' = [next EXCEPT ![c] = d] /\ prev' = [prev EXCEPT ![d] = c]
        /\ ready' = ready /\ on' = [on EXCEPT ![x] = NULL]
    BY <1>3 DEF ListUnlink, x
  <2> QED BY <1>2, <2>1, <2>2
<1>5. IsRing(next', prev', h, t)
  BY <1>1, <1>2, <1>4, RingRemove DEF c, d
<1>6. t \in Seq(Nodes) /\ IsInjective(t) /\ Range(t) = Range(s) \ {x}
  BY <1>1, <1>2, RemoveAtProps, RemoveAtRange DEF x
<1>7. M \in [Heads -> Seq(Nodes)] /\ M[h] = t /\ \A g \in Heads : g # h => M[g] = L[g]
  BY <1>1, <1>6 DEF AreLists
<1> HIDE DEF M, t
<1>8. \A y \in Nodes : on'[y] = IF y = x THEN NULL ELSE on[y]
  BY <1>4 DEF ListInv, TypeOK
<1>9. ASSUME NEW g \in Heads, g # h
      PROVE  /\ IsInjective(M[g]) /\ Range(M[g]) = {y \in Nodes : on'[y] = g}
             /\ g \in ready' => IsRing(next', prev', g, M[g])
  <2>1. /\ M[g] = L[g] /\ IsInjective(L[g]) /\ Range(L[g]) = {y \in Nodes : on[y] = g}
        /\ g \in ready => IsRing(next, prev, g, L[g])
    BY <1>7, <1>9 DEF AreLists
  <2>2. on[x] = h /\ NULL \notin Heads
    BY <1>1, <1>2
  <2>3. Range(M[g]) = {y \in Nodes : on'[y] = g}
    BY <1>8, <1>9, <2>1, <2>2
  <2>4. \A m \in {g} \cup Range(L[g]) : m \in Cells /\ m # c /\ m # d
    BY <1>1, <1>2, <1>9, <2>1 DEF Cells
  <2>5. \A m \in {g} \cup Range(L[g]) : next'[m] = next[m] /\ prev'[m] = prev[m]
    BY <1>4, <2>4
  <2> QED BY <1>4, <2>1, <2>3, <2>5, RingElsewhere
<1>10. /\ IsInjective(M[h]) /\ Range(M[h]) = {y \in Nodes : on'[y] = h}
       /\ IsRing(next', prev', h, M[h])
  <2>1. h # NULL
    BY <1>1
  <2> QED BY <1>1, <1>5, <1>6, <1>7, <1>8, <2>1
<1> QED BY <1>7, <1>9, <1>10 DEF AreLists, M, t

\* list_init makes an empty ring of a head.
LEMMA InitLists ==
  ASSUME ListInv, NEW L, AreLists(next, prev, on, ready, L), NEW h \in Heads, ListInit(h)
  PROVE  AreLists(next', prev', on', ready', L)
<1>1. /\ next' = [next EXCEPT ![h] = h] /\ prev' = [prev EXCEPT ![h] = h]
      /\ ready' = ready \cup {h} /\ on' = on /\ h \notin ready
  BY DEF ListInit
<1>2. /\ next'[h] = h /\ prev'[h] = h
      /\ \A c \in Cells : c # h => next'[c] = next[c] /\ prev'[c] = prev[c]
  BY <1>1 DEF ListInv, TypeOK, Cells
<1>3. L[h] \in Seq(Nodes) /\ Range(L[h]) = {} /\ IsInjective(L[h])
  BY <1>1, CellsAssumption DEF AreLists, ListInv, HeadsInv
<1>4. L[h] = <<>>
  <2>1. \A i \in 1..Len(L[h]) : FALSE
    BY <1>3, CellsOfRing
  <2>2. Len(L[h]) \in Nat
    BY <1>3, LenProperties
  <2> QED BY <1>3, <2>1, <2>2, EmptySeq
<1>5. IsRing(next', prev', h, <<>>)
  <2>1. <<>> \in Seq(Nodes) /\ IsInjective(<<>>) /\ Len(<<>>) = 0
    BY DEF IsInjective
  <2>2. \A i \in Nat : Cell(h, <<>>, i) = h
    BY <2>1 DEF Cell
  <2> QED BY <1>2, <2>1, <2>2 DEF IsRing
<1>6. ASSUME NEW g \in ready, g # h PROVE IsRing(next', prev', g, L[g])
  <2>1. /\ g \in Heads /\ IsRing(next, prev, g, L[g])
        /\ Range(L[g]) \subseteq Nodes
    BY DEF AreLists, ListInv, TypeOK
  <2>2. \A m \in {g} \cup Range(L[g]) : m \in Cells /\ m # h
    BY <1>6, <2>1, CellsAssumption DEF Cells
  <2> QED BY <1>2, <2>1, <2>2, RingElsewhere
<1> QED BY <1>1, <1>4, <1>5, <1>6 DEF AreLists

\* What a step does to the sequences L of the nodes of the lists.
SequenceStep(L, M) ==
  \E h \in ready :
    \/ \E x \in Unlinked, k \in 1..(Len(L[h]) + 1) : M = [L EXCEPT ![h] = InsertAt(L[h], k, x)]
    \/ \E k \in 1..Len(L[h]) : M = [L EXCEPT ![h] = RemoveAt(L[h], k)]

LEMMA LinkStep ==
  ASSUME ListInv, NEW L, AreLists(next, prev, on, ready, L),
         NEW h \in ready, NEW x \in Unlinked, NEW c \in Members(h),
         LinkBehind(c, x), on' = [on EXCEPT ![x] = h], UNCHANGED ready
  PROVE  \E M : AreLists(next', prev', on', ready', M) /\ SequenceStep(L, M)
<1> DEFINE s == L[h]
<1>1. h \in Heads /\ s \in Seq(Nodes) /\ IsInjective(s) /\ c \in {h} \cup Range(s)
  BY DEF ListInv, TypeOK, AreLists, Members
<1>2. Len(s) \in Nat /\ DOMAIN s = 1..Len(s)
  BY <1>1, CellsOfRing
<1>3. PICK k \in 0..Len(s) : c = Cell(h, s, k)
  <2>1. CASE c = h
    <3>1. 0 \in 0..Len(s) /\ Cell(h, s, 0) = h
      BY <1>1, <1>2, CellsOfRing
    <3> QED BY <2>1, <3>1
  <2>2. CASE c \in Range(s)
    <3>1. PICK k \in 1..Len(s) : c = s[k]
      BY <1>2, <2>2 DEF Range
    <3>2. k \in 0..Len(s) /\ Cell(h, s, k) = c
      BY <1>1, <1>2, <3>1, CellsOfRing
    <3> QED BY <3>2
  <2> QED BY <1>1, <2>1, <2>2
<1>4. AreLists(next', prev', on', ready', [L EXCEPT ![h] = InsertAt(L[h], k + 1, x)])
  BY <1>3, InsertLists
<1>5. k + 1 \in 1..(Len(s) + 1)
  BY <1>2
<1>6. SequenceStep(L, [L EXCEPT ![h] = InsertAt(L[h], k + 1, x)])
  BY <1>5 DEF SequenceStep
<1> QED BY <1>4, <1>6

LEMMA UnlinkStep ==
  ASSUME ListInv, NEW L, AreLists(next, prev, on, ready, L),
         NEW x \in Nodes \ Unlinked, ListUnlink(x)
  PROVE  \E M : AreLists(next', prev', on', ready', M) /\ SequenceStep(L, M)
<1>1. PICK h \in ready : on[x] = h
  BY DEF ListInv, HeadsInv, Unlinked
<1>2. h \in Heads /\ L[h] \in Seq(Nodes) /\ x \in Range(L[h])
  BY <1>1 DEF ListInv, TypeOK, AreLists
<1>3. PICK k \in 1..Len(L[h]) : x = L[h][k]
  BY <1>2, LenProperties DEF Range
<1>4. AreLists(next', prev', on', ready', [L EXCEPT ![h] = RemoveAt(L[h], k)])
  BY <1>3, RemoveLists
<1>5. SequenceStep(L, [L EXCEPT ![h] = RemoveAt(L[h], k)])
  BY DEF SequenceStep
<1> QED BY <1>4, <1>5

LEMMA ListStep ==
  ASSUME ListInv, NEW L, AreLists(next, prev, on, ready, L), [Next]_vars
  PROVE  \E M : AreLists(next', prev', on', ready', M) /\ (M = L \/ SequenceStep(L, M))
<1> DEFINE Goal == \E M : /\ AreLists(next', prev', on', ready', M)
                          /\ M = L \/ SequenceStep(L, M)
<1>1. ASSUME NEW h \in Heads, ListInit(h) PROVE Goal
  BY <1>1, InitLists
<1>2. ASSUME NEW h \in Heads, NEW x \in Unlinked, ListAdd(h, x) PROVE Goal
  <2>1. h \in ready /\ h \in Members(h)
    BY <1>2 DEF ListAdd, ListInv, HeadsInv, Members
  <2> QED BY <1>2, <2>1, LinkStep DEF ListAdd
<1>3. ASSUME NEW h \in Heads, NEW x \in Unlinked, ListAddTail(h, x) PROVE Goal
  <2>1. h \in ready /\ prev[h] \in Members(h)
    BY <1>3 DEF ListAddTail, ListInv, HeadsInv, RingInv, Members
  <2> QED BY <1>3, <2>1, LinkStep DEF ListAddTail
<1>4. ASSUME NEW h \in Heads, NEW x \in Unlinked, NEW old_node \in Members(h),
             ListInsert(h, x, old_node)
      PROVE  Goal
  <2>1. h \in ready
    BY <1>4, CellsAssumption DEF ListInsert, ListInv, HeadsInv, Members
  <2> QED BY <1>4, <2>1, LinkStep DEF ListInsert
<1>5. ASSUME NEW x \in Nodes \ Unlinked, ListUnlink(x) PROVE Goal
  BY <1>5, UnlinkStep
<1>6. ASSUME NEW h \in Heads, NEW index \in 0..Cardinality(Nodes), ListDelete(h, index)
      PROVE  Goal
  <2>1. PICK x \in Members(h) \ {h} : ListUnlink(x)
    BY <1>6 DEF ListDelete
  <2>2. x \in Nodes \ Unlinked
    BY CellsAssumption DEF Members, Unlinked
  <2> QED BY <2>1, <2>2, UnlinkStep
<1>7. CASE UNCHANGED vars
  BY <1>7 DEF vars
<1> QED BY <1>1, <1>2, <1>3, <1>4, <1>5, <1>6, <1>7 DEF Next

LEMMA BeginLists == Init => AreLists(next, prev, on, ready, [h \in Heads |-> <<>>])
<1> SUFFICES ASSUME Init PROVE AreLists(next, prev, on, ready, [h \in Heads |-> <<>>])
  OBVIOUS
<1>1. <<>> \in Seq(Nodes) /\ IsInjective(<<>>) /\ Range(<<>>) = {}
  BY DEF IsInjective, Range
<1>2. ready = {} /\ \A h \in Heads : {x \in Nodes : on[x] = h} = {}
  BY CellsAssumption DEF Init
<1> QED BY <1>1, <1>2 DEF AreLists

\* The nodes of a list are in one ring with its head, whatever the sequence of calls.
THEOREM RingInvariance == Spec => []OneRing
<1>1. Init => OneRing
  BY BeginLists DEF OneRing
<1>2. ListInv /\ OneRing /\ [Next]_vars => OneRing'
  BY ListStep DEF OneRing
<1> QED BY <1>1, <1>2, ListInvariance, PTL DEF Spec

-----------------------------------------------------------------------------
(***************************************************************************)
(* What a walk along the pointers meets.                                   *)
(***************************************************************************)

LEMMA LeastExists ==
  ASSUME NEW T, T \subseteq Nat, T # {}
  PROVE  \E m \in T : \A j \in T : m <= j
<1>1. PICK m \in T : \A j \in T : <<j, m>> \notin OpToRel(<, Nat)
  BY NatLessThanWellFounded, WFMin
<1>2. \A j \in T : ~(j < m) /\ j \in Nat /\ m \in Nat
  BY <1>1 DEF OpToRel
<1> QED BY <1>2

StepFrom(h, p, i, cell) ==
  IF cell = NULL \/ (cell = h /\ i > 1) THEN NULL ELSE p[cell]

IsWalk(h, p, n, w) ==
  /\ w = [i \in 0..n |-> w[i]] /\ w[0] = h
  /\ \A i \in 1..n : w[i] = StepFrom(h, p, i, w[i - 1])

\* A walk is determined by its steps.
LEMMA StepsAre ==
  ASSUME NEW h, NEW p, NEW n \in Nat, NEW w, IsWalk(h, p, n, w)
  PROVE  Steps(h, p, n) = w[n]
<1>0. /\ w = [i \in 0..n |-> w[i]] /\ w[0] = h
      /\ \A i \in 1..n : w[i] = StepFrom(h, p, i, w[i - 1])
  BY DEF IsWalk
<1> DEFINE def(g) == [i \in 0..n |->
                        IF i = 0 THEN h
                        ELSE IF g[i - 1] = NULL \/ (g[i - 1] = h /\ i > 1) THEN NULL
                        ELSE p[g[i - 1]]]
           step == CHOOSE g : g = def(g)
<1>1. Steps(h, p, n) = step[n]
  BY DEF Steps
<1>2. ASSUME NEW g
      PROVE  /\ def(g) = [i \in 0..n |-> def(g)[i]] /\ def(g)[0] = h
             /\ \A i \in 1..n : def(g)[i] = StepFrom(h, p, i, g[i - 1])
  BY Z3 DEF StepFrom
<1> HIDE DEF def
<1>3. w = def(w)
  <2>1. \A i \in 0..n : i = 0 \/ i \in 1..n
    OBVIOUS
  <2>2. \A i \in 0..n : w[i] = def(w)[i]
    BY <1>0, <1>2, <2>1
  <2> QED BY <1>0, <1>2, <2>2
<1>4. step = def(step)
  BY <1>3
<1> HIDE DEF step
<1>5. step[0] = h /\ \A i \in 1..n : step[i] = StepFrom(h, p, i, step[i - 1])
  BY <1>2, <1>4
<1>6. \A i \in 0..n : step[i] = w[i]
  <2> DEFINE Bad == {i \in 0..n : step[i] # w[i]}
  <2> SUFFICES ASSUME Bad # {} PROVE FALSE
    OBVIOUS
  <2>1. Bad \subseteq Nat
    OBVIOUS
  <2>2. PICK m \in Bad : \A j \in Bad : m <= j
    <3> HIDE DEF Bad
    <3> QED BY <2>1, LeastExists
  <2>3. m \in 1..n
    BY <1>0, <1>5, <2>2
  <2>4. step[m - 1] = w[m - 1]
    BY <2>2, <2>3
  <2> QED BY <1>0, <1>5, <2>2, <2>3, <2>4
<1> QED BY <1>1, <1>6

\* A walk along next meets the nodes in their order, one along prev in the opposite one;
\* both are back at the head after the last node, and lead nowhere from then on.
LEMMA WalkForth ==
  ASSUME NEW h \in Heads, NEW s, NEW nx, NEW pv, IsRing(nx, pv, h, s), NEW n \in Nat
  PROVE  Steps(h, nx, n) = IF n <= Len(s) + 1 THEN Cell(h, s, n) ELSE NULL
<1> DEFINE at(i) == IF i <= Len(s) + 1 THEN Cell(h, s, i) ELSE NULL
           w == [i \in 0..n |-> at(i)]
<1>1. s \in Seq(Nodes) /\ IsInjective(s) /\ Len(s) \in Nat
  BY LenProperties DEF IsRing
<1>2. \A i : Cell(h, s, i) # NULL
  BY <1>1, CellsOfRing, CellsAssumption DEF Cells
<1>3. at(0) = h
  BY <1>1 DEF Cell
<1>4. ASSUME NEW i \in 1..n PROVE at(i) = StepFrom(h, nx, i, at(i - 1))
  <2>1. CASE i <= Len(s) + 1
    <3>1. i - 1 \in 0..Len(s) /\ i - 1 <= Len(s) + 1 /\ 0 \in 0..Len(s)
      BY <1>1, <2>1
    <3>2. nx[Cell(h, s, i - 1)] = Cell(h, s, i)
      BY <1>1, <3>1 DEF IsRing
    <3>3. i > 1 => Cell(h, s, i - 1) # h
      BY <1>1, <3>1, CellsOfRing
    <3> QED BY <1>2, <2>1, <3>1, <3>2, <3>3 DEF StepFrom
  <2>2. CASE i = Len(s) + 2
    <3>1. i - 1 = Len(s) + 1 /\ i > 1 /\ Cell(h, s, i - 1) = h /\ ~(i <= Len(s) + 1)
      BY <1>1, <2>2 DEF Cell
    <3> QED BY <1>1, <3>1 DEF StepFrom
  <2>3. CASE i > Len(s) + 2
    BY <1>1, <2>3 DEF StepFrom
  <2> QED BY <1>1, <2>1, <2>2, <2>3
<1> HIDE DEF at
<1>5. /\ w = [i \in 0..n |-> w[i]] /\ w[0] = h /\ w[n] = at(n)
      /\ \A i \in 1..n : w[i] = at(i) /\ w[i - 1] = at(i - 1)
  BY <1>3
<1>6. \A i \in 1..n : w[i] = StepFrom(h, nx, i, w[i - 1])
  BY <1>4, <1>5
<1>7. IsWalk(h, nx, n, w)
  BY <1>5, <1>6 DEF IsWalk
<1> HIDE DEF w
<1>8. Steps(h, nx, n) = w[n]
  BY <1>7, StepsAre
<1> QED BY <1>5, <1>8 DEF at

LEMMA WalkBack ==
  ASSUME NEW h \in Heads, NEW s, NEW nx, NEW pv, IsRing(nx, pv, h, s), NEW n \in Nat
  PROVE  Steps(h, pv, n) = IF n <= Len(s) + 1 THEN Cell(h, s, Len(s) + 1 - n) ELSE NULL
<1> DEFINE at(i) == IF i <= Len(s) + 1 THEN Cell(h, s, Len(s) + 1 - i) ELSE NULL
           w == [i \in 0..n |-> at(i)]
<1>1. s \in Seq(Nodes) /\ IsInjective(s) /\ Len(s) \in Nat
  BY LenProperties DEF IsRing
<1>2. \A i : Cell(h, s, i) # NULL
  BY <1>1, CellsOfRing, CellsAssumption DEF Cells
<1>3. at(0) = h
  BY <1>1 DEF Cell
<1>4. ASSUME NEW i \in 1..n PROVE at(i) = StepFrom(h, pv, i, at(i - 1))
  <2>1. CASE i <= Len(s) + 1
    <3> DEFINE j == Len(s) + 1 - i
    <3>1. j \in 0..Len(s) /\ i - 1 <= Len(s) + 1 /\ Len(s) + 1 - (i - 1) = j + 1
      BY <1>1, <2>1
    <3>2. pv[Cell(h, s, j + 1)] = Cell(h, s, j)
      BY <1>1, <3>1 DEF IsRing
    <3>3. i > 1 => Cell(h, s, j + 1) # h
      <4> SUFFICES ASSUME i > 1 PROVE Cell(h, s, j + 1) # h
        OBVIOUS
      <4>1. j + 1 \in 1..Len(s)
        BY <1>1, <2>1
      <4> QED BY <1>1, <4>1, CellsOfRing
    <3> QED BY <1>2, <2>1, <3>1, <3>2, <3>3 DEF StepFrom
  <2>2. CASE i = Len(s) + 2
    <3>1. Len(s) + 1 - (i - 1) = 0 /\ i - 1 <= Len(s) + 1 /\ i > 1 /\ ~(i <= Len(s) + 1)
      BY <1>1, <2>2
    <3>2. Cell(h, s, 0) = h
      BY DEF Cell
    <3> QED BY <1>1, <3>1, <3>2 DEF StepFrom
  <2>3. CASE i > Len(s) + 2
    BY <1>1, <2>3 DEF StepFrom
  <2> QED BY <1>1, <2>1, <2>2, <2>3
<1> HIDE DEF at
<1>5. /\ w = [i \in 0..n |-> w[i]] /\ w[0] = h /\ w[n] = at(n)
      /\ \A i \in 1..n : w[i] = at(i) /\ w[i - 1] = at(i - 1)
  BY <1>3
<1>6. \A i \in 1..n : w[i] = StepFrom(h, pv, i, w[i - 1])
  BY <1>4, <1>5
<1>7. IsWalk(h, pv, n, w)
  BY <1>5, <1>6 DEF IsWalk
<1> HIDE DEF w
<1>8. Steps(h, pv, n) = w[n]
  BY <1>7, StepsAre
<1> QED BY <1>5, <1>8 DEF at

\* From a head that was never initialised a walk leads nowhere.
LEMMA WalkNowhere ==
  ASSUME NEW h \in Heads, NEW p, p[h] = NULL, NEW n \in Nat
  PROVE  Steps(h, p, n) = IF n = 0 THEN h ELSE NULL
<1> DEFINE w == [i \in 0..n |-> IF i = 0 THEN h ELSE NULL]
<1>1. w = [i \in 0..n |-> w[i]] /\ w[0] = h
  OBVIOUS
<1>2. \A i \in 1..n : w[i] = StepFrom(h, p, i, w[i - 1])
  <2>1. \A i \in 1..n : w[i] = NULL /\ w[i - 1] = IF i = 1 THEN h ELSE NULL
    OBVIOUS
  <2> QED BY <2>1, CellsAssumption DEF StepFrom
<1>3. w[n] = IF n = 0 THEN h ELSE NULL
  OBVIOUS
<1>4. IsWalk(h, p, n, w)
  BY <1>1, <1>2 DEF IsWalk
<1> HIDE DEF w
<1>5. Steps(h, p, n) = w[n]
  BY <1>4, StepsAre
<1> QED BY <1>3, <1>5

LEMMA RangeCount ==
  ASSUME NEW S, NEW s \in Seq(S), IsInjective(s)
  PROVE  IsFiniteSet(Range(s)) /\ Cardinality(Range(s)) = Len(s)
<1>1. Len(s) \in Nat /\ DOMAIN s = 1..Len(s) /\ s \in [1..Len(s) -> Range(s)]
  BY LenProperties DEF Range
<1>2. s \in Bijection(1..Len(s), Range(s))
  BY <1>1 DEF Bijection, Injection, Surjection, IsInjective, Range
<1>3. ExistsBijection(1..Len(s), Range(s))
  BY <1>2 DEF ExistsBijection
<1> QED BY <1>1, <1>3, FS_CountingElements, FS_NatBijection

LEMMA SequenceLength ==
  ASSUME NEW h \in Heads, NEW s \in Seq(Nodes), IsInjective(s)
  PROVE  Cardinality({h} \cup Range(s)) - 1 = Len(s)
<1>1. Len(s) \in Nat /\ h \notin Range(s)
  BY LenProperties, CellsOfRing, CellsAssumption DEF Range
<1>2. IsFiniteSet(Range(s)) /\ Cardinality(Range(s)) = Len(s)
  BY RangeCount
<1>3. Cardinality(Range(s) \cup {h}) = Len(s) + 1
  BY <1>1, <1>2, FS_AddElement
<1>4. {h} \cup Range(s) = Range(s) \cup {h}
  OBVIOUS
<1>5. Cardinality({h} \cup Range(s)) = Len(s) + 1
  BY <1>3, <1>4, Zenon
<1> QED BY <1>1, <1>5

\* The walks give the sequences back.
LEMMA ListIs ==
  ASSUME NEW nx, NEW pv, NEW o, NEW rd, NEW L, AreLists(nx, pv, o, rd, L),
         \A x \in Nodes : o[x] # NULL => o[x] \in rd, NEW h \in Heads
  PROVE  LET n == Cardinality({h} \cup {x \in Nodes : o[x] = h}) - 1
         IN  n = Len(L[h]) /\ [i \in 1..n |-> Steps(h, nx, i)] = L[h]
<1> DEFINE s == L[h]
           n == Cardinality({h} \cup {x \in Nodes : o[x] = h}) - 1
<1>1. s \in Seq(Nodes) /\ IsInjective(s) /\ Range(s) = {x \in Nodes : o[x] = h}
  BY DEF AreLists
<1>2. n = Len(s) /\ Len(s) \in Nat /\ DOMAIN s = 1..Len(s)
  BY <1>1, SequenceLength, LenProperties
<1>3. s = [i \in 1..Len(s) |-> s[i]]
  BY <1>1, <1>2
<1> HIDE DEF s, n
<1>4. ASSUME NEW i \in 1..Len(s) PROVE Steps(h, nx, i) = s[i]
  <2>1. s[i] \in Range(s)
    BY <1>2 DEF Range
  <2>2. h \in rd
    BY <1>1, <2>1, CellsAssumption
  <2>3. IsRing(nx, pv, h, s)
    BY <2>2 DEF AreLists, s
  <2>4. i \in Nat /\ i <= Len(s) + 1 /\ Cell(h, s, i) = s[i]
    BY <1>2 DEF Cell
  <2> QED BY <2>3, <2>4, WalkForth
<1>5. [i \in 1..n |-> Steps(h, nx, i)] = s
  BY <1>2, <1>3, <1>4
<1> QED BY <1>2, <1>5 DEF s, n

-----------------------------------------------------------------------------
(***************************************************************************)
(* What the callers see.                                                   *)
(***************************************************************************)

\* The ring of a head that is ready, and the length of a list.
LEMMA ListOf ==
  ASSUME ListInv, NEW L, AreLists(next, prev, on, ready, L), NEW h \in Heads
  PROVE  /\ L[h] \in Seq(Nodes) /\ IsInjective(L[h])
         /\ Length(h) = Len(L[h]) /\ Len(L[h]) \in Nat
         /\ Members(h) = {h} \cup Range(L[h]) /\ h \notin Range(L[h])
         /\ Range(L[h]) = {L[h][i] : i \in 1..Len(L[h])}
         /\ h \in ready => IsRing(next, prev, h, L[h])
         /\ h \notin ready => next[h] = NULL /\ prev[h] = NULL /\ Len(L[h]) = 0
<1>1. /\ L[h] \in Seq(Nodes) /\ IsInjective(L[h]) /\ Range(L[h]) = {x \in Nodes : on[x] = h}
      /\ h \in ready => IsRing(next, prev, h, L[h])
  BY DEF AreLists
<1>2. /\ Len(L[h]) \in Nat /\ DOMAIN L[h] = 1..Len(L[h])
      /\ \A i \in 1..Len(L[h]) : L[h][i] \in Range(L[h])
  BY <1>1, CellsOfRing
<1>3. Members(h) = {h} \cup Range(L[h]) /\ h \notin Range(L[h])
  BY <1>1, CellsAssumption DEF Members
<1>4. Length(h) = Len(L[h])
  BY <1>1, <1>3, SequenceLength DEF Length
<1>5. h \notin ready => Range(L[h]) = {} /\ next[h] = NULL /\ prev[h] = NULL
  BY <1>1, CellsAssumption DEF ListInv, HeadsInv
<1>6. h \notin ready => Len(L[h]) = 0
  BY <1>2, <1>5
<1>7. Range(L[h]) = {L[h][i] : i \in 1..Len(L[h])}
  BY <1>2 DEF Range
<1> QED BY <1>1, <1>2, <1>3, <1>4, <1>5, <1>6, <1>7

LEMMA RingMeansCloses == ListInv /\ OneRing => RingCloses
<1> SUFFICES ASSUME ListInv, NEW L, AreLists(next, prev, on, ready, L), NEW h \in ready
             PROVE  /\ Steps(h, next, Length(h) + 1) = h /\ Steps(h, prev, Length(h) + 1) = h
                    /\ Members(h) = {h} \cup {Steps(h, next, i) : i \in 1..Length(h)}
                    /\ \A i \in 1..Length(h) :
                         Steps(h, next, i) = Steps(h, prev, Length(h) + 1 - i)
  BY DEF OneRing, RingCloses
<1> DEFINE s == L[h]
           n == Length(h)
<1>1. h \in Heads
  BY DEF ListInv, TypeOK
<1>2. /\ IsRing(next, prev, h, s) /\ s \in Seq(Nodes) /\ IsInjective(s)
      /\ n = Len(s) /\ n \in Nat /\ Members(h) = {h} \cup Range(s)
      /\ Range(s) = {s[i] : i \in 1..Len(s)}
  BY <1>1, ListOf
<1>3. /\ Cell(h, s, 0) = h /\ Cell(h, s, n + 1) = h
      /\ \A i \in 1..n : Cell(h, s, i) = s[i]
  BY <1>1, <1>2, CellsOfRing
<1> HIDE DEF s, n
<1>4. ASSUME NEW i \in Nat, i <= n + 1
      PROVE  Steps(h, next, i) = Cell(h, s, i) /\ Steps(h, prev, i) = Cell(h, s, n + 1 - i)
  BY <1>1, <1>2, <1>4, WalkForth, WalkBack
<1>5. n + 1 \in Nat /\ n + 1 - (n + 1) = 0 /\ n + 1 <= n + 1
  BY <1>2
<1>6. Steps(h, next, n + 1) = h /\ Steps(h, prev, n + 1) = h
  BY <1>3, <1>4, <1>5
<1>7. ASSUME NEW i \in 1..n
      PROVE  Steps(h, next, i) = s[i] /\ Steps(h, prev, n + 1 - i) = s[i]
  <2>1. /\ i \in Nat /\ i <= n + 1 /\ n + 1 - i \in Nat /\ n + 1 - i <= n + 1
        /\ n + 1 - (n + 1 - i) = i
    BY <1>2
  <2>2. Steps(h, prev, n + 1 - i) = Cell(h, s, n + 1 - (n + 1 - i))
    BY <1>4, <2>1
  <2> QED BY <1>3, <1>4, <2>1, <2>2
<1>8. {Steps(h, next, i) : i \in 1..n} = {s[i] : i \in 1..n}
  BY <1>7
<1> QED BY <1>2, <1>6, <1>7, <1>8 DEF n

\* A walk from the head of any list passes every node of the list once, in both
\* directions, and is back at the head: list_unlink and the others cut no node off.
THEOREM RingsClose == Spec => []RingCloses
  BY RingMeansCloses, ListInvariance, RingInvariance, PTL

LEMMA RingMeansSearch == ListInv /\ OneRing => SearchIsRight
<1> SUFFICES ASSUME ListInv, NEW L, AreLists(next, prev, on, ready, L), NEW h \in Heads
             PROVE  /\ ListEmpty(h) <=> Length(h) = 0
                    /\ {ListSearch(h, i) : i \in 0..(Length(h) - 1)} = Members(h) \ {h}
                    /\ \A i \in Length(h)..Cardinality(Nodes) : ListSearch(h, i) = NULL
  BY DEF OneRing, SearchIsRight
<1> DEFINE s == L[h]
           n == Length(h)
<1>1. /\ s \in Seq(Nodes) /\ IsInjective(s) /\ n = Len(s) /\ n \in Nat
      /\ Members(h) = {h} \cup Range(s) /\ h \notin Range(s)
      /\ Range(s) = {s[i] : i \in 1..n}
      /\ h \in ready => IsRing(next, prev, h, s)
      /\ h \notin ready => next[h] = NULL /\ prev[h] = NULL /\ n = 0
  BY ListOf
<1>2. /\ Cell(h, s, 0) = h /\ Cell(h, s, n + 1) = h
      /\ \A i \in 1..n : Cell(h, s, i) = s[i] /\ s[i] # h
      /\ \A i : Cell(h, s, i) # NULL
  BY <1>1, CellsOfRing, CellsAssumption DEF Cells
<1> HIDE DEF s, n
<1>3. ASSUME NEW i \in Nat
      PROVE  ListSearch(h, i) = IF i < n THEN s[i + 1] ELSE NULL
  <2>1. i + 1 \in Nat /\ i + 1 # 0
    BY <1>3
  <2>2. CASE h \in ready
    <3>1. Steps(h, next, i + 1) = IF i + 1 <= n + 1 THEN Cell(h, s, i + 1) ELSE NULL
      BY <1>1, <2>1, <2>2, WalkForth
    <3>2. CASE i < n
      <4>1. i + 1 \in 1..n /\ i + 1 <= n + 1
        BY <1>1, <3>2
      <4> QED BY <1>2, <3>1, <3>2, <4>1 DEF ListSearch
    <3>3. CASE i = n
      <4>1. i + 1 = n + 1 /\ i + 1 <= n + 1 /\ ~(i < n)
        BY <1>1, <3>3
      <4> QED BY <1>2, <3>1, <4>1 DEF ListSearch
    <3>4. CASE i > n
      <4>1. ~(i + 1 <= n + 1) /\ ~(i < n)
        BY <1>1, <3>4
      <4> QED BY <3>1, <4>1 DEF ListSearch
    <3> QED BY <1>1, <3>2, <3>3, <3>4
  <2>3. CASE h \notin ready
    <3>1. Steps(h, next, i + 1) = NULL
      BY <1>1, <2>1, <2>3, WalkNowhere
    <3>2. ~(i < n)
      BY <1>1, <2>3
    <3> QED BY <3>1, <3>2 DEF ListSearch
  <2> QED BY <2>2, <2>3
<1>4. {ListSearch(h, i) : i \in 0..(n - 1)} = {s[i] : i \in 1..n}
  <2>1. \A i \in 0..(n - 1) : i \in Nat /\ i < n /\ i + 1 \in 1..n
    BY <1>1
  <2>2. \A i \in 1..n : i - 1 \in 0..(n - 1) /\ (i - 1) + 1 = i
    BY <1>1
  <2>3. \A i \in 0..(n - 1) : ListSearch(h, i) = s[i + 1]
    BY <1>3, <2>1
  <2>4. \A i \in 1..n : ListSearch(h, i - 1) = s[i]
    BY <2>2, <2>3
  <2> QED BY <2>1, <2>2, <2>3, <2>4
<1>5. \A i \in n..Cardinality(Nodes) : ListSearch(h, i) = NULL
  <2>1. \A i \in n..Cardinality(Nodes) : i \in Nat /\ ~(i < n)
    BY <1>1
  <2> QED BY <1>3, <2>1
<1>6. ListEmpty(h) <=> n = 0
  <2>1. CASE h \notin ready
    BY <1>1, <2>1 DEF ListEmpty
  <2>2. CASE h \in ready
    <3>1. /\ 0 \in 0..Len(s) /\ n \in 0..Len(s) /\ 0 + 1 = 1
      BY <1>1
    <3>2. next[Cell(h, s, 0)] = Cell(h, s, 1) /\ prev[Cell(h, s, n + 1)] = Cell(h, s, n)
      BY <1>1, <2>2, <3>1 DEF IsRing
    <3>3. ListEmpty(h) <=> Cell(h, s, 1) = h
      BY <1>2, <3>2 DEF ListEmpty
    <3>4. n = 0 \/ 1 \in 1..n
      BY <1>1
    <3>5. n = 0 => n + 1 = 1
      OBVIOUS
    <3>6. 1 \in 1..n => n # 0
      OBVIOUS
    <3> QED BY <1>2, <3>3, <3>4, <3>5, <3>6
  <2> QED BY <2>1, <2>2
<1>7. Members(h) \ {h} = {s[i] : i \in 1..n}
  BY <1>1
<1> QED BY <1>4, <1>5, <1>6, <1>7 DEF n

\* list_search gives every node of a list at a place of its own and NULL behind the
\* last, and list_empty tells whether there is any.
THEOREM SearchesRight == Spec => []SearchIsRight
  BY RingMeansSearch, ListInvariance, RingInvariance, PTL

-----------------------------------------------------------------------------
(***************************************************************************)
(* The refinement: the lists of the abstract specification are L.          *)
(***************************************************************************)

ListsNow == [h \in Heads |-> [i \in 1..Length(h) |-> Steps(h, next, i)]]

LEMMA NowIs ==
  ASSUME ListInv, NEW L, AreLists(next, prev, on, ready, L)
  PROVE  ListsNow = L
<1>1. \A x \in Nodes : on[x] # NULL => on[x] \in ready
  BY DEF ListInv, HeadsInv
<1>2. ASSUME NEW h \in Heads
      PROVE  [i \in 1..Length(h) |-> Steps(h, next, i)] = L[h]
  BY <1>1, ListIs DEF Length, Members
<1>3. L = [h \in Heads |-> L[h]]
  BY DEF AreLists
<1> QED BY <1>2, <1>3 DEF ListsNow

LEMMA NextIs ==
  ASSUME ListInv', NEW L, AreLists(next', prev', on', ready', L)
  PROVE  ListsNow' = L
<1>1. \A x \in Nodes : on'[x] # NULL => on'[x] \in ready'
  BY DEF ListInv, HeadsInv
<1>2. ASSUME NEW h \in Heads
      PROVE  [i \in 1..Length(h) |-> Steps(h, next, i)]' = L[h]
  BY <1>1, ListIs DEF Length, Members
<1>3. L = [h \in Heads |-> L[h]]
  BY DEF AreLists
<1> QED BY <1>2, <1>3 DEF ListsNow

LEMMA SequenceStepIs ==
  ASSUME ListInv, ListInv', NEW L, AreLists(next, prev, on, ready, L),
         NEW M, AreLists(next', prev', on', ready', M), SequenceStep(L, M)
  PROVE  Abstract!Next
<1>1. ListsNow = L /\ ListsNow' = M
  BY NowIs, NextIs
<1>2. \A x \in Unlinked, h \in Heads : x \in Nodes /\ x \notin Range(L[h])
  BY CellsAssumption DEF Unlinked, AreLists
<1>3. \A x \in Unlinked : x \in Nodes \ Abstract!Linked
  <2> SUFFICES ASSUME NEW x \in Unlinked, x \in Abstract!Linked PROVE FALSE
    BY DEF Unlinked
  <2>1. PICK h \in Heads : x \in Abstract!Range(ListsNow[h])
    BY DEF Abstract!Linked, ListsNow
  <2>2. x \in Range(L[h])
    BY <1>1, <2>1 DEF Abstract!Range, Range
  <2> QED BY <1>2, <2>2
<1>4. PICK h \in ready :
        \/ \E x \in Unlinked, k \in 1..(Len(L[h]) + 1) : M = [L EXCEPT ![h] = InsertAt(L[h], k, x)]
        \/ \E k \in 1..Len(L[h]) : M = [L EXCEPT ![h] = RemoveAt(L[h], k)]
  BY DEF SequenceStep
<1>5. h \in Heads
  BY DEF ListInv, TypeOK
<1>6. ASSUME NEW x \in Unlinked, NEW k \in 1..(Len(L[h]) + 1),
             M = [L EXCEPT ![h] = InsertAt(L[h], k, x)]
      PROVE  Abstract!Insert(h, x, k)
  BY <1>1, <1>6 DEF Abstract!Insert, Abstract!InsertAt, InsertAt, ListsNow
<1>7. ASSUME NEW k \in 1..Len(L[h]), M = [L EXCEPT ![h] = RemoveAt(L[h], k)]
      PROVE  Abstract!Delete(h, k)
  BY <1>1, <1>7 DEF Abstract!Delete, Abstract!RemoveAt, RemoveAt, ListsNow
<1>8. Len(ListsNow[h]) = Len(L[h])
  BY <1>1
<1> QED BY <1>3, <1>4, <1>5, <1>6, <1>7, <1>8 DEF Abstract!Next, ListsNow

\* Whatever is called, in any order, a list is a sequence of nodes of which a call adds or
\* removes the one it is about, at the place it says, and no other list changes.
THEOREM ListsRefine == Spec => RefinesList
<1>1. Init => Abstract!Init
  <2> SUFFICES ASSUME Init PROVE Abstract!Init
    OBVIOUS
  <2>1. ListInv
    BY InitIsListInv
  <2>2. ListsNow = [h \in Heads |-> <<>>]
    BY <2>1, BeginLists, NowIs
  <2> QED BY <2>2 DEF Abstract!Init, ListsNow
<1>2. ListInv /\ ListInv' /\ OneRing /\ [Next]_vars => [Abstract!Next]_ListsNow
  <2> SUFFICES ASSUME ListInv, ListInv', NEW L, AreLists(next, prev, on, ready, L), [Next]_vars
               PROVE  [Abstract!Next]_ListsNow
    BY DEF OneRing
  <2>1. PICK M : AreLists(next', prev', on', ready', M) /\ (M = L \/ SequenceStep(L, M))
    BY ListStep
  <2>2. CASE M = L
    BY <2>1, <2>2, NowIs, NextIs
  <2>3. CASE SequenceStep(L, M)
    BY <2>1, <2>3, SequenceStepIs
  <2> QED BY <2>1, <2>2, <2>3
<1>3. [Abstract!Next]_ListsNow <=> [Abstract!Next]_([h \in Heads |-> [i \in 1..Length(h) |-> Steps(h, next, i)]])
  BY DEF ListsNow
<1> QED BY <1>1, <1>2, <1>3, ListInvariance, RingInvariance, PTL
        DEF Spec, RefinesList, Abstract!Spec
=============================================================================
