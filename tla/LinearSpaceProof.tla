--------------------------- MODULE LinearSpaceProof ---------------------------
(***************************************************************************)
(* Proofs about the linear address spaces of kernel/page/linearspace.c,    *)
(* for any number of rooms and blocks.  The ring of a room is broken when  *)
(* the next room takes kernel_space away from it, but what is done to it   *)
(* afterwards is done to the ring it would be if it had kept kernel_space: *)
(* of that ring the blocks' pointers are the room's own, those of          *)
(* kernel_space are not.  This is the invariant; as kernel_space stays     *)
(* last in every room, a walk meets all blocks before it leaves the room.  *)
(***************************************************************************)
EXTENDS LinearSpace, LinkedListProof

\* The pointers n and p lead through the nodes s of room r, up to kernel_space.
Chain(n, p, r, s) ==
  \E nx, pv :
    /\ IsRing(nx, pv, r, s) /\ Len(s) > 0 /\ s[Len(s)] = kernel_space
    /\ \A c \in ({r} \cup Range(s)) \ {kernel_space} : nx[c] = n[c]
    /\ \A c \in Range(s) \ {kernel_space} : pv[c] = p[c]

\* A room of which only kernel_space is known
LEMMA ChainNew ==
  ASSUME NEW r \in Heads, NEW n, NEW p, n[r] = kernel_space
  PROVE  Chain(n, p, r, <<kernel_space>>)
<1> DEFINE s == <<kernel_space>>
           nx == [c \in Cells |-> IF c = r THEN kernel_space ELSE r]
<1>1. /\ r \in Cells /\ kernel_space \in Cells /\ kernel_space # r /\ kernel_space \in Nodes
  BY CellsAssumption, SpaceAssumption DEF Cells
<1>2. /\ s \in Seq(Nodes) /\ IsInjective(s) /\ Len(s) = 1 /\ s[1] = kernel_space
      /\ Range(s) = {kernel_space}
  BY <1>1 DEF IsInjective, Range
<1> HIDE DEF s
<1>3. nx[r] = kernel_space /\ nx[kernel_space] = r
  BY <1>1
<1> HIDE DEF nx
<1>4. Cell(r, s, 0) = r /\ Cell(r, s, 1) = kernel_space /\ Cell(r, s, 2) = r
  BY <1>2 DEF Cell
<1>5. \A i \in 0..Len(s) : i = 0 \/ i = 1
  BY <1>2
<1>6. IsRing(nx, nx, r, s)
  BY <1>2, <1>3, <1>4, <1>5 DEF IsRing
<1>7. Chain(n, p, r, s)
  BY <1>2, <1>3, <1>6 DEF Chain
<1> QED BY <1>7 DEF s

\* What is done to other cells, or to kernel_space
LEMMA ChainElsewhere ==
  ASSUME NEW r, NEW s, NEW n, NEW p, Chain(n, p, r, s), NEW n2, NEW p2,
         \A c \in ({r} \cup Range(s)) \ {kernel_space} : n2[c] = n[c] /\ p2[c] = p[c]
  PROVE  Chain(n2, p2, r, s)
  BY DEF Chain

\* The cells of a room in their order
LEMMA ChainCells ==
  ASSUME NEW r \in Heads, NEW s, NEW n, NEW p, Chain(n, p, r, s)
  PROVE  /\ s \in Seq(Nodes) /\ IsInjective(s) /\ Len(s) \in Nat /\ Len(s) > 0
         /\ s[Len(s)] = kernel_space /\ kernel_space \in Range(s)
         /\ \A i \in 1..Len(s) : n[Cell(r, s, i - 1)] = s[i]
         /\ \A i \in 1..(Len(s) - 1) : s[i] # kernel_space /\ p[s[i]] = Cell(r, s, i - 1)
         /\ n[r] = s[1] /\ s[1] \in Range(s)
<1>1. PICK nx, pv :
        /\ IsRing(nx, pv, r, s) /\ Len(s) > 0 /\ s[Len(s)] = kernel_space
        /\ \A c \in ({r} \cup Range(s)) \ {kernel_space} : nx[c] = n[c]
        /\ \A c \in Range(s) \ {kernel_space} : pv[c] = p[c]
  BY DEF Chain
<1>2. s \in Seq(Nodes) /\ IsInjective(s)
  BY <1>1 DEF IsRing
<1>3. /\ Len(s) \in Nat /\ DOMAIN s = 1..Len(s)
      /\ \A i \in 1..Len(s) : s[i] \in Nodes /\ s[i] # r /\ s[i] \in Range(s)
      /\ \A i : Cell(r, s, i) \in {r} \cup Range(s)
      /\ Cell(r, s, 0) = r
      /\ \A i \in 1..Len(s) : Cell(r, s, i) = s[i]
  BY <1>2, CellsOfRing
<1>4. \A i \in 1..(Len(s) - 1) : s[i] # kernel_space
  BY <1>1, <1>2, <1>3 DEF IsInjective
<1>5. kernel_space # r
  BY <1>1, <1>3
<1>6. ASSUME NEW i \in 1..Len(s) PROVE n[Cell(r, s, i - 1)] = s[i]
  <2>1. i - 1 \in 0..Len(s) /\ (i - 1) + 1 = i /\ (i - 1 = 0 \/ i - 1 \in 1..(Len(s) - 1))
    BY <1>3
  <2>2. nx[Cell(r, s, i - 1)] = s[i]
    BY <1>1, <1>3, <2>1 DEF IsRing
  <2>3. Cell(r, s, i - 1) # kernel_space
    BY <1>3, <1>4, <1>5, <2>1
  <2> QED BY <1>1, <1>3, <2>2, <2>3
<1>7. ASSUME NEW i \in 1..(Len(s) - 1) PROVE p[s[i]] = Cell(r, s, i - 1)
  <2>1. i - 1 \in 0..Len(s) /\ (i - 1) + 1 = i /\ i \in 1..Len(s)
    BY <1>3
  <2>2. pv[s[i]] = Cell(r, s, i - 1)
    BY <1>1, <1>3, <2>1 DEF IsRing
  <2> QED BY <1>1, <1>3, <1>4, <2>1, <2>2
<1>8. Len(s) \in 1..Len(s) /\ 1 \in 1..Len(s) /\ 1 - 1 = 0
  BY <1>1, <1>3
<1>9. n[r] = s[1]
  BY <1>3, <1>6, <1>8
<1> QED BY <1>1, <1>2, <1>3, <1>4, <1>6, <1>7, <1>8, <1>9

\* list_add of x to room r
LEMMA ChainAdd ==
  ASSUME NEW r \in Heads, NEW s, NEW n, NEW p, Chain(n, p, r, s),
         NEW x \in Nodes \ Range(s), NEW n2, NEW p2,
         n2[x] = n[r], n2[r] = x,
         \A c \in Range(s) \ {kernel_space} : n2[c] = n[c],
         p2[x] = r, n[r] # kernel_space => p2[n[r]] = x,
         \A c \in Range(s) \ {kernel_space} : c # n[r] => p2[c] = p[c]
  PROVE  Chain(n2, p2, r, InsertAt(s, 1, x))
<1> DEFINE t == InsertAt(s, 1, x)
<1>1. PICK nx, pv :
        /\ IsRing(nx, pv, r, s) /\ Len(s) > 0 /\ s[Len(s)] = kernel_space
        /\ \A c \in ({r} \cup Range(s)) \ {kernel_space} : nx[c] = n[c]
        /\ \A c \in Range(s) \ {kernel_space} : pv[c] = p[c]
  BY DEF Chain
<1> DEFINE nx2 == [c \in Cells |-> IF c = x THEN n[r] ELSE IF c = r THEN x ELSE nx[c]]
           pv2 == [c \in Cells |-> IF c = x THEN r ELSE IF c = n[r] THEN x ELSE pv[c]]
<1>2. /\ s \in Seq(Nodes) /\ IsInjective(s) /\ Len(s) \in Nat /\ n[r] = s[1]
      /\ n[r] \in Range(s) /\ kernel_space \in Range(s)
  BY ChainCells
<1>3. /\ Cell(r, s, 0) = r /\ Cell(r, s, 1) = n[r] /\ r \notin Range(s) /\ r # x
      /\ r \in Cells /\ x \in Cells /\ n[r] \in Cells /\ Range(s) \subseteq Cells
      /\ n[r] # x /\ n[r] # r /\ x # kernel_space
  <2>1. 1 \in 1..Len(s) /\ r \in Cells /\ x \in Cells /\ r # x
    BY <1>1, <1>2, CellsAssumption DEF Cells
  <2>2. Cell(r, s, 1) \in Cells
    BY <1>2, CellsOfRing
  <2> QED BY <1>2, <2>1, <2>2, CellsAssumption DEF Cell, Range, Cells
<1>4. /\ nx2[x] = n[r] /\ nx2[r] = x /\ \A c \in Cells : c # x /\ c # r => nx2[c] = nx[c]
      /\ pv2[x] = r /\ pv2[n[r]] = x /\ \A c \in Cells : c # x /\ c # n[r] => pv2[c] = pv[c]
  BY <1>3
<1> HIDE DEF nx2, pv2
<1>5. IsRing(nx2, pv2, r, t)
  <2>1. 0 \in 0..Len(s) /\ 0 + 1 = 1
    BY <1>2
  <2>2. /\ nx2[x] = Cell(r, s, 0 + 1) /\ nx2[Cell(r, s, 0)] = x
        /\ \A c \in Cells : c # x /\ c # Cell(r, s, 0) => nx2[c] = nx[c]
    BY <1>3, <1>4, <2>1
  <2>3. /\ pv2[x] = Cell(r, s, 0) /\ pv2[Cell(r, s, 0 + 1)] = x
        /\ \A c \in Cells : c # x /\ c # Cell(r, s, 0 + 1) => pv2[c] = pv[c]
    BY <1>3, <1>4, <2>1
  <2>4. IsRing(nx2, pv2, r, InsertAt(s, 0 + 1, x))
    BY <1>1, <2>1, <2>2, <2>3, RingInsert
  <2> QED BY <2>1, <2>4
<1>6. Range(t) = Range(s) \cup {x}
  <2>1. 1 \in 1..(Len(s) + 1)
    BY <1>2
  <2> QED BY <1>2, <2>1, InsertAtRange
<1>7. Len(t) > 0 /\ t[Len(t)] = kernel_space
  <2>1. 1 \in 1..(Len(s) + 1) /\ x \in Nodes
    BY <1>2
  <2>2. /\ Len(t) = Len(s) + 1
        /\ \A i \in 1..(Len(s) + 1) :
             t[i] = IF i < 1 THEN s[i] ELSE IF i = 1 THEN x ELSE s[i - 1]
    BY <1>2, <2>1, InsertAtProps
  <2> HIDE DEF t
  <2>3. Len(s) + 1 \in 1..(Len(s) + 1) /\ ~(Len(s) + 1 < 1) /\ Len(s) + 1 # 1
        /\ (Len(s) + 1) - 1 = Len(s)
    BY <1>1, <1>2
  <2>4. t[Len(s) + 1] = s[Len(s)]
    BY <2>2, <2>3
  <2> QED BY <1>1, <2>2, <2>3, <2>4
<1>8. \A c \in ({r} \cup Range(t)) \ {kernel_space} : nx2[c] = n2[c]
  BY <1>1, <1>3, <1>4, <1>6
<1>9. \A c \in Range(t) \ {kernel_space} : pv2[c] = p2[c]
  BY <1>1, <1>3, <1>4, <1>6
<1> HIDE DEF t
<1>10. Chain(n2, p2, r, t)
  BY <1>5, <1>7, <1>8, <1>9 DEF Chain
<1> QED BY <1>10 DEF t

\* list_unlink of a block x of room r
LEMMA ChainRemove ==
  ASSUME NEW r \in Heads, NEW s, NEW n, NEW p, Chain(n, p, r, s),
         NEW x \in Range(s) \ {kernel_space}, NEW n2, NEW p2,
         n2[p[x]] = n[x],
         \A c \in ({r} \cup Range(s)) \ {kernel_space} : c # p[x] => n2[c] = n[c],
         n[x] # kernel_space => p2[n[x]] = p[x],
         \A c \in Range(s) \ {kernel_space} : c # n[x] => p2[c] = p[c]
  PROVE  \E k \in 1..Len(s) :
           /\ Chain(n2, p2, r, RemoveAt(s, k))
           /\ Range(RemoveAt(s, k)) = Range(s) \ {x}
<1>1. PICK nx, pv :
        /\ IsRing(nx, pv, r, s) /\ Len(s) > 0 /\ s[Len(s)] = kernel_space
        /\ \A c \in ({r} \cup Range(s)) \ {kernel_space} : nx[c] = n[c]
        /\ \A c \in Range(s) \ {kernel_space} : pv[c] = p[c]
  BY DEF Chain
<1>2. s \in Seq(Nodes) /\ IsInjective(s)
  BY <1>1 DEF IsRing
<1>3. PICK k \in 1..Len(s) : s[k] = x
  BY <1>2, CellsOfRing DEF Range
<1> DEFINE t == RemoveAt(s, k)
           c0 == Cell(r, s, k - 1)
           d0 == Cell(r, s, k + 1)
           nx2 == [c \in Cells |-> IF c = c0 THEN d0 ELSE nx[c]]
           pv2 == [c \in Cells |-> IF c = d0 THEN c0 ELSE pv[c]]
<1>4. /\ Len(s) \in Nat /\ k # Len(s) /\ Cell(r, s, k) = x /\ k \in 0..Len(s) /\ k - 1 \in 0..Len(s)
      /\ c0 \in Cells /\ d0 \in Cells /\ c0 \in {r} \cup Range(s) /\ d0 \in {r} \cup Range(s)
      /\ Range(s) \subseteq Cells /\ kernel_space # r /\ r \in Cells /\ r \notin Range(s)
  <2>1. Len(s) \in Nat /\ k # Len(s)
    BY <1>1, <1>2, <1>3, CellsOfRing
  <2>2. Range(s) \subseteq Nodes
    BY <1>2, RangeOfSeq
  <2>3. kernel_space # r /\ r \in Cells /\ r \notin Range(s) /\ Range(s) \subseteq Cells
    BY <2>2, SpaceAssumption, CellsAssumption DEF Cells
  <2>4. k \in 0..Len(s) /\ k - 1 \in 0..Len(s)
    BY <2>1
  <2> QED BY <1>2, <1>3, <2>1, <2>3, <2>4, CellsOfRing
<1>5. nx[x] = d0 /\ pv[x] = c0
  <2>1. (k - 1) + 1 = k
    BY <1>4
  <2> QED BY <1>1, <1>4, <2>1 DEF IsRing
<1>6. n[x] = d0 /\ p[x] = c0
  BY <1>1, <1>5
<1>7. c0 # kernel_space
  <2>1. k - 1 = 0 \/ (k - 1 \in 1..Len(s) /\ k - 1 # Len(s) /\ Len(s) \in 1..Len(s))
    BY <1>1, <1>4
  <2>2. CASE k - 1 = 0
    BY <1>4, <2>2 DEF Cell
  <2>3. CASE k - 1 \in 1..Len(s) /\ k - 1 # Len(s) /\ Len(s) \in 1..Len(s)
    <3>1. c0 = s[k - 1] /\ s[k - 1] # s[Len(s)]
      BY <1>2, <2>3, CellsOfRing DEF Cell, IsInjective
    <3> QED BY <1>1, <3>1
  <2> QED BY <2>1, <2>2, <2>3
<1> HIDE DEF c0, d0
<1>8. /\ nx2[c0] = d0 /\ \A c \in Cells : c # c0 => nx2[c] = nx[c]
      /\ pv2[d0] = c0 /\ \A c \in Cells : c # d0 => pv2[c] = pv[c]
  BY <1>4
<1> HIDE DEF nx2, pv2
<1>9. IsRing(nx2, pv2, r, t)
  BY <1>1, <1>8, RingRemove DEF c0, d0
<1>10. Range(t) = Range(s) \ {x}
  BY <1>2, <1>3, RemoveAtRange
<1>11. Len(t) > 0 /\ t[Len(t)] = kernel_space
  <2>1. /\ Len(t) = Len(s) - 1
        /\ \A i \in 1..(Len(s) - 1) : t[i] = IF i < k THEN s[i] ELSE s[i + 1]
    BY <1>2, RemoveAtProps
  <2> HIDE DEF t
  <2>2. Len(s) - 1 \in 1..(Len(s) - 1) /\ ~(Len(s) - 1 < k) /\ (Len(s) - 1) + 1 = Len(s)
    BY <1>4
  <2>3. t[Len(s) - 1] = s[Len(s)]
    BY <2>1, <2>2
  <2> QED BY <1>1, <2>1, <2>2, <2>3
<1>12. \A c \in ({r} \cup Range(t)) \ {kernel_space} : nx2[c] = n2[c]
  <2> SUFFICES ASSUME NEW c \in ({r} \cup Range(s)) \ {kernel_space} PROVE nx2[c] = n2[c]
    BY <1>10
  <2>1. CASE c = c0
    BY <1>6, <1>8, <2>1
  <2>2. CASE c # c0
    BY <1>1, <1>4, <1>6, <1>8, <2>2
  <2> QED BY <2>1, <2>2
<1>13. \A c \in Range(t) \ {kernel_space} : pv2[c] = p2[c]
  <2> SUFFICES ASSUME NEW c \in Range(s) \ {kernel_space} PROVE pv2[c] = p2[c]
    BY <1>10
  <2>1. CASE c = d0
    BY <1>6, <1>8, <2>1
  <2>2. CASE c # d0
    BY <1>1, <1>4, <1>6, <1>8, <2>2
  <2> QED BY <2>1, <2>2
<1> HIDE DEF t
<1>14. Chain(n2, p2, r, t)
  BY <1>9, <1>11, <1>12, <1>13 DEF Chain
<1> QED BY <1>10, <1>14 DEF t

\* A walk meets the nodes of the room and then what is behind kernel_space.
LEMMA ChainWalk ==
  ASSUME NEW r \in Heads, NEW s, NEW n, NEW p, Chain(n, p, r, s), NEW m \in Nat, m <= Len(s) + 1
  PROVE  Steps(r, n, m) = IF m <= Len(s) THEN Cell(r, s, m) ELSE n[kernel_space]
<1> DEFINE at(i) == IF i <= Len(s) THEN Cell(r, s, i) ELSE n[kernel_space]
           w == [i \in 0..m |-> at(i)]
<1>1. /\ s \in Seq(Nodes) /\ IsInjective(s) /\ Len(s) \in Nat /\ Len(s) > 0
      /\ s[Len(s)] = kernel_space
      /\ \A i \in 1..Len(s) : n[Cell(r, s, i - 1)] = s[i]
  BY ChainCells
<1>2. \A i : Cell(r, s, i) # NULL
  BY <1>1, CellsOfRing, CellsAssumption DEF Cells
<1>3. at(0) = r
  BY <1>1 DEF Cell
<1>4. ASSUME NEW i \in 1..m PROVE at(i) = StepFrom(r, n, i, at(i - 1))
  <2>1. i \in Nat /\ i - 1 \in 0..Len(s) /\ i - 1 <= Len(s)
    BY <1>1
  <2>2. i > 1 => Cell(r, s, i - 1) # r
    <3>1. i > 1 => i - 1 \in 1..Len(s)
      BY <1>1, <2>1
    <3> QED BY <1>1, <3>1, CellsOfRing
  <2>3. StepFrom(r, n, i, at(i - 1)) = n[Cell(r, s, i - 1)]
    BY <1>2, <2>1, <2>2 DEF StepFrom
  <2>4. CASE i <= Len(s)
    <3>1. i \in 1..Len(s)
      BY <2>4
    <3> QED BY <1>1, <2>3, <2>4, <3>1 DEF Cell
  <2>5. CASE ~(i <= Len(s))
    <3>1. i - 1 = Len(s) /\ Len(s) \in 1..Len(s)
      BY <1>1, <2>5
    <3>2. Cell(r, s, i - 1) = kernel_space
      BY <1>1, <3>1 DEF Cell
    <3> QED BY <2>3, <2>5, <3>2
  <2> QED BY <2>4, <2>5
<1> HIDE DEF at
<1>5. /\ w = [i \in 0..m |-> w[i]] /\ w[0] = r /\ w[m] = at(m)
      /\ \A i \in 1..m : w[i] = at(i) /\ w[i - 1] = at(i - 1)
  BY <1>3
<1>6. \A i \in 1..m : w[i] = StepFrom(r, n, i, w[i - 1])
  BY <1>4, <1>5
<1>7. IsWalk(r, n, m, w)
  BY <1>5, <1>6 DEF IsWalk
<1> HIDE DEF w
<1>8. Steps(r, n, m) = w[m]
  BY <1>7, StepsAre
<1> QED BY <1>5, <1>8 DEF at

-----------------------------------------------------------------------------

\* L[r] is the sequence of the nodes of room r.
AreChains(L) ==
  /\ L \in [Heads -> Seq(Nodes)]
  /\ \A r \in ready : /\ Chain(next, prev, r, L[r])
                      /\ Range(L[r]) = {kernel_space} \cup In(r)

BlocksInv ==
  /\ block \in [Blocks -> LinearBlock \cup {NULL}]
  /\ \A b \in Blocks : on[b] # NULL => on[b] \in ready /\ block[b] # NULL

NewestInv ==
  /\ ready # {} => newest # NULL
  /\ newest # NULL => newest \in ready /\ next[kernel_space] = newest

SpaceInv == TypeOK /\ BlocksInv /\ NewestInv /\ (\E L : AreChains(L)) /\ PagesApart

\* What a walk meets: all nodes of the room, then the head of the newest room
LEMMA WalkOfRoom ==
  ASSUME TypeOK, NewestInv, NEW L, AreChains(L), NEW r \in ready
  PROVE  /\ WalkLength(r) = Len(L[r]) + 1 /\ Len(L[r]) \in Nat
         /\ \A i \in 1..Len(L[r]) : Steps(r, next, i) = L[r][i]
         /\ Met(r) = {kernel_space} \cup In(r) /\ Met(r) = Range(L[r])
         /\ ComesBack(r) <=> r = newest
<1> DEFINE s == L[r]
           m == Len(s) + 1
<1>1. /\ r \in Heads /\ newest \in Heads /\ next[kernel_space] = newest
      /\ Chain(next, prev, r, s) /\ Range(s) = {kernel_space} \cup In(r)
  BY DEF TypeOK, NewestInv, AreChains
<1>2. /\ s \in Seq(Nodes) /\ IsInjective(s) /\ Len(s) \in Nat /\ Len(s) > 0
      /\ DOMAIN s = 1..Len(s) /\ \A i \in 1..Len(s) : s[i] \in Nodes /\ s[i] \in Range(s)
  BY <1>1, ChainCells, CellsOfRing
<1> HIDE DEF s
<1>3. \A i \in 1..Len(s) : Steps(r, next, i) = s[i] /\ Steps(r, next, i) \notin Rooms
  <2> SUFFICES ASSUME NEW i \in 1..Len(s) PROVE Steps(r, next, i) = s[i] /\ s[i] \notin Rooms
    OBVIOUS
  <2>1. i \in Nat /\ i <= Len(s) + 1 /\ i <= Len(s)
    BY <1>2
  <2>2. Steps(r, next, i) = Cell(r, s, i)
    BY <1>1, <2>1, ChainWalk
  <2> QED BY <1>2, <2>2, CellsAssumption DEF Cell, Rooms
<1>4. Steps(r, next, m) = newest
  <2>1. m \in Nat /\ m <= Len(s) + 1 /\ ~(m <= Len(s))
    BY <1>2
  <2> QED BY <1>1, <2>1, ChainWalk
<1>5. m \in 1..Cardinality(Cells)
  <2>1. IsFiniteSet(Cells) /\ Cardinality(Cells) \in Nat
    BY SpaceAssumption, FS_Union, FS_CardinalityType DEF Cells
  <2>2. {r} \cup Range(s) \subseteq Cells
    BY <1>1, <1>2, RangeOfSeq DEF Cells
  <2>3. IsFiniteSet({r} \cup Range(s)) /\ Cardinality({r} \cup Range(s)) <= Cardinality(Cells)
    BY <2>1, <2>2, FS_Subset
  <2>4. Cardinality({r} \cup Range(s)) - 1 = Len(s) /\ Cardinality({r} \cup Range(s)) \in Nat
    BY <1>1, <1>2, <2>3, SequenceLength, FS_CardinalityType
  <2> QED BY <1>2, <2>1, <2>3, <2>4
<1>6. \A i \in 1..(m - 1) : i \in 1..Len(s)
  BY <1>2
<1> DEFINE First(n) == /\ Steps(r, next, n) \in Rooms
                       /\ \A i \in 1..(n - 1) : Steps(r, next, i) \notin Rooms
<1>7. First(m)
  BY <1>1, <1>3, <1>4, <1>6 DEF Rooms
<1>8. ASSUME NEW n \in 1..Cardinality(Cells), First(n) PROVE n = m
  <2>1. n \in 1..Len(s) \/ n = m \/ m \in 1..(n - 1)
    BY <1>2
  <2> QED BY <1>1, <1>3, <1>4, <1>8, <2>1 DEF Rooms
<1>9. WalkLength(r) = m
  <2>1. WalkLength(r) = CHOOSE n \in 1..Cardinality(Cells) : First(n)
    BY DEF WalkLength
  <2> HIDE DEF First, m
  <2> QED BY <1>5, <1>7, <1>8, <2>1
<1>10. Met(r) = Range(s)
  <2>1. WalkLength(r) - 1 = Len(s)
    BY <1>2, <1>9
  <2>2. Met(r) = {s[i] : i \in 1..Len(s)}
    BY <1>3, <2>1 DEF Met
  <2> QED BY <1>2, <2>2 DEF Range
<1>11. ComesBack(r) <=> r = newest
  BY <1>4, <1>9 DEF ComesBack
<1> QED BY <1>1, <1>2, <1>3, <1>9, <1>10, <1>11 DEF s

-----------------------------------------------------------------------------

LEMMA InitIsSpaceInv == SpaceInit => SpaceInv
<1> SUFFICES ASSUME SpaceInit PROVE SpaceInv
  OBVIOUS
<1>1. TypeOK
  BY InitIsListInv DEF SpaceInit, ListInv
<1>2. /\ ready = {} /\ newest = NULL /\ block = [b \in Blocks |-> NULL]
      /\ \A b \in Blocks : on[b] = NULL
  BY DEF SpaceInit, Init, Blocks
<1>3. BlocksInv /\ NewestInv
  BY <1>2 DEF BlocksInv, NewestInv
<1>4. AreChains([r \in Heads |-> <<>>])
  BY <1>2 DEF AreChains
<1>5. PagesApart
  BY <1>2 DEF PagesApart
<1> QED BY <1>1, <1>3, <1>4, <1>5 DEF SpaceInv

\* A room that is created has only kernel_space, which the others lose.
LEMMA CreateKeeps ==
  ASSUME SpaceInv, NEW room \in Rooms, LinearSpaceCreate(room)
  PROVE  SpaceInv'
<1>1. /\ room \in Heads /\ room \in Cells /\ kernel_space \in Cells /\ kernel_space \in Nodes
      /\ kernel_space # room /\ room # NULL
  BY CellsAssumption, SpaceAssumption DEF Rooms, Cells
<1>2. /\ room \notin ready /\ ready' = ready \cup {room} /\ newest' = room
      /\ next' = [next EXCEPT ![room] = kernel_space, ![kernel_space] = room]
      /\ prev' = [prev EXCEPT ![room] = kernel_space, ![kernel_space] = room]
      /\ on' = [on EXCEPT ![kernel_space] = room]
      /\ block' = block
  BY DEF LinearSpaceCreate, Keep
<1>3. /\ prev \in [Cells -> Pointers] /\ next \in [Cells -> Pointers]
      /\ ready \subseteq Heads /\ on \in [Nodes -> Heads \cup {NULL}]
  BY DEF SpaceInv, TypeOK
<1>4. TypeOK'
  BY <1>1, <1>2, <1>3 DEF TypeOK, Pointers
<1>5. /\ next'[room] = kernel_space /\ next'[kernel_space] = room
      /\ \A c \in Cells : c # room /\ c # kernel_space => next'[c] = next[c] /\ prev'[c] = prev[c]
      /\ \A b \in Blocks : on'[b] = on[b]
  BY <1>1, <1>2, <1>3 DEF Blocks
<1>6. BlocksInv'
  BY <1>2, <1>5 DEF BlocksInv, SpaceInv
<1>7. NewestInv'
  BY <1>1, <1>2, <1>5 DEF NewestInv
<1>8. PagesApart'
  BY <1>2, <1>5 DEF PagesApart, SpaceInv, PageSet, Pages
<1>9. \E L : AreChains(L)'
  <2>1. PICK L : AreChains(L)
    BY DEF SpaceInv
  <2> DEFINE M == [L EXCEPT ![room] = <<kernel_space>>]
  <2>2. /\ M \in [Heads -> Seq(Nodes)] /\ M[room] = <<kernel_space>>
        /\ \A r \in Heads : r # room => M[r] = L[r]
    BY <1>1, <2>1 DEF AreChains
  <2> HIDE DEF M
  <2>3. \A r \in Heads : In(r)' = {b \in Blocks : on[b] = r}
    BY <1>5 DEF In
  <2>4. In(room)' = {}
    BY <1>1, <1>2, <2>3 DEF SpaceInv, BlocksInv
  <2>5. Chain(next', prev', room, M[room]) /\ Range(M[room]) = {kernel_space} \cup In(room)'
    BY <1>1, <1>5, <2>2, <2>4, ChainNew DEF Range
  <2>6. ASSUME NEW r \in ready
        PROVE  /\ Chain(next', prev', r, M[r])
               /\ Range(M[r]) = {kernel_space} \cup In(r)'
    <3>1. /\ r \in Heads /\ r # room /\ M[r] = L[r] /\ Chain(next, prev, r, L[r])
          /\ Range(L[r]) = {kernel_space} \cup In(r)
      BY <1>2, <1>3, <2>1, <2>2 DEF AreChains
    <3>2. \A c \in ({r} \cup Range(L[r])) \ {kernel_space} : c \in Cells /\ c # room
      BY <1>1, <3>1, CellsAssumption DEF In, Blocks, Cells
    <3>3. Chain(next', prev', r, L[r])
      BY <1>5, <3>1, <3>2, ChainElsewhere
    <3>4. In(r)' = In(r)
      BY <2>3, <3>1 DEF In
    <3> QED BY <3>1, <3>3, <3>4
  <2>7. AreChains(M)'
    BY <1>2, <2>2, <2>5, <2>6 DEF AreChains
  <2> QED BY <2>7
<1> QED BY <1>4, <1>6, <1>7, <1>8, <1>9 DEF SpaceInv

\* Steps that leave all lists alone, and the pages of the blocks in them
LEMMA ElsewhereKeeps ==
  ASSUME SpaceInv, UNCHANGED <<prev, next, ready, on, newest>>,
         block' \in [Blocks -> LinearBlock \cup {NULL}],
         \A b \in Blocks : on[b] # NULL =>
           block'[b] # NULL /\ block'[b].start = block[b].start /\ block'[b].order = block[b].order
  PROVE  SpaceInv'
<1>1. TypeOK'
  BY DEF SpaceInv, TypeOK
<1>2. BlocksInv'
  BY DEF SpaceInv, BlocksInv
<1>3. NewestInv'
  BY DEF SpaceInv, NewestInv
<1>4. \E L : AreChains(L)'
  <2>1. PICK L : AreChains(L)
    BY DEF SpaceInv
  <2>2. AreChains(L)'
    BY <2>1 DEF AreChains, In
  <2> QED BY <2>2
<1>5. PagesApart'
  <2> SUFFICES ASSUME NEW b \in Blocks, NEW c \in Blocks, b # c, on[b] # NULL, on[b] = on[c],
                      block'[b].order < 2, block'[c].order < 2
               PROVE  PageSet(b)' \cap PageSet(c)' = {}
    BY DEF PagesApart
  <2>1. PageSet(b)' = PageSet(b) /\ PageSet(c)' = PageSet(c)
    BY DEF PageSet, Pages
  <2>2. block[b].order < 2 /\ block[c].order < 2
    OBVIOUS
  <2> QED BY <2>1, <2>2 DEF SpaceInv, PagesApart
<1> QED BY <1>1, <1>2, <1>3, <1>4, <1>5 DEF SpaceInv

-----------------------------------------------------------------------------

\* What an order below two means
LEMMA ShortBlock ==
  ASSUME NEW b \in Blocks, block[b] \in LinearBlock, block[b].order < 2
  PROVE  /\ block[b].start \in Nat /\ block[b].order \in {0, 1}
         /\ Pages(b) = block[b].order + 1
         /\ PageSet(b) = block[b].start..(block[b].start + block[b].order)
<1>1. block[b].start \in Nat /\ block[b].order \in Nat
  BY DEF LinearBlock
<1>2. block[b].order = 0 \/ block[b].order = 1
  BY <1>1
<1>3. 2^0 = 1 /\ 2^1 = 2
  OBVIOUS
<1>4. Pages(b) = block[b].order + 1
  <2>1. CASE block[b].order = 0
    <3>1. Pages(b) = 2^0
      BY <2>1 DEF Pages
    <3> QED BY <1>3, <2>1, <3>1
  <2>2. CASE block[b].order = 1
    <3>1. Pages(b) = 2^1
      BY <2>2 DEF Pages
    <3> QED BY <1>3, <2>2, <3>1
  <2> QED BY <1>2, <2>1, <2>2
<1> QED BY <1>1, <1>2, <1>4 DEF PageSet

LEMMA NoOverlap ==
  ASSUME NEW b \in Blocks, NEW c \in Blocks, block[b] \in LinearBlock, block[c] \in LinearBlock,
         block[b].order < 2, block[c].order < 2, ~Overlaps(b, c)
  PROVE  PageSet(b) \cap PageSet(c) = {}
  BY ShortBlock DEF Overlaps

\* A block that is added does not meet those the walk has met, which are all of the room.
LEMMA AddKeeps ==
  ASSUME SpaceInv, NEW room \in Rooms, NEW b \in Blocks, ModAddrRoomAdd(room, b)
  PROVE  SpaceInv'
<1>1. CASE ~ComesBack(room)
  <2>1. UNCHANGED <<prev, next, ready, on, newest, block>>
    BY <1>1 DEF ModAddrRoomAdd, Keep
  <2> QED BY <2>1, ElsewhereKeeps DEF SpaceInv, BlocksInv
<1> SUFFICES ASSUME ComesBack(room) PROVE SpaceInv'
  BY <1>1
<1>2. /\ room \in ready /\ block[b] # NULL /\ on[b] = NULL
      /\ \A other \in Met(room) \ {kernel_space} : ~Overlaps(b, other)
      /\ LinkBehind(room, b) /\ on' = [on EXCEPT ![b] = room]
      /\ UNCHANGED <<ready, block, newest>>
  BY DEF ModAddrRoomAdd, Keep
<1>3. /\ prev \in [Cells -> Pointers] /\ next \in [Cells -> Pointers]
      /\ ready \subseteq Heads /\ on \in [Nodes -> Heads \cup {NULL}]
  BY DEF SpaceInv, TypeOK
<1>4. PICK L : AreChains(L)
  BY DEF SpaceInv
<1>5. /\ room \in Heads /\ room \in Cells /\ b \in Nodes /\ b \in Cells /\ b # kernel_space
      /\ b # room /\ room # kernel_space /\ kernel_space \in Cells /\ room # NULL
  BY CellsAssumption, SpaceAssumption DEF Rooms, Blocks, Cells
<1>6. /\ Chain(next, prev, room, L[room]) /\ Range(L[room]) = {kernel_space} \cup In(room)
      /\ L[room] \in Seq(Nodes) /\ IsInjective(L[room]) /\ Len(L[room]) \in Nat
      /\ next[room] \in {kernel_space} \cup In(room)
  <2>1. Chain(next, prev, room, L[room]) /\ Range(L[room]) = {kernel_space} \cup In(room)
    BY <1>2, <1>4 DEF AreChains
  <2> QED BY <1>5, <2>1, ChainCells
<1>7. /\ next[room] \in Cells /\ next[room] # b /\ next[room] # room
      /\ In(room) \subseteq Cells /\ In(room) \cap Heads = {} /\ b \notin In(room)
  BY <1>2, <1>5, <1>6, CellsAssumption DEF In, Blocks, Cells
<1>8. /\ next'[b] = next[room] /\ next'[room] = b
      /\ \A c \in Cells : c # b /\ c # room => next'[c] = next[c]
      /\ prev'[b] = room /\ prev'[next[room]] = b
      /\ \A c \in Cells : c # b /\ c # next[room] => prev'[c] = prev[c]
      /\ next' \in [Cells -> Pointers] /\ prev' \in [Cells -> Pointers]
  <2>1. /\ next' = [next EXCEPT ![b] = next[room], ![room] = b]
        /\ prev' = [prev EXCEPT ![next[room]] = b, ![b] = room]
    BY <1>2 DEF LinkBehind
  <2> QED BY <1>3, <1>5, <1>7, <2>1 DEF Pointers
<1>9. \A c \in Blocks : on'[c] = IF c = b THEN room ELSE on[c]
  BY <1>2, <1>3, <1>5 DEF Blocks
<1>10. TypeOK'
  BY <1>2, <1>3, <1>5, <1>8 DEF TypeOK
<1>11. BlocksInv'
  BY <1>2, <1>9 DEF SpaceInv, BlocksInv
<1>12. NewestInv'
  BY <1>2, <1>5, <1>8 DEF SpaceInv, NewestInv
<1>13. \E M : AreChains(M)'
  <2> DEFINE t == InsertAt(L[room], 1, b)
             M == [L EXCEPT ![room] = t]
  <2>1. 1 \in 1..(Len(L[room]) + 1) /\ b \notin Range(L[room])
    BY <1>5, <1>6, <1>7
  <2>2. t \in Seq(Nodes) /\ Range(t) = Range(L[room]) \cup {b}
    BY <1>5, <1>6, <2>1, InsertAtProps, InsertAtRange
  <2>3. Chain(next', prev', room, t)
    <3>1. \A c \in Range(L[room]) : c \in Cells /\ c # b /\ c # room
      BY <1>5, <1>6, <1>7
    <3>2. \A c \in Range(L[room]) \ {kernel_space} : next'[c] = next[c]
      BY <1>8, <3>1
    <3>3. \A c \in Range(L[room]) \ {kernel_space} : c # next[room] => prev'[c] = prev[c]
      BY <1>8, <3>1
    <3> QED BY <1>5, <1>6, <1>8, <2>1, <3>2, <3>3, ChainAdd
  <2> HIDE DEF t
  <2>4. M \in [Heads -> Seq(Nodes)] /\ M[room] = t /\ \A r \in Heads : r # room => M[r] = L[r]
    BY <1>4, <1>5, <2>2 DEF AreChains
  <2> HIDE DEF M
  <2>5. \A r \in Heads : In(r)' = {c \in Blocks : (IF c = b THEN room ELSE on[c]) = r}
    BY <1>9 DEF In
  <2>6. In(room)' = In(room) \cup {b}
    BY <1>2, <1>5, <2>5 DEF In
  <2>7. ASSUME NEW r \in ready, r # room
        PROVE  Chain(next', prev', r, M[r]) /\ Range(M[r]) = {kernel_space} \cup In(r)'
    <3>1. /\ r \in Heads /\ M[r] = L[r] /\ Chain(next, prev, r, L[r])
          /\ Range(L[r]) = {kernel_space} \cup In(r)
      BY <1>3, <1>4, <2>4, <2>7 DEF AreChains
    <3>2. \A c \in In(r) : c \in Cells /\ c # b /\ c # room /\ c \notin In(room)
      BY <1>2, <1>5, <2>7, <3>1, CellsAssumption DEF In, Blocks, Cells
    <3>3. r \in Cells /\ r # b /\ r \notin In(room) /\ r # kernel_space
      BY <1>5, <1>7, <3>1, CellsAssumption, SpaceAssumption DEF Cells
    <3>4. \A c \in ({r} \cup Range(L[r])) \ {kernel_space} :
            c \in Cells /\ c # b /\ c # room /\ c # next[room]
      BY <1>6, <2>7, <3>1, <3>2, <3>3
    <3>5. \A c \in ({r} \cup Range(L[r])) \ {kernel_space} :
            next'[c] = next[c] /\ prev'[c] = prev[c]
      BY <1>8, <3>4
    <3>6. In(r)' = In(r)
      BY <1>2, <1>5, <2>5, <2>7, <3>1, CellsAssumption DEF In
    <3> QED BY <3>1, <3>5, <3>6, ChainElsewhere
  <2>8. AreChains(M)'
    BY <1>2, <1>6, <2>2, <2>3, <2>4, <2>6, <2>7 DEF AreChains
  <2> QED BY <2>8
<1>14. PagesApart'
  <2>1. \A c \in Blocks : block'[c] = block[c] /\ PageSet(c)' = PageSet(c)
    BY <1>2 DEF PageSet, Pages
  <2>2. ASSUME NEW c \in Blocks, c # b, on[c] = room, block[b].order < 2, block[c].order < 2
        PROVE  PageSet(b) \cap PageSet(c) = {}
    <3>1. c \in Met(room) \ {kernel_space}
      <4>1. Met(room) = {kernel_space} \cup In(room)
        BY <1>2, <1>4, WalkOfRoom DEF SpaceInv
      <4> QED BY <2>2, <4>1 DEF In, Blocks
    <3>2. block[b] \in LinearBlock /\ block[c] \in LinearBlock
      BY <1>2, <1>5, <2>2 DEF SpaceInv, BlocksInv
    <3> QED BY <1>2, <2>2, <3>1, <3>2, NoOverlap
  <2>3. \A x, y \in Blocks :
          (x # y /\ on[x] # NULL /\ on[x] = on[y] /\ block[x].order < 2 /\ block[y].order < 2)
            => PageSet(x) \cap PageSet(y) = {}
    BY DEF SpaceInv, PagesApart
  <2> SUFFICES ASSUME NEW x \in Blocks, NEW y \in Blocks, x # y, on'[x] # NULL, on'[x] = on'[y],
                      block[x].order < 2, block[y].order < 2
               PROVE  PageSet(x) \cap PageSet(y) = {}
    BY <2>1 DEF PagesApart
  <2>4. CASE x # b /\ y # b
    BY <1>9, <2>3, <2>4
  <2>5. CASE x = b
    BY <1>9, <2>2, <2>5
  <2>6. CASE y = b
    BY <1>9, <2>2, <2>6
  <2> QED BY <2>4, <2>5, <2>6
<1> QED BY <1>10, <1>11, <1>12, <1>13, <1>14 DEF SpaceInv

\* A block that is unlinked from any room takes no other room's pointer with it but one
\* of kernel_space, which is not used.
LEMMA DelKeeps ==
  ASSUME SpaceInv, NEW b \in Blocks, ModAddrRoomDel(b)
  PROVE  SpaceInv'
<1>0. PICK room : room = on[b]
  OBVIOUS
<1> DEFINE c0 == prev[b]
           d0 == next[b]
<1>1. /\ room # NULL
      /\ next' = [next EXCEPT ![c0] = d0] /\ prev' = [prev EXCEPT ![d0] = c0]
      /\ on' = [on EXCEPT ![b] = NULL]
      /\ UNCHANGED <<ready, block, newest>>
  BY <1>0 DEF ModAddrRoomDel, ListUnlink, Keep
<1>2. /\ prev \in [Cells -> Pointers] /\ next \in [Cells -> Pointers]
      /\ ready \subseteq Heads /\ on \in [Nodes -> Heads \cup {NULL}]
  BY DEF SpaceInv, TypeOK
<1>3. PICK L : AreChains(L)
  BY DEF SpaceInv
<1>4. /\ room \in ready /\ room \in Heads /\ room \in Cells /\ b \in Nodes /\ b \in Cells
      /\ b # kernel_space /\ b \in In(room) /\ room # kernel_space /\ kernel_space \in Cells
  <2>1. room \in ready
    BY <1>0, <1>1 DEF SpaceInv, BlocksInv
  <2> QED BY <1>0, <1>2, <2>1, CellsAssumption, SpaceAssumption DEF In, Blocks, Cells
<1> DEFINE s == L[room]
<1>5. /\ Chain(next, prev, room, s) /\ Range(s) = {kernel_space} \cup In(room)
      /\ s \in Seq(Nodes) /\ IsInjective(s)
      /\ c0 \in {room} \cup In(room) /\ d0 \in {kernel_space} \cup In(room)
  <2>1. Chain(next, prev, room, s) /\ Range(s) = {kernel_space} \cup In(room)
    BY <1>3, <1>4 DEF AreChains
  <2>2. /\ s \in Seq(Nodes) /\ IsInjective(s) /\ Len(s) \in Nat /\ s[Len(s)] = kernel_space
        /\ DOMAIN s = 1..Len(s)
        /\ \A i \in 1..Len(s) : next[Cell(room, s, i - 1)] = s[i] /\ s[i] \in Range(s)
        /\ \A i \in 1..(Len(s) - 1) : s[i] # kernel_space /\ prev[s[i]] = Cell(room, s, i - 1)
    BY <1>4, <2>1, ChainCells, CellsOfRing
  <2>3. PICK k \in 1..Len(s) : s[k] = b
    BY <1>4, <2>1, <2>2 DEF Range
  <2>4. k # Len(s)
    BY <1>4, <2>2, <2>3
  <2>5. k \in 1..(Len(s) - 1) /\ k + 1 \in 1..Len(s) /\ (k + 1) - 1 = k
    BY <2>2, <2>4
  <2>6. c0 = Cell(room, s, k - 1) /\ (k - 1 \in 1..Len(s) => k - 1 \in 1..(Len(s) - 1))
    BY <2>2, <2>3, <2>5
  <2>7. c0 \in {room} \cup In(room)
    BY <2>1, <2>2, <2>6 DEF Cell
  <2>8. d0 = s[k + 1]
    BY <2>2, <2>3, <2>5 DEF Cell
  <2> QED BY <2>1, <2>2, <2>5, <2>7, <2>8
<1>6. /\ c0 \in Cells /\ d0 \in Cells /\ c0 # kernel_space /\ In(room) \subseteq Nodes
      /\ In(room) \subseteq Cells /\ kernel_space \notin In(room) /\ In(room) \cap Heads = {}
  BY <1>4, <1>5, CellsAssumption DEF In, Blocks, Cells
<1> HIDE DEF c0, d0, s
<1>7. /\ next'[c0] = d0 /\ \A c \in Cells : c # c0 => next'[c] = next[c]
      /\ prev'[d0] = c0 /\ \A c \in Cells : c # d0 => prev'[c] = prev[c]
      /\ next' \in [Cells -> Pointers] /\ prev' \in [Cells -> Pointers]
  BY <1>1, <1>2, <1>6 DEF Pointers
<1>8. \A c \in Blocks : on'[c] = IF c = b THEN NULL ELSE on[c]
  BY <1>1, <1>2 DEF Blocks
<1>9. TypeOK'
  BY <1>1, <1>2, <1>7 DEF TypeOK
<1>10. BlocksInv'
  BY <1>1, <1>8 DEF SpaceInv, BlocksInv
<1>11. NewestInv'
  BY <1>1, <1>4, <1>6, <1>7 DEF SpaceInv, NewestInv
<1>12. PagesApart'
  <2>1. \A c \in Blocks : block'[c] = block[c] /\ PageSet(c)' = PageSet(c)
    BY <1>1 DEF PageSet, Pages
  <2>2. \A x, y \in Blocks :
          (x # y /\ on[x] # NULL /\ on[x] = on[y] /\ block[x].order < 2 /\ block[y].order < 2)
            => PageSet(x) \cap PageSet(y) = {}
    BY DEF SpaceInv, PagesApart
  <2> QED BY <1>8, <2>1, <2>2 DEF PagesApart
<1>13. \E M : AreChains(M)'
  <2>1. c0 = prev[b] /\ d0 = next[b] /\ b \in Range(s) \ {kernel_space} /\ room = on[b]
    BY <1>0, <1>4, <1>5 DEF c0, d0
  <2>2. /\ next'[prev[b]] = next[b]
        /\ \A c \in ({room} \cup Range(s)) \ {kernel_space} : c # prev[b] => next'[c] = next[c]
        /\ next[b] # kernel_space => prev'[next[b]] = prev[b]
        /\ \A c \in Range(s) \ {kernel_space} : c # next[b] => prev'[c] = prev[c]
    BY <1>4, <1>5, <1>6, <1>7, <2>1
  <2>3. PICK k \in 1..Len(s) : /\ Chain(next', prev', room, RemoveAt(s, k))
                               /\ Range(RemoveAt(s, k)) = Range(s) \ {b}
    BY <1>4, <1>5, <2>1, <2>2, ChainRemove
  <2> DEFINE t == RemoveAt(s, k)
             M == [L EXCEPT ![room] = t]
  <2>4. t \in Seq(Nodes)
    BY <1>5, RemoveAtProps
  <2>5. Chain(next', prev', room, t) /\ Range(t) = Range(s) \ {b}
    BY <2>3
  <2> HIDE DEF t
  <2>6. M \in [Heads -> Seq(Nodes)] /\ M[room] = t /\ \A r \in Heads : r # room => M[r] = L[r]
    BY <1>3, <1>4, <2>4 DEF AreChains
  <2> HIDE DEF M
  <2>7. \A r \in Heads : In(r)' = {c \in Blocks : (IF c = b THEN NULL ELSE on[c]) = r}
    BY <1>8 DEF In
  <2>8. In(room)' = In(room) \ {b}
    BY <1>4, <2>7, CellsAssumption DEF In
  <2>9. ASSUME NEW r \in ready, r # room
        PROVE  Chain(next', prev', r, M[r]) /\ Range(M[r]) = {kernel_space} \cup In(r)'
    <3>1. /\ r \in Heads /\ M[r] = L[r] /\ Chain(next, prev, r, L[r])
          /\ Range(L[r]) = {kernel_space} \cup In(r)
      BY <1>2, <1>3, <2>6, <2>9 DEF AreChains
    <3>2. \A c \in In(r) : c \in Cells /\ c # room /\ c \notin In(room)
      BY <1>4, <2>9, <3>1, CellsAssumption DEF In, Blocks, Cells
    <3>3. r \in Cells /\ r \notin In(room) /\ r # kernel_space
      BY <1>6, <3>1, CellsAssumption, SpaceAssumption DEF Cells
    <3>4. \A c \in ({r} \cup Range(L[r])) \ {kernel_space} : c \in Cells /\ c # c0 /\ c # d0
      BY <1>5, <2>9, <3>1, <3>2, <3>3
    <3>5. \A c \in ({r} \cup Range(L[r])) \ {kernel_space} :
            next'[c] = next[c] /\ prev'[c] = prev[c]
      BY <1>7, <3>4
    <3>6. In(r)' = In(r)
      <4>1. r # NULL /\ on[b] # r
        BY <2>1, <2>9, <3>1, CellsAssumption
      <4> QED BY <2>7, <3>1, <4>1 DEF In
    <3> QED BY <3>1, <3>5, <3>6, ChainElsewhere
  <2>10. AreChains(M)'
    BY <1>1, <1>4, <1>5, <2>5, <2>6, <2>8, <2>9 DEF AreChains
  <2> QED BY <2>10
<1> QED BY <1>9, <1>10, <1>11, <1>12, <1>13 DEF SpaceInv

-----------------------------------------------------------------------------

\* Whatever is created, added, deleted and switched to (kernel/page/linearspace.c), each
\* room's own pointers lead through its blocks to kernel_space.
THEOREM SpaceInvariance == SpaceSpec => []SpaceInv
<1>1. SpaceInv /\ [SpaceNext]_spaceVars => SpaceInv'
  <2> SUFFICES ASSUME SpaceInv, [SpaceNext]_spaceVars PROVE SpaceInv'
    OBVIOUS
  <2>1. ASSUME NEW room \in Rooms, LinearSpaceCreate(room) PROVE SpaceInv'
    BY <2>1, CreateKeeps
  <2>2. ASSUME NEW room \in Rooms, NEW b \in Blocks, ModAddrRoomAdd(room, b) PROVE SpaceInv'
    BY <2>2, AddKeeps
  <2>3. ASSUME NEW room \in Rooms, ModAddrRoomSwitch(room) PROVE SpaceInv'
    <3>1. UNCHANGED <<prev, next, ready, on, newest>> /\ room \in ready
      BY <2>3 DEF ModAddrRoomSwitch, Keep
    <3>2. PICK L : AreChains(L)
      BY DEF SpaceInv
    <3>3. \A b \in Blocks : b \in Met(room) => on[b] # NULL
      <4>1. Met(room) = {kernel_space} \cup In(room)
        BY <3>1, <3>2, WalkOfRoom DEF SpaceInv
      <4>2. room # NULL
        BY <3>1, CellsAssumption DEF SpaceInv, TypeOK
      <4> QED BY <4>1, <4>2 DEF In, Blocks
    <3>4. \A b \in Blocks : on[b] # NULL => block[b] \in LinearBlock
      BY DEF SpaceInv, BlocksInv
    <3>5. \A b \in Blocks :
            block'[b] = IF block' # block /\ b \in Met(room) THEN [block[b] EXCEPT !.used = FALSE]
                        ELSE block[b]
      BY <2>3 DEF ModAddrRoomSwitch
    <3>6. block' \in [Blocks -> LinearBlock \cup {NULL}]
      <4>1. CASE block' = block
        BY <4>1 DEF SpaceInv, BlocksInv
      <4>2. CASE block' # block
        <5>1. block' = [b \in Blocks |-> IF b \in Met(room) THEN [block[b] EXCEPT !.used = FALSE]
                                         ELSE block[b]]
          BY <2>3, <4>2 DEF ModAddrRoomSwitch
        <5>2. \A b \in Blocks : b \in Met(room) => [block[b] EXCEPT !.used = FALSE] \in LinearBlock
          BY <3>3, <3>4 DEF LinearBlock
        <5>3. \A b \in Blocks : block[b] \in LinearBlock \cup {NULL}
          BY DEF SpaceInv, BlocksInv
        <5> QED BY <5>1, <5>2, <5>3
      <4> QED BY <4>1, <4>2
    <3>7. \A b \in Blocks : on[b] # NULL =>
            block'[b] # NULL /\ block'[b].start = block[b].start /\ block'[b].order = block[b].order
      <4> SUFFICES ASSUME NEW b \in Blocks, on[b] # NULL
                   PROVE  /\ block'[b] # NULL /\ block'[b].start = block[b].start
                          /\ block'[b].order = block[b].order
        OBVIOUS
      <4>1. block[b] \in LinearBlock /\ block[b] # NULL
        BY <3>4 DEF SpaceInv, BlocksInv
      <4>2. \/ block'[b] = block[b]
            \/ block'[b] = [block[b] EXCEPT !.used = FALSE]
        BY <3>5
      <4>3. ASSUME NEW r \in LinearBlock, NEW q, q = [r EXCEPT !.used = FALSE]
            PROVE  q \in LinearBlock /\ q.start = r.start /\ q.order = r.order
        BY <4>3 DEF LinearBlock
      <4>4. block'[b] # NULL
        BY <4>1, <4>2, <4>3, SpaceAssumption
      <4> QED BY <4>1, <4>2, <4>3, <4>4
    <3> QED BY <3>1, <3>6, <3>7, ElsewhereKeeps
  <2>4. ASSUME NEW b \in Blocks, NEW template \in Templates, ModAddrRoomAlloc(b, template)
        PROVE  SpaceInv'
    <3>1. /\ UNCHANGED <<prev, next, ready, on, newest>> /\ block[b] = NULL
          /\ block' = [block EXCEPT ![b] = template]
      BY <2>4 DEF ModAddrRoomAlloc, Keep
    <3>2. template \in LinearBlock
      BY SpaceAssumption DEF LinearBlock
    <3>3. on[b] = NULL
      BY <3>1 DEF SpaceInv, BlocksInv
    <3>4. block' \in [Blocks -> LinearBlock \cup {NULL}]
      BY <3>1, <3>2 DEF SpaceInv, BlocksInv
    <3>5. \A c \in Blocks : on[c] # NULL => block'[c] = block[c] /\ block[c] # NULL
      BY <3>1, <3>3 DEF SpaceInv, BlocksInv
    <3> QED BY <3>1, <3>4, <3>5, ElsewhereKeeps
  <2>5. ASSUME NEW b \in Blocks, ModAddrRoomDel(b) PROVE SpaceInv'
    BY <2>5, DelKeeps
  <2>6. CASE UNCHANGED spaceVars
    <3>1. UNCHANGED <<prev, next, ready, on, newest, block>>
      BY <2>6 DEF spaceVars
    <3> QED BY <3>1, ElsewhereKeeps DEF SpaceInv, BlocksInv
  <2> QED BY <2>1, <2>2, <2>3, <2>4, <2>5, <2>6 DEF SpaceNext
<1> QED BY <1>1, InitIsSpaceInv, PTL DEF SpaceSpec

\* mapped is a function of rooms and entries.
TablesInv == \E S : mapped \in [Rooms -> [0..(Entries - 1) -> S]]

\* mod_addr_room_switch writes entries of the page table, and adds none.
THEOREM TablesInvariance == SpaceSpec => []TablesInv
<1>1. SpaceInit => TablesInv
  <2> SUFFICES ASSUME SpaceInit PROVE TablesInv
    OBVIOUS
  <2>1. mapped \in [Rooms -> [0..(Entries - 1) -> {Junk}]]
    BY DEF SpaceInit
  <2> QED BY <2>1 DEF TablesInv
<1>2. TablesInv /\ [SpaceNext]_spaceVars => TablesInv'
  <2> SUFFICES ASSUME NEW S, mapped \in [Rooms -> [0..(Entries - 1) -> S]], [SpaceNext]_spaceVars
               PROVE  TablesInv'
    BY DEF TablesInv
  <2>1. CASE mapped' = mapped
    BY <2>1 DEF TablesInv
  <2>2. CASE \E room \in Rooms :
               mapped' = [mapped EXCEPT ![room] = [e \in DOMAIN @ |-> EntryAfter(room, e)]]
    <3>1. PICK room \in Rooms :
            mapped' = [mapped EXCEPT ![room] = [e \in DOMAIN @ |-> EntryAfter(room, e)]]
      BY <2>2
    <3> DEFINE T == S \cup {EntryAfter(room, e) : e \in 0..(Entries - 1)}
    <3>2. [e \in DOMAIN mapped[room] |-> EntryAfter(room, e)] \in [0..(Entries - 1) -> T]
      OBVIOUS
    <3>3. mapped \in [Rooms -> [0..(Entries - 1) -> T]]
      OBVIOUS
    <3> HIDE DEF T
    <3>4. mapped' \in [Rooms -> [0..(Entries - 1) -> T]]
      BY <3>1, <3>2, <3>3
    <3> QED BY <3>4 DEF TablesInv
  <2>3. \/ mapped' = mapped
        \/ \E room \in Rooms :
             mapped' = [mapped EXCEPT ![room] = [e \in DOMAIN @ |-> EntryAfter(room, e)]]
    BY DEF SpaceNext, LinearSpaceCreate, ModAddrRoomAdd, ModAddrRoomSwitch, ModAddrRoomAlloc,
           ModAddrRoomDel, Keep, spaceVars
  <2> QED BY <2>1, <2>2, <2>3
<1> QED BY <1>1, <1>2, PTL DEF SpaceSpec

\* A walk through the room that was created last meets its blocks and kernel_space, each
\* once, and comes back, whatever is unlinked from the older rooms in the meantime.
THEOREM NewestFound == SpaceSpec => []NewestListed
<1>1. SpaceInv => NewestListed
  <2> SUFFICES ASSUME SpaceInv, newest # NULL
               PROVE  /\ TypeOK /\ ComesBack(newest)
                      /\ Met(newest) = In(newest) \cup {kernel_space}
                      /\ WalkLength(newest) = Cardinality(Met(newest)) + 1
    BY DEF NewestListed
  <2>1. PICK L : AreChains(L)
    BY DEF SpaceInv
  <2>2. newest \in ready /\ newest \in Heads
    BY DEF SpaceInv, NewestInv, TypeOK
  <2>3. /\ ComesBack(newest) /\ Met(newest) = {kernel_space} \cup In(newest)
        /\ WalkLength(newest) = Len(L[newest]) + 1 /\ Met(newest) = Range(L[newest])
    BY <2>1, <2>2, WalkOfRoom DEF SpaceInv
  <2>4. L[newest] \in Seq(Nodes) /\ IsInjective(L[newest])
    BY <2>1, <2>2, ChainCells DEF AreChains
  <2>5. Cardinality(Met(newest)) = Len(L[newest])
    BY <2>3, <2>4, RangeCount
  <2> QED BY <2>3, <2>5 DEF SpaceInv
<1> QED BY <1>1, SpaceInvariance, PTL

\* Blocks of one or two pages that are in the same room share none.
THEOREM PagesStayApart == SpaceSpec => []PagesApart
<1>1. SpaceInv => PagesApart
  BY DEF SpaceInv
<1> QED BY <1>1, SpaceInvariance, PTL

-----------------------------------------------------------------------------

\* The page b's page j is mapped at: one entry for each
LEMMA EntryOfPage ==
  ASSUME NEW b \in Blocks, block[b] \in LinearBlock, block[b].order < 2, ~block[b].used,
         block[b].start + Pages(b) <= Entries, NEW j \in 0..(Pages(b) - 1)
  PROVE  /\ block[b].start + j \in 0..(Entries - 1) /\ block[b].start + j \in PageSet(b)
         /\ \A n \in 0..(Entries - 1) : Writes(b, block[b].start + j, n) <=> n = j
         /\ j \in 0..(Entries - 1)
<1>1. /\ block[b].start \in Nat /\ Pages(b) \in Nat
      /\ PageSet(b) = block[b].start..(block[b].start + Pages(b) - 1)
  BY ShortBlock DEF PageSet
<1>2. Entries \in Nat /\ Entries > 0 /\ b # kernel_space
  BY SpaceAssumption DEF Blocks
<1>3. /\ block[b].start + j \in 0..(Entries - 1) /\ block[b].start + j \in PageSet(b)
      /\ j \in 0..(Entries - 1)
  BY <1>1, <1>2
<1>4. ASSUME NEW x \in 0..(Entries - 1) PROVE x % Entries = x
  BY <1>2
<1>5. ASSUME NEW n \in 0..(Entries - 1), n < Pages(b)
      PROVE  (block[b].start + n) % Entries = block[b].start + n
  <2>1. block[b].start + n \in 0..(Entries - 1)
    BY <1>1, <1>2, <1>5
  <2> QED BY <1>4, <2>1
<1>6. ASSUME NEW n \in 0..(Entries - 1)
      PROVE  Writes(b, block[b].start + j, n) <=> n = j
  <2>1. Writes(b, block[b].start + j, n)
          <=> n < Pages(b) /\ (block[b].start + n) % Entries = block[b].start + j
    BY <1>2 DEF Writes
  <2>2. n < Pages(b) => (Writes(b, block[b].start + j, n) <=> block[b].start + n = block[b].start + j)
    BY <1>5, <2>1
  <2>3. j < Pages(b)
    BY <1>1
  <2> QED BY <1>1, <2>1, <2>2, <2>3
<1> QED BY <1>3, <1>6

\* A block that is not the one an entry belongs to is not mapped there.
LEMMA NoOtherWrites ==
  ASSUME NEW c \in Blocks, block[c] \in LinearBlock, block[c].order < 2,
         block[c].start + Pages(c) <= Entries,
         NEW entry \in 0..(Entries - 1), NEW n \in 0..(Entries - 1), Writes(c, entry, n)
  PROVE  entry \in PageSet(c)
<1>1. /\ block[c].start \in Nat /\ Pages(c) \in Nat
      /\ PageSet(c) = block[c].start..(block[c].start + Pages(c) - 1)
  BY ShortBlock DEF PageSet
<1>2. Entries \in Nat /\ Entries > 0 /\ c # kernel_space
  BY SpaceAssumption DEF Blocks
<1>3. n < Pages(c) /\ (block[c].start + n) % Entries = entry
  BY <1>2 DEF Writes
<1>4. ASSUME NEW x \in 0..(Entries - 1) PROVE x % Entries = x
  BY <1>2
<1>5. block[c].start + n \in 0..(Entries - 1)
  <2>1. n < Pages(c)
    BY <1>3
  <2> QED BY <1>1, <1>2, <2>1
<1>6. entry = block[c].start + n
  BY <1>3, <1>4, <1>5
<1> QED BY <1>1, <1>3, <1>6

LEMMA SwitchLeads ==
  ASSUME SpaceInv, TablesInv, NEW room \in Rooms, ModAddrRoomSwitch(room), ~stray',
         NEW b \in In(room), ~block[b].used, block[b].start >= KernelPages,
         \A c \in In(room) : block[c].order < 2 /\ block[c].start + Pages(c) <= Entries,
         NEW j \in 0..(Pages(b) - 1)
  PROVE  mapped'[room][block[b].start + j] = <<b, j>>
<1> DEFINE entry == block[b].start + j
<1>1. /\ room \in ready
      /\ mapped' = [mapped EXCEPT ![room] = [e \in DOMAIN @ |-> EntryAfter(room, e)]]
  BY DEF ModAddrRoomSwitch
<1>2. PICK L : AreChains(L)
  BY DEF SpaceInv
<1> DEFINE s == L[room]
<1>3. /\ WalkLength(room) - 1 = Len(s) /\ Len(s) \in Nat
      /\ \A i \in 1..Len(s) : Steps(room, next, i) = s[i]
      /\ Range(s) = {kernel_space} \cup In(room)
  <2>1. /\ WalkLength(room) = Len(s) + 1 /\ Len(s) \in Nat
        /\ \A i \in 1..Len(s) : Steps(room, next, i) = s[i]
        /\ Met(room) = {kernel_space} \cup In(room) /\ Met(room) = Range(s)
    BY <1>1, <1>2, WalkOfRoom DEF SpaceInv
  <2> QED BY <2>1
<1>4. s \in Seq(Nodes) /\ IsInjective(s) /\ DOMAIN s = 1..Len(s)
  <2>1. s \in Seq(Nodes) /\ IsInjective(s)
    BY <1>1, <1>2, ChainCells DEF AreChains, Rooms
  <2> QED BY <2>1, LenProperties
<1> HIDE DEF s
<1>5. ASSUME NEW c \in In(room)
      PROVE  c \in Blocks /\ on[c] = room /\ room # NULL /\ block[c] \in LinearBlock
  <2>1. room # NULL
    BY CellsAssumption DEF Rooms
  <2> QED BY <2>1 DEF In, SpaceInv, BlocksInv
<1>6. /\ entry \in 0..(Entries - 1) /\ entry \in PageSet(b)
      /\ \A n \in 0..(Entries - 1) : Writes(b, entry, n) <=> n = j
      /\ j \in 0..(Entries - 1)
  BY <1>5, EntryOfPage
<1>7. entry \in Nat /\ entry >= KernelPages /\ KernelPages \in Nat /\ Entries \in Nat /\ Entries > 0
  <2>1. block[b].start \in Nat
    BY <1>5, ShortBlock
  <2>2. j \in Nat
    BY <1>6
  <2> QED BY <2>1, <2>2, SpaceAssumption
<1> HIDE DEF entry
<1>8. PICK k \in 1..Len(s) : s[k] = b
  BY <1>3, <1>4 DEF Range
<1>9. ASSUME NEW i \in 1..Len(s), NEW n \in 0..(Entries - 1), Writes(s[i], entry, n)
      PROVE  i = k
  <2>1. s[i] \in {kernel_space} \cup In(room)
    BY <1>3, <1>4 DEF Range
  <2>2. s[i] # kernel_space
    <3> SUFFICES ASSUME s[i] = kernel_space PROVE FALSE
      OBVIOUS
    <3>1. n < KernelPages /\ n % Entries = entry
      BY <1>9 DEF Writes
    <3>2. ASSUME NEW x \in 0..(Entries - 1) PROVE x % Entries = x
      BY <1>7
    <3>3. n = entry
      BY <3>1, <3>2
    <3> QED BY <1>7, <3>1, <3>3
  <2>3. PICK c \in In(room) : c = s[i]
    BY <2>1, <2>2
  <2>4. entry \in PageSet(c)
    BY <1>5, <1>6, <1>9, <2>3, NoOtherWrites
  <2>5. c = b
    <3>1. /\ b \in Blocks /\ c \in Blocks /\ on[b] # NULL /\ on[b] = on[c]
          /\ block[b].order < 2 /\ block[c].order < 2
      BY <1>5
    <3> QED BY <1>6, <2>4, <3>1 DEF SpaceInv, PagesApart
  <2> QED BY <1>4, <1>8, <2>3, <2>5 DEF IsInjective
<1> DEFINE writers == {i \in 1..(WalkLength(room) - 1) :
                         \E n \in 0..(Entries - 1) : Writes(Steps(room, next, i), entry, n)}
<1>10. writers = {k}
  <2>1. \A i \in 1..Len(s) :
          (\E n \in 0..(Entries - 1) : Writes(Steps(room, next, i), entry, n)) <=> i = k
    <3> SUFFICES ASSUME NEW i \in 1..Len(s)
                 PROVE  (\E n \in 0..(Entries - 1) : Writes(s[i], entry, n)) <=> i = k
      BY <1>3
    <3> QED BY <1>6, <1>8, <1>9
  <2> QED BY <1>3, <2>1
<1> HIDE DEF writers
<1>11. (CHOOSE i \in writers : \A m \in writers : m <= i) = k
  BY <1>10
<1>12. EntryAfter(room, entry) = FrameAt(b, entry)
  <2>1. EntryAfter(room, entry)
          = FrameAt(Steps(room, next, CHOOSE i \in writers : \A m \in writers : m <= i), entry)
    BY <1>10 DEF EntryAfter, writers
  <2> QED BY <1>3, <1>8, <1>11, <2>1
<1>13. FrameAt(b, entry) = <<b, j>>
  <2>1. (CHOOSE n \in 0..(Entries - 1) : Writes(b, entry, n)) = j
    BY <1>6
  <2>2. b # kernel_space
    BY <1>5 DEF Blocks
  <2> QED BY <2>1, <2>2 DEF FrameAt
<1>14. mapped'[room][entry] = EntryAfter(room, entry)
  <2>1. PICK S : mapped \in [Rooms -> [0..(Entries - 1) -> S]]
    BY DEF TablesInv
  <2> QED BY <1>1, <1>6, <2>1
<1> QED BY <1>12, <1>13, <1>14 DEF entry

\* After a switch the pages of a room's blocks lead to the blocks' own frames: no later
\* block of the walk, nor kernel_space, is mapped over them.
THEOREM SwitchesMap == SpaceSpec => SwitchMaps
<1> DEFINE Maps ==
      \A room \in Rooms :
        (ModAddrRoomSwitch(room) /\ ~stray') =>
          \A b \in In(room) :
            ( /\ ~block[b].used /\ block[b].start >= KernelPages
              /\ \A c \in In(room) : block[c].order < 2 /\ block[c].start + Pages(c) <= Entries ) =>
              \A j \in 0..(Pages(b) - 1) : mapped'[room][block[b].start + j] = <<b, j>>
<1>1. SpaceInv /\ TablesInv => Maps
  BY SwitchLeads
<1>2. SpaceInv /\ TablesInv => [Maps]_spaceVars
  BY <1>1
<1> QED BY <1>2, SpaceInvariance, TablesInvariance, PTL DEF SwitchMaps
===============================================================================
