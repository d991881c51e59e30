------------------------------ MODULE BuddyProof ------------------------------
(***************************************************************************)
(* Proof that page_alloc and page_free (kernel/page/phypage.c) never give  *)
(* a page frame to two blocks and never lose one, for every size of the    *)
(* largest blocks, every block that buddy_init takes and whatever the      *)
(* descriptors held at boot; for a zone of less than one largest block,    *)
(* and as long as free is told the right order.                            *)
(*                                                                         *)
(* The blocks tile the zone.  page_alloc replaces a tile by smaller ones   *)
(* of the same pages, page_free some tiles by the one they make up.  That  *)
(* page_is_buddy recognises a free tile rests on the tiling, too: a buddy  *)
(* is always the first page of some tile (BuddyIsTile), so its descriptor  *)
(* was written when the tile was made.                                     *)
(***************************************************************************)
EXTENDS Buddy, ListLemmas, FiniteSetTheorems, TLAPS

(***************************************************************************)
(* Arithmetic of sizes and places.                                         *)
(***************************************************************************)

LEMMA MulMono ==
  ASSUME NEW a \in Int, NEW b \in Int, NEW w \in Nat, a <= b
  PROVE  a * w <= b * w
  OBVIOUS

LEMMA MulLess ==
  ASSUME NEW a \in Int, NEW b \in Int, NEW w \in Nat, a * w < b * w
  PROVE  a < b
  OBVIOUS

LEMMA DivMod ==
  ASSUME NEW x \in Int, NEW w \in Nat \ {0}
  PROVE  /\ x = (x \div w) * w + (x % w)
         /\ x % w \in 0..(w - 1) /\ x \div w \in Int
  OBVIOUS

LEMMA DivUnique ==
  ASSUME NEW i \in Int, NEW w \in Nat \ {0}, NEW r \in 0..(w - 1)
  PROVE  (i * w + r) \div w = i /\ (i * w + r) % w = r
  OBVIOUS

\* A non-empty set of natural numbers has a least element.
LEMMA Least ==
  ASSUME NEW S, S \subseteq Nat, S # {}
  PROVE  \E m \in S : \A n \in S : m <= n
<1>1. PICK m \in S : \A n \in S : <<n, m>> \notin OpToRel(<, Nat)
  BY NatLessThanWellFounded, WFMin
<1>2. ASSUME NEW n \in S PROVE m <= n
  <2>1. m \in Nat /\ n \in Nat
    OBVIOUS
  <2>2. ~(n < m)
    BY <1>1, <2>1 DEF OpToRel
  <2> QED BY <2>1, <2>2
<1> QED BY <1>2

\* What holds at a and is passed on from each order to the next holds up to b.
LEMMA OrderByOrder ==
  ASSUME NEW a \in Nat, NEW b \in Nat, NEW S,
         a \in S, \A k \in a..(b - 1) : k \in S => k + 1 \in S
  PROVE  \A k \in a..b : k \in S
<1> SUFFICES ASSUME NEW z \in a..b, z \notin S PROVE FALSE
  OBVIOUS
<1> DEFINE T == {k \in a..b : k \notin S}
<1>0. T \subseteq Nat /\ T # {}
  OBVIOUS
<1>1. PICK m \in T : \A n \in T : m <= n
  BY <1>0, Least
<1>2. m - 1 \in a..(b - 1) /\ m - 1 \notin T
  BY <1>1
<1> QED BY <1>1, <1>2

LEMMA OrdersAre ==
  /\ MaxOrder \in Nat /\ MaxOrder \in Orders /\ 0 \in Orders
  /\ \A k \in Orders : k \in Nat /\ k <= MaxOrder
  /\ \A k \in Orders : \A j \in 0..k : j \in Orders
  /\ \A k \in Orders : k < MaxOrder => k + 1 \in Orders
  BY MaxOrderAssumption DEF Orders

LEMMA PowDouble ==
  ASSUME NEW k \in Orders, k < MaxOrder
  PROVE  k + 1 \in Orders /\ Pow2[k + 1] = 2 * Pow2[k]
<1>1. k + 1 \in 1..MaxOrder /\ (k + 1) - 1 = k
  BY MaxOrderAssumption DEF Orders
<1> QED BY <1>1, Pow2Assumption DEF Orders

LEMMA PowPositive ==
  /\ \A k \in Orders : Pow2[k] \in Nat \ {0}
  /\ Pow2[0] = 1
<1> DEFINE S == {k \in Orders : Pow2[k] > 0}
<1>1. \A k \in Orders : Pow2[k] \in Nat
  BY Pow2Assumption
<1>2. 0 \in S
  BY Pow2Assumption, OrdersAre
<1>3. ASSUME NEW k \in 0..(MaxOrder - 1), k \in S PROVE k + 1 \in S
  <2>1. k \in Orders /\ k < MaxOrder
    BY OrdersAre DEF Orders
  <2> QED BY <1>1, <1>3, <2>1, PowDouble
<1> HIDE DEF S
<1>4. \A k \in 0..MaxOrder : k \in S
  BY <1>2, <1>3, OrderByOrder, MaxOrderAssumption
<1> QED BY <1>1, <1>4, Pow2Assumption DEF S, Orders

\* A larger block is a number of smaller ones.
LEMMA PowMultiple ==
  ASSUME NEW j \in Orders, NEW k \in Orders, j <= k
  PROVE  \E c \in Nat \ {0} : Pow2[k] = c * Pow2[j]
<1> DEFINE S == {i \in Orders : \E c \in Nat \ {0} : Pow2[i] = c * Pow2[j]}
<1>0. j \in Nat /\ k \in Nat
  BY OrdersAre
<1>1. j \in S
  <2>1. Pow2[j] = 1 * Pow2[j] /\ 1 \in Nat \ {0}
    BY PowPositive
  <2> QED BY <2>1
<1>2. ASSUME NEW i \in j..(k - 1), i \in S PROVE i + 1 \in S
  <2>1. i \in Orders /\ i < MaxOrder
    BY <1>0, OrdersAre DEF Orders
  <2>2. PICK c \in Nat \ {0} : Pow2[i] = c * Pow2[j]
    BY <1>2
  <2>3. i + 1 \in Orders /\ Pow2[i + 1] = 2 * (c * Pow2[j])
    BY <2>1, <2>2, PowDouble
  <2>4. 2 * (c * Pow2[j]) = (2 * c) * Pow2[j] /\ 2 * c \in Nat \ {0}
    BY PowPositive
  <2> QED BY <2>3, <2>4
<1> HIDE DEF S
<1>3. \A i \in j..k : i \in S
  BY <1>0, <1>1, <1>2, OrderByOrder
<1>4. k \in S
  BY <1>0, <1>3
<1> QED BY <1>4 DEF S

LEMMA PowMono ==
  ASSUME NEW j \in Orders, NEW k \in Orders
  PROVE  /\ j <= k => Pow2[j] <= Pow2[k]
         /\ j < k => 2 * Pow2[j] <= Pow2[k]
<1>1. ASSUME NEW i \in Orders, NEW l \in Orders, i <= l PROVE Pow2[i] <= Pow2[l]
  <2>1. PICK c \in Nat \ {0} : Pow2[l] = c * Pow2[i]
    BY <1>1, PowMultiple
  <2>2. 1 * Pow2[i] <= c * Pow2[i]
    BY MulMono, PowPositive
  <2> QED BY <2>1, <2>2, PowPositive
<1>2. j < k => 2 * Pow2[j] <= Pow2[k]
  <2> SUFFICES ASSUME j < k PROVE 2 * Pow2[j] <= Pow2[k]
    OBVIOUS
  <2>1. j < MaxOrder /\ j + 1 <= k
    BY OrdersAre
  <2> QED BY <1>1, <2>1, PowDouble
<1> QED BY <1>1, <1>2

-----------------------------------------------------------------------------
(***************************************************************************)
(* Buddies.                                                                *)
(***************************************************************************)

Blk(p, k) == p..(p + Pow2[k] - 1)
Aligned(p, k) == p % Pow2[k] = 0

\* What is true of w pages is true of any w: a multiple of w lies at the beginning or in
\* the middle of a multiple of 2 * w.
LEMMA HalvesArith ==
  ASSUME NEW p \in Nat, NEW w \in Nat \ {0}, p % w = 0
  PROVE  \E g \in Nat :
           /\ g = p - (p % (2 * w))
           /\ g % (2 * w) = 0 /\ g % w = 0 /\ (g + w) % w = 0
           /\ \/ p = g /\ (p \div w) % 2 = 0
              \/ p = g + w /\ (p \div w) % 2 = 1
<1> DEFINE g == p - (p % (2 * w))
<1>1. PICK i \in Int : i = p \div w /\ p = i * w
  <2>1. p \div w \in Int /\ p = (p \div w) * w + (p % w)
    BY DivMod
  <2> QED BY <2>1
<1>2. PICK l \in Int, r \in 0..(2 * w - 1) : p = l * (2 * w) + r /\ r = p % (2 * w)
  <2>1. PICK v \in Nat \ {0} : v = 2 * w
    OBVIOUS
  <2>2. v \in Nat \ {0}
    BY <2>1
  <2>3. p = (p \div v) * v + (p % v) /\ p % v \in 0..(v - 1) /\ p \div v \in Int
    BY <2>2, DivMod
  <2> QED BY <2>1, <2>3
<1>3. g = l * (2 * w) /\ g \in Nat
  <2>1. g = l * (2 * w) /\ g >= 0 - r /\ g > (0 - 1) * (2 * w)
    BY <1>2
  <2>2. (0 - 1) * (2 * w) < l * (2 * w) /\ 2 * w \in Nat
    BY <2>1
  <2>3. 0 - 1 < l
    BY <2>2, MulLess
  <2>4. 0 * (2 * w) <= l * (2 * w)
    BY <2>2, <2>3, MulMono
  <2> QED BY <2>1, <2>4
<1> HIDE DEF g
<1>4. g % (2 * w) = 0
  <2>1. 2 * w \in Nat \ {0} /\ 0 \in 0..(2 * w - 1) /\ g = l * (2 * w) + 0
    BY <1>3
  <2> QED BY <2>1, DivUnique
<1>5. \A n \in Int : (n * w) % w = 0
  <2> TAKE n \in Int
  <2>1. 0 \in 0..(w - 1) /\ n * w = n * w + 0
    OBVIOUS
  <2> QED BY <2>1, DivUnique
<1>6. g % w = 0 /\ (g + w) % w = 0
  <2>1. g = (2 * l) * w /\ g + w = (2 * l + 1) * w
    BY <1>3
  <2>2. 2 * l \in Int /\ 2 * l + 1 \in Int
    OBVIOUS
  <2>3. ((2 * l) * w) % w = 0 /\ ((2 * l + 1) * w) % w = 0
    BY <1>5, <2>2
  <2> QED BY <2>1, <2>3
<1>7. i = 2 * l \/ i = 2 * l + 1
  <2>1. (2 * l) * w < (i + 1) * w /\ i * w < (2 * l + 2) * w
    BY <1>1, <1>2
  <2>2. i < 2 * l + 2
    BY <2>1, MulLess
  <2>3. 2 * l < i + 1
    BY <2>1, MulLess
  <2> QED BY <2>2, <2>3
<1>8. (2 * l) % 2 = 0 /\ (2 * l + 1) % 2 = 1
  OBVIOUS
<1>9. CASE i = 2 * l
  <2>1. p = g
    BY <1>1, <1>3, <1>9
  <2>2. (p \div w) % 2 = 0
    BY <1>1, <1>8, <1>9
  <2> QED BY <1>3, <1>4, <1>6, <2>1, <2>2
<1>10. CASE i = 2 * l + 1
  <2>1. p = g + w
    BY <1>1, <1>3, <1>10
  <2>2. (p \div w) % 2 = 1
    BY <1>1, <1>8, <1>10
  <2> QED BY <1>3, <1>4, <1>6, <2>1, <2>2
<1>11. g = p - (p % (2 * w))
  BY DEF g
<1> QED BY <1>3, <1>7, <1>9, <1>10, <1>11

\* The block that a block and its buddy make up begins at one of them.
LEMMA Halves ==
  ASSUME NEW p \in Nat, NEW k \in Orders, k < MaxOrder, Aligned(p, k),
         NEW g, g = p - (p % Pow2[k + 1])
  PROVE  /\ g \in Nat /\ Aligned(g, k + 1) /\ Aligned(BuddyOf(p, k), k)
         /\ \/ p = g /\ BuddyOf(p, k) = g + Pow2[k]
            \/ p = g + Pow2[k] /\ BuddyOf(p, k) = g
<1>1. PICK w \in Nat \ {0} : w = Pow2[k] /\ Pow2[k + 1] = 2 * w
  BY PowPositive, PowDouble
<1>2. g = p - (p % (2 * w)) /\ p % w = 0
  BY <1>1 DEF Aligned
<1>3. /\ g \in Nat /\ g % (2 * w) = 0 /\ g % w = 0 /\ (g + w) % w = 0
      /\ \/ p = g /\ (p \div w) % 2 = 0
         \/ p = g + w /\ (p \div w) % 2 = 1
  <2>1. PICK h \in Nat :
          /\ h = p - (p % (2 * w))
          /\ h % (2 * w) = 0 /\ h % w = 0 /\ (h + w) % w = 0
          /\ \/ p = h /\ (p \div w) % 2 = 0
             \/ p = h + w /\ (p \div w) % 2 = 1
    BY <1>1, <1>2, HalvesArith
  <2>2. g = h
    BY <1>2, <2>1
  <2> QED BY <2>1, <2>2
<1>4. BuddyOf(p, k) = IF (p \div w) % 2 = 0 THEN p + w ELSE p - w
  BY <1>1 DEF BuddyOf
<1>5. CASE p = g /\ (p \div w) % 2 = 0
  BY <1>1, <1>3, <1>4, <1>5 DEF Aligned
<1>6. CASE p = g + w /\ (p \div w) % 2 = 1
  <2>1. BuddyOf(p, k) = g
    BY <1>3, <1>4, <1>6
  <2> QED BY <1>1, <1>3, <1>6, <2>1 DEF Aligned
<1> QED BY <1>3, <1>5, <1>6

\* Of two sizes one divides the other: aligned runs are nested or apart.
LEMMA NestedArith ==
  ASSUME NEW a \in Nat, NEW v \in Nat \ {0}, a % v = 0,
         NEW q \in Nat, NEW c \in Nat \ {0}, q % (c * v) = 0, 
         NEW x \in a..(a + v - 1), x \in q..(q + c * v - 1)
  PROVE  q <= a /\ a + v <= q + c * v
<1> DEFINE w == c * v
<1>0. w \in Nat \ {0}
  OBVIOUS
<1>1. PICK i \in Int : a = i * v
  <2>1. a \div v \in Int /\ a = (a \div v) * v + (a % v)
    BY DivMod
  <2>2. a = (a \div v) * v
    BY <2>1
  <2> QED BY <2>1, <2>2
<1>2. PICK u \in Int : q = (u * c) * v
  <2> HIDE DEF w
  <2>1. q \div w \in Int /\ q = (q \div w) * w + (q % w)
    BY <1>0, DivMod
  <2>2. q = (q \div w) * w /\ w = c * v
    BY <1>0, <2>1 DEF w
  <2> DEFINE u == q \div w
  <2>3. u \in Int /\ q = u * (c * v)
    BY <2>1, <2>2
  <2> HIDE DEF u
  <2>4. q = (u * c) * v
    BY <2>3
  <2> QED BY <2>3, <2>4
<1>3. (u * c) * v < (i + 1) * v /\ i * v < (u * c + c) * v
  BY <1>1, <1>2
<1>4. u * c < i + 1
  BY <1>3, MulLess
<1>5. i < u * c + c
  BY <1>3, MulLess
<1>6. (u * c) * v <= i * v
  BY <1>4, MulMono
<1>7. (i + 1) * v <= (u * c + c) * v
  BY <1>5, MulMono
<1> QED BY <1>1, <1>2, <1>6, <1>7

LEMMA BlocksNested ==
  ASSUME NEW a \in Nat, NEW j \in Orders, Aligned(a, j),
         NEW q \in Nat, NEW k \in Orders, Aligned(q, k), j <= k,
         Blk(a, j) \cap Blk(q, k) # {}
  PROVE  Blk(a, j) \subseteq Blk(q, k)
<1>1. PICK v \in Nat \ {0}, c \in Nat \ {0} : v = Pow2[j] /\ Pow2[k] = c * v
  BY PowPositive, PowMultiple
<1>2. PICK x : x \in a..(a + v - 1) /\ x \in q..(q + c * v - 1)
  BY <1>1 DEF Blk
<1>3. a % v = 0 /\ q % (c * v) = 0
  BY <1>1 DEF Aligned
<1>4. q <= a /\ a + v <= q + c * v
  BY <1>2, <1>3, NestedArith
<1>5. c * v \in Nat
  OBVIOUS
<1> QED BY <1>1, <1>4, <1>5 DEF Blk

\* A tile with the buddy's first page that does not reach into the block itself is no
\* larger than the block and begins with the buddy.
LEMMA Nested ==
  ASSUME NEW p \in Nat, NEW k \in Orders, k < MaxOrder, Aligned(p, k),
         NEW a \in Nat, NEW j \in Orders, Aligned(a, j),
         BuddyOf(p, k) \in Blk(a, j), Blk(a, j) \cap Blk(p, k) = {}
  PROVE  j <= k /\ a = BuddyOf(p, k)
<1>1. PICK g \in Nat, q \in Nat :
        /\ q = BuddyOf(p, k) /\ Aligned(g, k + 1) /\ Aligned(q, k)
        /\ (p = g /\ q = g + Pow2[k]) \/ (p = g + Pow2[k] /\ q = g)
  <2>1. Pow2[k] \in Nat
    BY PowPositive
  <2> QED BY <2>1, Halves
<1>2. PICK w \in Nat \ {0} : w = Pow2[k] /\ Pow2[k + 1] = 2 * w /\ k + 1 \in Orders
  BY PowPositive, PowDouble
<1>3. PICK v \in Nat \ {0} : v = Pow2[j]
  BY PowPositive
<1>4. q \in Blk(a, j) /\ q \in Blk(q, k) /\ q \in Blk(g, k + 1)
  BY <1>1, <1>2 DEF Blk
<1>5. j <= k
  <2> SUFFICES ASSUME k + 1 <= j PROVE FALSE
    BY OrdersAre
  <2>1. Blk(g, k + 1) \subseteq Blk(a, j)
    BY <1>1, <1>2, <1>4, BlocksNested
  <2>2. p \in Blk(g, k + 1) /\ p \in Blk(p, k)
    BY <1>1, <1>2 DEF Blk
  <2> QED BY <2>1, <2>2
<1>6. Blk(a, j) \subseteq Blk(q, k)
  BY <1>1, <1>4, <1>5, BlocksNested
<1>7. a \in Blk(a, j)
  BY <1>3 DEF Blk
<1> QED BY <1>1, <1>2, <1>3, <1>4, <1>5, <1>6, <1>7 DEF Blk

\* Rounding down to the next size is rounding down twice.
LEMMA RoundDown ==
  ASSUME NEW p \in Nat, NEW w \in Nat \ {0}, NEW v \in Nat \ {0}, v = 2 * w
  PROVE  \E h \in Nat : /\ h = p - (p % w) /\ h % w = 0 /\ h <= p /\ p < h + w
                        /\ p - (p % v) = h - (h % v)
<1>1. PICK l \in Int, r \in 0..(v - 1) : p = l * v + r /\ r = p % v
  <2>1. \A x \in Nat \ {0} :
          p = (p \div x) * x + (p % x) /\ p % x \in 0..(x - 1) /\ p \div x \in Int
    BY DivMod
  <2>2. p = (p \div v) * v + (p % v) /\ p % v \in 0..(v - 1) /\ p \div v \in Int
    BY <2>1, Zenon
  <2> QED BY <2>2
<1>2. l * v = (2 * l) * w /\ (2 * l + 1) * w = l * v + w
  OBVIOUS
<1>3. PICK i \in Int, t \in 0..(w - 1) : p = i * w + t /\ t = p % w
  <2>1. p = (p \div w) * w + (p % w) /\ p % w \in 0..(w - 1) /\ p \div w \in Int
    BY DivMod
  <2> QED BY <2>1
<1>4. PICK h \in Int : h = i * w
  OBVIOUS
<1>5. h = p - (p % w) /\ h <= p /\ p < h + w
  BY <1>3, <1>4
<1>6. h % w = 0
  <2>1. (i * w + 0) % w = 0
    BY DivUnique
  <2> QED BY <1>4, <2>1
<1>7. h \in Nat
  <2>1. (0 - 1) * w < i * w
    BY <1>3
  <2>2. 0 - 1 < i
    BY <2>1, MulLess
  <2>3. 0 * w <= i * w
    BY <2>2, MulMono
  <2> QED BY <1>4, <2>3
<1>8. i = 2 * l \/ i = 2 * l + 1
  <2>1. (2 * l) * w < (i + 1) * w /\ i * w < (2 * l + 2) * w
    BY <1>1, <1>2, <1>3
  <2>2. i < 2 * l + 2
    BY <2>1, MulLess
  <2>3. 2 * l < i + 1
    BY <2>1, MulLess
  <2> QED BY <2>2, <2>3
<1>9. PICK d \in 0..(v - 1) : h = l * v + d /\ d \in {0, w}
  BY <1>2, <1>4, <1>8
<1>10. h % v = d
  BY <1>9, DivUnique
<1>11. p - (p % v) = h - (h % v)
  BY <1>1, <1>9, <1>10
<1> QED BY <1>5, <1>6, <1>7, <1>11

-----------------------------------------------------------------------------
(***************************************************************************)
(* What page_free computes.                                                *)
(***************************************************************************)

\* The block merged so far holds the freed one, lies where a block of its size may, and
\* grows to the block it makes up with its buddy.
LEMMA MergedPageStep ==
  ASSUME NEW page \in Nat, NEW order \in Orders, Aligned(page, order),
         NEW k \in Orders, order <= k
  PROVE  /\ MergedPage(page, order, order) = page
         /\ MergedPage(page, order, k) \in Nat
         /\ Aligned(MergedPage(page, order, k), k)
         /\ page \in Blk(MergedPage(page, order, k), k)
         /\ k < MaxOrder =>
              MergedPage(page, order, k + 1) =
                MergedPage(page, order, k) - (MergedPage(page, order, k) % Pow2[k + 1])
<1>1. page % Pow2[order] = 0
  BY DEF Aligned
<1>2. PICK w \in Nat \ {0} : w = Pow2[k]
  BY PowPositive
<1>3. PICK h \in Nat : /\ h = page - (page % w) /\ h % w = 0 /\ h <= page /\ page < h + w
                       /\ page - (page % (2 * w)) = h - (h % (2 * w))
  <2>1. PICK v \in Nat \ {0} : v = 2 * w
    BY <1>2
  <2>2. w \in Nat \ {0} /\ v \in Nat \ {0} /\ v = 2 * w
    BY <1>2, <2>1
  <2>3. \E h \in Nat : /\ h = page - (page % w) /\ h % w = 0 /\ h <= page /\ page < h + w
                       /\ page - (page % v) = h - (h % v)
    BY <2>2, RoundDown
  <2> QED BY <2>2, <2>3
<1>4. MergedPage(page, order, k) = h
  BY <1>1, <1>2, <1>3 DEF MergedPage
<1>5. MergedPage(page, order, order) = page
  BY <1>1 DEF MergedPage
<1>6. ASSUME k < MaxOrder PROVE MergedPage(page, order, k + 1) = h - (h % Pow2[k + 1])
  <2>1. Pow2[k + 1] = 2 * w
    BY <1>2, <1>6, PowDouble
  <2>2. page % (2 * w) \in Int
    BY <1>2
  <2> QED BY <1>1, <1>3, <2>1, <2>2 DEF MergedPage
<1> QED BY <1>2, <1>3, <1>4, <1>5, <1>6 DEF Aligned, Blk

\* The order page_free ends up with.
LEMMA MergedOrderIs ==
  ASSUME NEW page, NEW order \in Orders
  PROVE  LET m == MergedOrder(page, order)
         IN  /\ m \in order..MaxOrder /\ m \in Orders
             /\ \A k \in order..(m - 1) : PageIsBuddy(BuddyOf(MergedPage(page, order, k), k), k)
<1> DEFINE B(k) == PageIsBuddy(BuddyOf(MergedPage(page, order, k), k), k)
           S == {k \in order..MaxOrder : k = MaxOrder \/ ~B(k)}
           P(m) == (\A k \in order..(m - 1) : B(k)) /\ (m < MaxOrder => ~B(m))
<1>0. order \in Nat /\ MaxOrder \in Nat /\ order <= MaxOrder
  BY OrdersAre
<1>1. S \subseteq Nat /\ S # {}
  BY <1>0
<1>2. PICK m \in S : \A n \in S : m <= n
  BY <1>1, Least
<1>3. m \in order..MaxOrder /\ P(m)
  BY <1>0, <1>2
<1> DEFINE c == CHOOSE n \in order..MaxOrder : P(n)
<1>4. c \in order..MaxOrder /\ P(c)
  <2> HIDE DEF P
  <2> QED BY <1>3
<1>5. c = MergedOrder(page, order)
  BY DEF MergedOrder
<1> HIDE DEF c
<1> QED BY <1>0, <1>4, <1>5 DEF Orders

-----------------------------------------------------------------------------
(***************************************************************************)
(* Tiles.                                                                  *)
(***************************************************************************)

Tile == {b \in [page : Nat, order : Orders] :
           Aligned(b.page, b.order) /\ PagesOf(b) \subseteq Pages}
Apart(T) == \A a, b \in T : a # b => PagesOf(a) \cap PagesOf(b) = {}
PagesIn(T) == UNION {PagesOf(b) : b \in T}

LEMMA TileHasItsPage ==
  ASSUME NEW b \in Tile
  PROVE  /\ b.page \in PagesOf(b) /\ b.page \in Pages /\ b.page \in Nat /\ b.order \in Orders
         /\ PagesOf(b) = Blk(b.page, b.order) /\ Aligned(b.page, b.order)
         /\ b = [page |-> b.page, order |-> b.order]
<1>1. b.page \in Nat /\ b.order \in Orders /\ PagesOf(b) \subseteq Pages
      /\ Aligned(b.page, b.order)
  BY DEF Tile
<1>2. Pow2[b.order] \in Nat \ {0}
  BY <1>1, PowPositive
<1>3. b.page \in PagesOf(b)
  BY <1>1, <1>2 DEF PagesOf
<1> QED BY <1>1, <1>3 DEF Tile, PagesOf, Blk

\* Replacing some tiles by others of the same pages leaves a tiling.
LEMMA Replace ==
  ASSUME NEW T, T \subseteq Tile, Apart(T), NEW R, R \subseteq T,
         NEW N, N \subseteq Tile, Apart(N), PagesIn(N) = PagesIn(R)
  PROVE  /\ (T \ R) \cup N \subseteq Tile
         /\ Apart((T \ R) \cup N)
         /\ PagesIn((T \ R) \cup N) = PagesIn(T)
         /\ N \cap (T \ R) = {}
<1>1. ASSUME NEW n \in N, NEW t \in T \ R PROVE PagesOf(n) \cap PagesOf(t) = {}
  <2> SUFFICES ASSUME NEW x \in PagesOf(n), x \in PagesOf(t) PROVE FALSE
    OBVIOUS
  <2>1. x \in PagesIn(R)
    BY DEF PagesIn
  <2>2. PICK s \in R : x \in PagesOf(s)
    BY <2>1 DEF PagesIn
  <2> QED BY <2>2 DEF Apart
<1>2. Apart((T \ R) \cup N)
  BY <1>1 DEF Apart
<1>3. PagesIn((T \ R) \cup N) = PagesIn(T \ R) \cup PagesIn(N)
  BY DEF PagesIn
<1>4. PagesIn(T) = PagesIn(T \ R) \cup PagesIn(R)
  BY DEF PagesIn
<1>5. N \cap (T \ R) = {}
  <2> SUFFICES ASSUME NEW n \in N, n \in T \ R PROVE FALSE
    OBVIOUS
  <2>1. n.page \in PagesOf(n)
    BY TileHasItsPage
  <2> QED BY <1>1, <2>1
<1> QED BY <1>2, <1>3, <1>4, <1>5

-----------------------------------------------------------------------------
(***************************************************************************)
(* One largest block.                                                      *)
(***************************************************************************)

\* Fewer page frames than one largest block has, that is less than 4 MB of memory: only then
\* buddy_init links one block, and not several that overlap (run BuddyTwoTop).
SmallZone == PageCount < BIGGEST_SIZE

LEMMA OneBlock ==
  ASSUME SmallZone
  PROVE  /\ BIGGEST_SIZE \in Nat \ {0} /\ Pow2[MaxOrder] = BIGGEST_SIZE
         /\ BiggestCount = 1 /\ TopPages = {0} /\ Pages = 0..(BIGGEST_SIZE - 1)
         /\ ZonePages = Pages /\ Pages = Blk(0, MaxOrder) /\ Aligned(0, MaxOrder)
<1>1. BIGGEST_SIZE \in Nat \ {0} /\ Pow2[MaxOrder] = BIGGEST_SIZE
  BY PowPositive, OrdersAre DEF BIGGEST_SIZE
<1>2. PageCount \in Nat /\ PageCount < BIGGEST_SIZE
  BY CountAssumption DEF SmallZone
<1>3. PageCount \div BIGGEST_SIZE = 0
  <2>1. (0 * BIGGEST_SIZE + PageCount) \div BIGGEST_SIZE = 0
    BY <1>1, <1>2, DivUnique
  <2>2. 0 * BIGGEST_SIZE + PageCount = PageCount
    BY <1>1, <1>2
  <2> QED BY <2>1, <2>2
<1>4. BiggestCount = 1
  BY <1>3 DEF BiggestCount
<1>5. TopPages = {0} /\ Pages = 0..(BIGGEST_SIZE - 1)
  BY <1>1, <1>4 DEF TopPages, Pages
<1>6. ZonePages = 0..(0 + BIGGEST_SIZE - 1)
  BY <1>5 DEF ZonePages
<1>7. 0 % BIGGEST_SIZE = 0
  <2>1. (0 * BIGGEST_SIZE + 0) % BIGGEST_SIZE = 0
    BY <1>1, DivUnique
  <2> QED BY <1>1, <2>1
<1> QED BY <1>1, <1>4, <1>5, <1>6, <1>7 DEF Blk, Aligned

\* A block that begins in the zone where blocks of its size may lies in the zone.
LEMMA WithinPages ==
  ASSUME SmallZone, NEW g \in Pages, NEW k \in Orders, Aligned(g, k)
  PROVE  Blk(g, k) \subseteq Pages
<1>1. g \in Nat /\ g \in Blk(0, MaxOrder)
  BY OneBlock
<1>2. g \in Blk(g, k)
  BY <1>1, PowPositive DEF Blk
<1> QED BY <1>1, <1>2, OneBlock, BlocksNested, OrdersAre

-----------------------------------------------------------------------------
(***************************************************************************)
(* The blocks of the zone are tiles.                                       *)
(***************************************************************************)

LEMMA BlocksAreTiles ==
  ASSUME SmallZone, BuddyInv
  PROVE  /\ AllBlocks = FreeBlocks \cup OwnedBlocks /\ FreeBlocks \cap OwnedBlocks = {}
         /\ AllBlocks \subseteq Tile /\ Apart(AllBlocks) /\ PagesIn(AllBlocks) = Pages
<1>0. TypeOK /\ TilingInv /\ NoSharedPage
  BY DEF BuddyInv, PagesConserved
<1>1. Pages \subseteq Nat
  BY OneBlock
<1>2. FreeBlocks \subseteq [page : Pages, order : Orders]
  <2> SUFFICES ASSUME NEW k \in Orders, NEW p \in Listed(k)
               PROVE  p \in Pages
    BY DEF FreeBlocks
  <2>1. free_area[k] \in Seq(Pages)
    BY <1>0 DEF TypeOK
  <2> QED BY <2>1, RangeEquality DEF Listed
<1>3. OwnedBlocks \subseteq [page : Pages, order : Orders]
  BY <1>0 DEF TypeOK, OwnedBlocks, Owned
<1>4. AllBlocks \subseteq Tile
  BY <1>0, <1>1, <1>2, <1>3 DEF AllBlocks, Tile, TilingInv, Aligned
<1>5. PagesIn(AllBlocks) = Pages
  BY <1>0 DEF TilingInv, PagesIn
<1> QED BY <1>0, <1>4, <1>5 DEF AllBlocks, NoSharedPage, Apart

\* The tiles that page_free(page, order) merges the block with.
BuddiesOf(page, order, m) ==
  {[page |-> BuddyOf(MergedPage(page, order, k), k), order |-> k] : k \in order..(m - 1)}

\* page_is_buddy finds free tiles only, and the block it says they make up is one of
\* their pages and the freed block's.
LEMMA MergedTiles ==
  ASSUME SmallZone, BuddyInv, booted, NEW b \in OwnedBlocks,
         NEW m \in Orders, b.order <= m,
         \A k \in b.order..(m - 1) : PageIsBuddy(BuddyOf(MergedPage(b.page, b.order, k), k), k)
  PROVE  /\ BuddiesOf(b.page, b.order, m) \subseteq FreeBlocks
         /\ Blk(MergedPage(b.page, b.order, m), m) =
              PagesIn({b} \cup BuddiesOf(b.page, b.order, m))
         /\ [page |-> MergedPage(b.page, b.order, m), order |-> m] \in Tile
<1> DEFINE page == b.page
           order == b.order
           M(k) == MergedPage(page, order, k)
           BB(k) == BuddiesOf(page, order, k)
           S == {k \in order..m : /\ BB(k) \subseteq FreeBlocks
                                  /\ Blk(M(k), k) = PagesIn({b} \cup BB(k))}
<1>0. /\ b \in AllBlocks /\ b \in Tile /\ AllBlocks \subseteq Tile
      /\ Apart(AllBlocks) /\ PagesIn(AllBlocks) = Pages
      /\ FreeBlocks \cup OwnedBlocks = AllBlocks
  BY BlocksAreTiles
<1>1. /\ page \in Nat /\ page \in Pages /\ order \in Orders /\ Aligned(page, order)
      /\ PagesOf(b) = Blk(page, order)
  BY <1>0, TileHasItsPage
<1>2. order \in Nat /\ m \in Nat /\ m <= MaxOrder /\ MaxOrder \in Nat
  BY <1>1, OrdersAre
<1>3. \A k \in order..m : k \in Orders /\ k \in Nat
  BY <1>2 DEF Orders
<1>4. ASSUME NEW k \in order..m
      PROVE  M(k) \in Nat /\ Aligned(M(k), k) /\ M(k) \in Pages /\ page \in Blk(M(k), k)
  <2>1. M(k) \in Nat /\ Aligned(M(k), k) /\ page \in Blk(M(k), k)
    BY <1>1, <1>2, <1>3, MergedPageStep
  <2>2. M(k) <= page
    BY <1>1, <1>3, <2>1 DEF Blk
  <2> QED BY <1>1, <2>1, <2>2, OneBlock
<1>5. order \in S
  <2>1. BB(order) = {}
    BY <1>2 DEF BuddiesOf
  <2>2. M(order) = page
    BY <1>1, MergedPageStep
  <2> QED BY <1>1, <1>2, <2>1, <2>2 DEF PagesIn
<1>6. ASSUME NEW k \in order..(m - 1), k \in S PROVE k + 1 \in S
  <2> DEFINE q == BuddyOf(M(k), k)
             g == M(k) - (M(k) % Pow2[k + 1])
  <2>1. k \in order..m /\ k + 1 \in order..m /\ k \in Orders /\ k + 1 \in Orders
        /\ k < MaxOrder /\ k \in Nat /\ order <= k
    BY <1>2, <1>3
  <2>2. M(k + 1) = g
    BY <1>1, <2>1, MergedPageStep
  <2>3. /\ g \in Nat /\ Aligned(g, k + 1) /\ Aligned(q, k)
        /\ (M(k) = g /\ q = g + Pow2[k]) \/ (M(k) = g + Pow2[k] /\ q = g)
    BY <1>4, <2>1, Halves
  <2>4. Pow2[k] \in Nat \ {0} /\ Pow2[k + 1] = 2 * Pow2[k]
    BY <2>1, PowPositive, PowDouble
  <2> HIDE DEF g, q, M
  <2>5. Blk(g, k + 1) = Blk(M(k), k) \cup Blk(q, k) /\ q \in Blk(q, k)
        /\ q \notin Blk(M(k), k) /\ q \in Nat
    BY <2>3, <2>4 DEF Blk
  <2>6. q \in Pages
    <3>1. Blk(M(k + 1), k + 1) \subseteq Pages
      BY <1>4, <2>1, WithinPages
    <3> QED BY <2>2, <2>5, <3>1
  <2>7. PICK t \in AllBlocks : q \in PagesOf(t)
    BY <1>0, <2>6 DEF PagesIn
  <2>8. Blk(M(k), k) = PagesIn({b} \cup BB(k)) /\ BB(k) \subseteq FreeBlocks
    BY <1>6
  <2>9. PagesOf(t) \cap Blk(M(k), k) = {}
    <3> SUFFICES ASSUME NEW x \in PagesOf(t), x \in Blk(M(k), k) PROVE FALSE
      OBVIOUS
    <3>1. PICK r \in {b} \cup BB(k) : x \in PagesOf(r)
      BY <2>8 DEF PagesIn
    <3>2. r \in AllBlocks
      BY <1>0, <2>8, <3>1
    <3>3. t = r
      BY <1>0, <3>1, <3>2 DEF Apart
    <3>4. q \in PagesIn({b} \cup BB(k))
      BY <2>7, <3>1, <3>3 DEF PagesIn
    <3> QED BY <2>5, <2>8, <3>4
  <2>10. /\ t.page \in Nat /\ t.order \in Orders /\ Aligned(t.page, t.order)
         /\ PagesOf(t) = Blk(t.page, t.order) /\ t = [page |-> t.page, order |-> t.order]
    BY <1>0, <2>7, TileHasItsPage
  <2>11. t.page = q
    <3>1. q = BuddyOf(M(k), k)
      BY DEF q
    <3> QED BY <1>4, <2>1, <2>7, <2>9, <2>10, <3>1, Nested
  <2>12. private[q] = k /\ q \notin busy
    BY <1>6 DEF PageIsBuddy, q, M
  <2>13. t \in FreeBlocks /\ private[t.page] = t.order
    BY <1>0, <2>7, <2>11, <2>12 DEF BuddyInv, DescriptorsInv
  <2>14. t = [page |-> q, order |-> k]
    BY <2>10, <2>11, <2>12, <2>13
  <2>15. BB(k + 1) = BB(k) \cup {t}
    <3>1. order..((k + 1) - 1) = (order..(k - 1)) \cup {k}
      BY <1>2, <2>1
    <3> QED BY <2>14, <3>1 DEF BuddiesOf, q, M
  <2>16. PagesIn({b} \cup BB(k + 1)) = PagesIn({b} \cup BB(k)) \cup PagesOf(t)
    BY <2>15 DEF PagesIn
  <2>17. PagesOf(t) = Blk(q, k)
    BY <2>10, <2>14
  <2> QED BY <2>1, <2>2, <2>5, <2>8, <2>13, <2>15, <2>16, <2>17
<1>7. m \in S
  <2> HIDE DEF S
  <2>1. \A k \in order..m : k \in S
    BY <1>2, <1>5, <1>6, OrderByOrder
  <2> QED BY <1>2, <2>1
<1>8. [page |-> M(m), order |-> m] \in Tile
  <2>1. Blk(M(m), m) \subseteq Pages /\ M(m) \in Nat /\ Aligned(M(m), m)
    BY <1>2, <1>4, WithinPages
  <2> QED BY <2>1 DEF Tile, PagesOf, Blk
<1> QED BY <1>7, <1>8

-----------------------------------------------------------------------------
(***************************************************************************)
(* What page_alloc does to the tiles.                                      *)
(***************************************************************************)

\* The free blocks that page_alloc splits off a block of order curr at page.
SplitsOf(page, order, curr) ==
  {[page |-> page + Pow2[k], order |-> k] : k \in order..(curr - 1)}

LEMMA AlignedDown ==
  ASSUME NEW p \in Nat, NEW j \in Orders, NEW k \in Orders, j <= k, Aligned(p, k)
  PROVE  Aligned(p, j) /\ Aligned(p + Pow2[j], j)
<1>1. PICK v \in Nat \ {0}, c \in Nat \ {0} : v = Pow2[j] /\ Pow2[k] = c * v
  BY PowPositive, PowMultiple
<1>2. PICK w \in Nat \ {0} : w = Pow2[k]
  BY PowPositive
<1>3. PICK i \in Int : p = i * w
  <2>1. w \in Nat \ {0} /\ p % w = 0
    BY <1>2 DEF Aligned
  <2>2. p \div w \in Int /\ p = (p \div w) * w + (p % w)
    BY <2>1, DivMod
  <2>3. p = (p \div w) * w
    BY <2>1, <2>2
  <2> QED BY <2>2, <2>3
<1>4. p = (i * c) * v
  <2>1. p = i * (c * v)
    BY <1>1, <1>2, <1>3
  <2> QED BY <2>1
<1>5. \A n \in Int : (n * v) % v = 0
  <2> TAKE n \in Int
  <2>1. (n * v + 0) % v = 0
    BY DivUnique
  <2> QED BY <2>1
<1>6. PICK n \in Int : p = n * v
  BY <1>4
<1>7. p + v = (n + 1) * v /\ n + 1 \in Int
  BY <1>6
<1>8. (n * v) % v = 0 /\ ((n + 1) * v) % v = 0
  BY <1>5
<1> QED BY <1>1, <1>6, <1>7, <1>8 DEF Aligned

LEMMA SplitTiles ==
  ASSUME NEW page \in Nat, NEW order \in Orders, NEW curr \in Orders, order <= curr,
         [page |-> page, order |-> curr] \in Tile
  PROVE  LET N == {[page |-> page, order |-> order]} \cup SplitsOf(page, order, curr)
         IN  /\ N \subseteq Tile /\ Apart(N)
             /\ PagesIn(N) = PagesOf([page |-> page, order |-> curr])
             /\ \A i \in order..(curr - 1), k \in order..(curr - 1) :
                  page + Pow2[i] = page + Pow2[k] => i = k
             /\ \A k \in order..(curr - 1) : page + Pow2[k] # page
<1> DEFINE new == [page |-> page, order |-> order]
           H(k) == [page |-> page + Pow2[k], order |-> k]
           N(c) == {new} \cup SplitsOf(page, order, c)
           S == {c \in Orders : order <= c /\ PagesIn(N(c)) = Blk(page, c)}
<1>1. /\ order \in Nat /\ curr \in Nat /\ Aligned(page, curr)
      /\ PagesOf([page |-> page, order |-> curr]) = Blk(page, curr)
      /\ Blk(page, curr) \subseteq Pages
  BY OrdersAre DEF Tile, PagesOf, Blk
<1>2. ASSUME NEW k \in order..(curr - 1)
      PROVE  /\ k \in Orders /\ k \in Nat /\ k < MaxOrder /\ Pow2[k] \in Nat \ {0}
             /\ k + 1 \in Orders /\ Pow2[k + 1] = 2 * Pow2[k] /\ k + 1 \in order..curr
  <2>1. k \in Orders /\ k \in Nat /\ k < MaxOrder /\ k + 1 \in order..curr
    BY <1>1, OrdersAre DEF Orders
  <2>2. Pow2[k] \in Nat \ {0} /\ k + 1 \in Orders /\ Pow2[k + 1] = 2 * Pow2[k]
    BY <2>1, PowPositive, PowDouble
  <2> QED BY <2>1, <2>2
<1>15. ASSUME NEW k \in order..(curr - 1)
       PROVE  /\ PagesOf(H(k)) = (page + Pow2[k])..(page + 2 * Pow2[k] - 1)
              /\ H(k).page = page + Pow2[k] /\ H(k).order = k
  <2>1. Pow2[k] \in Nat
    BY <1>2
  <2> QED BY <2>1 DEF PagesOf
<1>3. Pow2[order] \in Nat \ {0} /\ Pow2[curr] \in Nat \ {0}
  BY PowPositive
<1>4. PagesOf(new) = Blk(page, order)
  BY DEF PagesOf, Blk
<1>5. order \in S
  <2>1. SplitsOf(page, order, order) = {}
    BY <1>1 DEF SplitsOf
  <2> QED BY <1>1, <1>4, <2>1 DEF PagesIn
<1>6. ASSUME NEW k \in order..(curr - 1), k \in S PROVE k + 1 \in S
  <2>1. order..((k + 1) - 1) = (order..(k - 1)) \cup {k}
    BY <1>1, <1>2
  <2>2. N(k + 1) = N(k) \cup {H(k)}
    BY <2>1 DEF SplitsOf
  <2>5. PagesIn(N(k)) = Blk(page, k) /\ order <= k
    BY <1>1, <1>6
  <2>6. /\ Pow2[k] \in Nat \ {0} /\ Pow2[k + 1] = 2 * Pow2[k] /\ k + 1 \in Orders
        /\ order <= k + 1 /\ PagesOf(H(k)) = (page + Pow2[k])..(page + 2 * Pow2[k] - 1)
    BY <1>1, <1>2, <1>15, <2>5
  <2> SUFFICES PagesIn(N(k + 1)) = Blk(page, k + 1)
    BY <2>6
  <2> HIDE DEF N, H
  <2>3. PagesIn(N(k + 1)) = PagesIn(N(k)) \cup PagesOf(H(k))
    BY <2>2 DEF PagesIn
  <2>4. Blk(page, k + 1) = Blk(page, k) \cup PagesOf(H(k))
    BY <2>6 DEF Blk
  <2> QED BY <2>3, <2>4, <2>5
<1>7. PagesIn(N(curr)) = Blk(page, curr)
  <2> HIDE DEF S
  <2>1. \A k \in order..curr : k \in S
    BY <1>1, <1>5, <1>6, OrderByOrder
  <2>2. curr \in S
    BY <1>1, <2>1
  <2> QED BY <2>2 DEF S
<1>8. ASSUME NEW n \in N(curr) PROVE n \in Tile
  <2>1. PagesOf(n) \subseteq Pages
    BY <1>1, <1>7 DEF PagesIn
  <2>2. CASE n = new
    BY <1>1, <2>1, <2>2, AlignedDown DEF Tile
  <2>3. CASE \E k \in order..(curr - 1) : n = H(k)
    <3>1. PICK k \in order..(curr - 1) : n = H(k)
      BY <2>3
    <3>2. k \in Orders /\ k <= curr /\ Pow2[k] \in Nat
      BY <1>1, <1>2
    <3>3. Aligned(page + Pow2[k], k) /\ page + Pow2[k] \in Nat
      BY <1>1, <3>2, AlignedDown
    <3> QED BY <2>1, <3>1, <3>2, <3>3 DEF Tile
  <2> QED BY <2>2, <2>3 DEF SplitsOf
<1>9. ASSUME NEW i \in order..(curr - 1), NEW k \in order..(curr - 1), i < k
      PROVE  2 * Pow2[i] <= Pow2[k]
  BY <1>2, <1>9, PowMono
<1>10. ASSUME NEW i \in order..(curr - 1), NEW k \in order..(curr - 1), i < k
       PROVE  PagesOf(H(i)) \cap PagesOf(H(k)) = {}
  <2>1. Pow2[i] \in Nat /\ Pow2[k] \in Nat /\ 2 * Pow2[i] <= Pow2[k]
    BY <1>2, <1>9, <1>10
  <2>2. /\ PagesOf(H(i)) = (page + Pow2[i])..(page + 2 * Pow2[i] - 1)
        /\ PagesOf(H(k)) = (page + Pow2[k])..(page + 2 * Pow2[k] - 1)
    BY <1>15
  <2> HIDE DEF H
  <2> QED BY <2>1, <2>2
<1>11. ASSUME NEW k \in order..(curr - 1) PROVE PagesOf(new) \cap PagesOf(H(k)) = {}
  <2>1. k \in Orders /\ order <= k /\ Pow2[k] \in Nat
    BY <1>1, <1>2
  <2>2. Pow2[order] <= Pow2[k]
    BY <2>1, PowMono
  <2>3. PagesOf(H(k)) = (page + Pow2[k])..(page + 2 * Pow2[k] - 1)
    BY <1>15
  <2> HIDE DEF H, new
  <2> QED BY <1>3, <1>4, <2>1, <2>2, <2>3 DEF Blk
<1>12. Apart(N(curr))
  <2> SUFFICES ASSUME NEW a \in N(curr), NEW b \in N(curr), a # b
               PROVE  PagesOf(a) \cap PagesOf(b) = {}
    BY DEF Apart
  <2>1. (a = new \/ \E i \in order..(curr - 1) : a = H(i))
        /\ (b = new \/ \E i \in order..(curr - 1) : b = H(i))
    BY DEF SplitsOf
  <2> HIDE DEF N, H, new
  <2>2. CASE a = new \/ b = new
    BY <1>11, <2>1, <2>2
  <2>3. CASE a # new /\ b # new
    <3>1. PICK i \in order..(curr - 1), k \in order..(curr - 1) : a = H(i) /\ b = H(k)
      BY <2>1, <2>3
    <3>2. i < k \/ k < i
      BY <1>2, <3>1
    <3> QED BY <1>10, <3>1, <3>2
  <2> QED BY <2>2, <2>3
<1>13. ASSUME NEW i \in order..(curr - 1), NEW k \in order..(curr - 1),
              page + Pow2[i] = page + Pow2[k]
       PROVE  i = k
  <2>1. Pow2[i] \in Nat \ {0} /\ Pow2[k] \in Nat \ {0} /\ i \in Nat /\ k \in Nat
    BY <1>2
  <2>2. Pow2[i] = Pow2[k]
    BY <1>13, <2>1
  <2>3. CASE i < k
    BY <1>9, <2>1, <2>2, <2>3
  <2>4. CASE k < i
    BY <1>9, <2>1, <2>2, <2>4
  <2> QED BY <2>1, <2>3, <2>4
<1>14. ASSUME NEW k \in order..(curr - 1) PROVE page + Pow2[k] # page
  <2>1. Pow2[k] \in Nat \ {0}
    BY <1>2
  <2> QED BY <2>1
<1> QED BY <1>1, <1>7, <1>8, <1>12, <1>13, <1>14

-----------------------------------------------------------------------------
(***************************************************************************)
(* The lists.                                                              *)
(***************************************************************************)

\* The free blocks that lists fa amount to.
BlocksOn(fa) == UNION {{[page |-> p, order |-> k] : p \in Range(fa[k])} : k \in Orders}

LEMMA FreeBlocksAreOn ==
  FreeBlocks = BlocksOn(free_area) /\ FreeBlocks' = BlocksOn(free_area')
  BY DEF FreeBlocks, BlocksOn, Listed

LEMMA OnList ==
  ASSUME NEW fa, NEW p, NEW k \in Orders
  PROVE  [page |-> p, order |-> k] \in BlocksOn(fa) <=> p \in Range(fa[k])
<1>1. ASSUME [page |-> p, order |-> k] \in BlocksOn(fa) PROVE p \in Range(fa[k])
  <2>1. PICK j \in Orders : [page |-> p, order |-> k] \in {[page |-> x, order |-> j] : x \in Range(fa[j])}
    BY <1>1 DEF BlocksOn
  <2>2. PICK x \in Range(fa[j]) : [page |-> p, order |-> k] = [page |-> x, order |-> j]
    BY <2>1
  <2>3. x = p /\ j = k
    BY <2>2
  <2> QED BY <2>2, <2>3
<1>2. ASSUME p \in Range(fa[k]) PROVE [page |-> p, order |-> k] \in BlocksOn(fa)
  BY <1>2 DEF BlocksOn
<1> QED BY <1>1, <1>2

LEMMA BlocksOnForm ==
  ASSUME NEW fa, NEW b \in BlocksOn(fa)
  PROVE  \E k \in Orders : \E p : b = [page |-> p, order |-> k]
  BY DEF BlocksOn

\* Lists are equal to a set of blocks when they agree on every place.
LEMMA BlocksOnAre ==
  ASSUME NEW fa, NEW B, \A b \in B : \E k \in Orders : \E p : b = [page |-> p, order |-> k],
         \A k \in Orders : \A p : p \in Range(fa[k]) <=> [page |-> p, order |-> k] \in B
  PROVE  BlocksOn(fa) = B
<1>1. ASSUME NEW b \in BlocksOn(fa) PROVE b \in B
  <2>1. PICK k \in Orders : \E p : b = [page |-> p, order |-> k]
    BY BlocksOnForm
  <2>2. PICK p : b = [page |-> p, order |-> k]
    BY <2>1
  <2> QED BY <2>2, OnList
<1>2. ASSUME NEW b \in B PROVE b \in BlocksOn(fa)
  <2>1. PICK k \in Orders : \E p : b = [page |-> p, order |-> k]
    OBVIOUS
  <2>2. PICK p : b = [page |-> p, order |-> k]
    BY <2>1
  <2> QED BY <2>2, OnList
<1> QED BY <1>1, <1>2

LEMMA UnlinkRange ==
  ASSUME NEW S, NEW s \in Seq(S), IsInjective(s), NEW x \in Range(s)
  PROVE  /\ Unlink(s, x) \in Seq(S) /\ IsInjective(Unlink(s, x))
         /\ Range(Unlink(s, x)) = Range(s) \ {x}
<1>1. Len(s) \in Nat /\ DOMAIN s = 1..Len(s) /\ \E i \in DOMAIN s : s[i] = x
  BY LenProperties, RangeEquality
<1>2. PICK k \in 1..Len(s) : k = (CHOOSE i \in DOMAIN s : s[i] = x) /\ s[k] = x
  BY <1>1
<1>3. Unlink(s, x) = RemoveAt(s, k)
  BY <1>2 DEF Unlink
<1>4. RemoveAt(s, k) \in Seq(S)
  BY RemoveAtProps
<1>5. IsInjective(RemoveAt(s, k)) /\ Range(RemoveAt(s, k)) = Range(s) \ {s[k]}
  BY RemoveAtRange
<1> QED BY <1>2, <1>3, <1>4, <1>5

\* How page_alloc and page_free change the lists fa to fb.
CarvedLists(fa, fb, page, order, curr) ==
  \A k \in Orders : fb[k] = IF k = curr THEN Tail(fa[k])
                            ELSE IF k \in order..(curr - 1)
                                 THEN <<page + Pow2[k]>> \o fa[k] ELSE fa[k]
MergedLists(fa, fb, page, order, m, c) ==
  \A k \in Orders : fb[k] = IF k \in order..(m - 1)
                            THEN Unlink(fa[k], BuddyOf(MergedPage(page, order, k), k))
                            ELSE IF k = m THEN <<c>> \o fa[k] ELSE fa[k]

\* page_alloc's lists: the block at page is gone, what was split off it is there.
LEMMA AllocLists ==
  ASSUME NEW fa \in [Orders -> Seq(Pages)], NEW order \in Orders, NEW curr \in Orders,
         NEW page, NEW fb, \A k \in Orders : IsInjective(fa[k]),
         order <= curr, fa[curr] # <<>>, page = Head(fa[curr]),
         SplitsOf(page, order, curr) \subseteq Tile,
         SplitsOf(page, order, curr) \cap BlocksOn(fa) = {},
         CarvedLists(fa, fb, page, order, curr)
  PROVE  /\ \A k \in Orders : fb[k] \in Seq(Pages) /\ IsInjective(fb[k])
         /\ BlocksOn(fb) = (BlocksOn(fa) \ {[page |-> page, order |-> curr]})
                              \cup SplitsOf(page, order, curr)
<1>0. \A k \in order..(curr - 1) : k \in Orders /\ k # curr
  BY OrdersAre DEF Orders
<1>6. ASSUME NEW k \in order..(curr - 1)
      PROVE  page + Pow2[k] \in Pages /\ page + Pow2[k] \notin Range(fa[k])
  <2>1. [page |-> page + Pow2[k], order |-> k] \in SplitsOf(page, order, curr)
    BY DEF SplitsOf
  <2>2. [page |-> page + Pow2[k], order |-> k].page = page + Pow2[k]
    OBVIOUS
  <2>3. page + Pow2[k] \in Pages /\ [page |-> page + Pow2[k], order |-> k] \notin BlocksOn(fa)
    BY <2>1, <2>2, TileHasItsPage
  <2> QED BY <1>0, <2>3, OnList
<1>1. ASSUME NEW k \in Orders
      PROVE  /\ fb[k] \in Seq(Pages) /\ IsInjective(fb[k])
             /\ Range(fb[k]) = IF k = curr THEN Range(fa[k]) \ {page}
                               ELSE IF k \in order..(curr - 1)
                                    THEN Range(fa[k]) \cup {page + Pow2[k]} ELSE Range(fa[k])
  <2>1. CASE k = curr
    <3>1. fb[k] = Tail(fa[k])
      BY <2>1 DEF CarvedLists
    <3> QED BY <2>1, <3>1, TailRange
  <2>2. CASE k # curr /\ k \in order..(curr - 1)
    <3>1. fb[k] = <<page + Pow2[k]>> \o fa[k]
      BY <2>2 DEF CarvedLists
    <3>2. /\ <<page + Pow2[k]>> \o fa[k] \in Seq(Pages)
          /\ IsInjective(<<page + Pow2[k]>> \o fa[k])
          /\ Range(<<page + Pow2[k]>> \o fa[k]) = Range(fa[k]) \cup {page + Pow2[k]}
      BY <1>6, <2>2, ConsRange
    <3> QED BY <2>2, <3>1, <3>2
  <2>3. CASE k # curr /\ k \notin order..(curr - 1)
    BY <2>3 DEF CarvedLists
  <2> QED BY <2>1, <2>2, <2>3
<1>2. \A k \in Orders : fb[k] \in Seq(Pages) /\ IsInjective(fb[k])
  BY <1>1
<1> DEFINE B == (BlocksOn(fa) \ {[page |-> page, order |-> curr]}) \cup SplitsOf(page, order, curr)
<1>3. ASSUME NEW k \in Orders, NEW p
      PROVE  p \in Range(fb[k]) <=> [page |-> p, order |-> k] \in B
  <2>1. [page |-> p, order |-> k] \in BlocksOn(fa) <=> p \in Range(fa[k])
    BY OnList
  <2>2. [page |-> p, order |-> k] = [page |-> page, order |-> curr] <=> p = page /\ k = curr
    OBVIOUS
  <2>3. [page |-> p, order |-> k] \in SplitsOf(page, order, curr)
          <=> k \in order..(curr - 1) /\ p = page + Pow2[k]
    BY DEF SplitsOf
  <2> QED BY <1>0, <1>1, <2>1, <2>2, <2>3
<1>4. \A b \in B : \E k \in Orders : \E p : b = [page |-> p, order |-> k]
  <2>1. \A b \in BlocksOn(fa) : \E k \in Orders : \E p : b = [page |-> p, order |-> k]
    BY BlocksOnForm
  <2>2. \A b \in SplitsOf(page, order, curr) : \E k \in Orders : \E p : b = [page |-> p, order |-> k]
    BY <1>0 DEF SplitsOf
  <2> QED BY <2>1, <2>2
<1> HIDE DEF B
<1>5. BlocksOn(fb) = B
  BY <1>3, <1>4, BlocksOnAre
<1> QED BY <1>2, <1>5 DEF B

\* page_free's lists: the buddies are gone, the block they make up is there.
LEMMA FreeLists ==
  ASSUME NEW fa \in [Orders -> Seq(Pages)], NEW order \in Orders, NEW m \in Orders,
         NEW page, NEW c \in Pages, NEW fb, \A k \in Orders : IsInjective(fa[k]),
         order <= m, BuddiesOf(page, order, m) \subseteq BlocksOn(fa),
         [page |-> c, order |-> m] \notin BlocksOn(fa),
         MergedLists(fa, fb, page, order, m, c)
  PROVE  /\ \A k \in Orders : fb[k] \in Seq(Pages) /\ IsInjective(fb[k])
         /\ BlocksOn(fb) = (BlocksOn(fa) \ BuddiesOf(page, order, m))
                              \cup {[page |-> c, order |-> m]}
<1> DEFINE q(k) == BuddyOf(MergedPage(page, order, k), k)
           BB == BuddiesOf(page, order, m)
           B == (BlocksOn(fa) \ BB) \cup {[page |-> c, order |-> m]}
<1>0. \A k \in order..(m - 1) : k \in Orders /\ k # m
  BY OrdersAre DEF Orders
<1>1. ASSUME NEW k \in Orders, NEW p
      PROVE  [page |-> p, order |-> k] \in BB <=> k \in order..(m - 1) /\ p = q(k)
  <2>1. ASSUME [page |-> p, order |-> k] \in BB PROVE k \in order..(m - 1) /\ p = q(k)
    <3>1. PICK j \in order..(m - 1) : [page |-> p, order |-> k] = [page |-> q(j), order |-> j]
      BY <2>1 DEF BuddiesOf
    <3> HIDE DEF q
    <3>2. k = j /\ p = q(j)
      BY <3>1
    <3> QED BY <3>2
  <2>2. ASSUME k \in order..(m - 1), p = q(k) PROVE [page |-> p, order |-> k] \in BB
    BY <2>2 DEF BuddiesOf
  <2> QED BY <2>1, <2>2
<1>2. \A k \in order..(m - 1) : q(k) \in Range(fa[k])
  <2> TAKE k \in order..(m - 1)
  <2>1. [page |-> q(k), order |-> k] \in BlocksOn(fa)
    BY <1>0, <1>1
  <2> QED BY <1>0, <2>1, OnList
<1>3. c \notin Range(fa[m])
  BY OnList
<1>4. ASSUME NEW k \in Orders
      PROVE  /\ fb[k] \in Seq(Pages) /\ IsInjective(fb[k])
             /\ Range(fb[k]) = IF k \in order..(m - 1) THEN Range(fa[k]) \ {q(k)}
                               ELSE IF k = m THEN Range(fa[k]) \cup {c} ELSE Range(fa[k])
  <2>1. CASE k \in order..(m - 1)
    <3>1. fb[k] = Unlink(fa[k], q(k)) /\ q(k) \in Range(fa[k])
      BY <1>2, <2>1 DEF MergedLists
    <3>2. fa[k] \in Seq(Pages) /\ IsInjective(fa[k])
      OBVIOUS
    <3> HIDE DEF q
    <3>3. /\ Unlink(fa[k], q(k)) \in Seq(Pages) /\ IsInjective(Unlink(fa[k], q(k)))
          /\ Range(Unlink(fa[k], q(k))) = Range(fa[k]) \ {q(k)}
      BY <3>1, <3>2, UnlinkRange
    <3> QED BY <2>1, <3>1, <3>3
  <2>2. CASE k = m /\ k \notin order..(m - 1)
    <3>1. fb[k] = <<c>> \o fa[k]
      BY <2>2 DEF MergedLists
    <3>2. /\ <<c>> \o fa[k] \in Seq(Pages) /\ IsInjective(<<c>> \o fa[k])
          /\ Range(<<c>> \o fa[k]) = Range(fa[k]) \cup {c}
      BY <1>3, <2>2, ConsRange
    <3> QED BY <2>2, <3>1, <3>2
  <2>3. CASE k # m /\ k \notin order..(m - 1)
    BY <2>3 DEF MergedLists
  <2> QED BY <2>1, <2>2, <2>3
<1>5. \A k \in Orders : fb[k] \in Seq(Pages) /\ IsInjective(fb[k])
  BY <1>4
<1>6. ASSUME NEW k \in Orders, NEW p
      PROVE  p \in Range(fb[k]) <=> [page |-> p, order |-> k] \in B
  <2>1. [page |-> p, order |-> k] \in BlocksOn(fa) <=> p \in Range(fa[k])
    BY OnList
  <2>2. [page |-> p, order |-> k] = [page |-> c, order |-> m] <=> p = c /\ k = m
    OBVIOUS
  <2> HIDE DEF q, BB
  <2> QED BY <1>0, <1>1, <1>4, <2>1, <2>2
<1>7. \A b \in B : \E k \in Orders : \E p : b = [page |-> p, order |-> k]
  <2>1. \A b \in BlocksOn(fa) : \E k \in Orders : \E p : b = [page |-> p, order |-> k]
    BY BlocksOnForm
  <2> QED BY <2>1
<1> HIDE DEF B
<1>8. BlocksOn(fb) = B
  BY <1>6, <1>7, BlocksOnAre
<1> QED BY <1>5, <1>8 DEF B, BB

-----------------------------------------------------------------------------
(***************************************************************************)
(* Steps of the zone.                                                      *)
(***************************************************************************)

LEMMA PagesCount ==
  ASSUME NEW A, A \subseteq Pages, NEW p \in Nat, NEW k \in Orders
  PROVE  /\ Cardinality(A) \in Nat
         /\ Blk(p, k) \subseteq A => Cardinality(A \ Blk(p, k)) = Cardinality(A) - Pow2[k]
         /\ Blk(p, k) \cap A = {} => Cardinality(A \cup Blk(p, k)) = Cardinality(A) + Pow2[k]
<1>1. Pow2[k] \in Nat \ {0} /\ BiggestCount * BIGGEST_SIZE - 1 \in Int
  <2>1. BIGGEST_SIZE \in Nat \ {0}
    BY PowPositive, OrdersAre DEF BIGGEST_SIZE
  <2>2. PageCount \div BIGGEST_SIZE \in Int
    BY <2>1, CountAssumption
  <2> QED BY <2>1, <2>2, PowPositive DEF BiggestCount
<1>2. IsFiniteSet(A)
  <2>1. IsFiniteSet(Pages)
    BY <1>1, FS_Interval DEF Pages
  <2> QED BY <2>1, FS_Subset
<1>3. IsFiniteSet(Blk(p, k)) /\ Cardinality(Blk(p, k)) = Pow2[k]
  <2>1. p + Pow2[k] - 1 \in Int /\ p \in Int
    BY <1>1
  <2>2. IsFiniteSet(Blk(p, k))
        /\ Cardinality(Blk(p, k)) = IF p > p + Pow2[k] - 1 THEN 0 ELSE (p + Pow2[k] - 1) - p + 1
    BY <2>1, FS_Interval DEF Blk
  <2> QED BY <1>1, <2>2
<1>4. Cardinality(A) \in Nat
  BY <1>2, FS_CardinalityType
<1>5. ASSUME Blk(p, k) \subseteq A
      PROVE  Cardinality(A \ Blk(p, k)) = Cardinality(A) - Pow2[k]
  <2>1. A \cap Blk(p, k) = Blk(p, k)
    BY <1>5
  <2>2. Cardinality(A \ Blk(p, k)) = Cardinality(A) - Cardinality(A \cap Blk(p, k))
    BY <1>2, FS_Difference
  <2> QED BY <1>3, <2>1, <2>2
<1>6. ASSUME Blk(p, k) \cap A = {}
      PROVE  Cardinality(A \cup Blk(p, k)) = Cardinality(A) + Pow2[k]
  <2>1. Cardinality(A \cup Blk(p, k)) =
          Cardinality(A) + Cardinality(Blk(p, k)) - Cardinality(A \cap Blk(p, k))
    BY <1>2, <1>3, FS_Union
  <2>2. A \cap Blk(p, k) = {} /\ Cardinality({}) = 0
    BY <1>6, FS_EmptySet
  <2> QED BY <1>1, <1>3, <1>4, <2>1, <2>2
<1> QED BY <1>4, <1>5, <1>6

\* A tiling after a step is all that the invariants say of the blocks.
LEMMA TilesAfter ==
  ASSUME SmallZone, AllBlocks' \subseteq Tile, Apart(AllBlocks'), PagesIn(AllBlocks') = Pages,
         FreeBlocks' \cap OwnedBlocks' = {}
  PROVE  NoSharedPage' /\ TilingInv' /\ FreePageSet' \cup OwnedPageSet' = ZonePages
<1>1. AllBlocks' = FreeBlocks' \cup OwnedBlocks'
  BY DEF AllBlocks
<1>2. NoSharedPage'
  BY <1>1 DEF NoSharedPage, Apart
<1>3. TilingInv'
  BY DEF TilingInv, Tile, Aligned, PagesIn
<1>4. FreePageSet' \cup OwnedPageSet' = PagesIn(AllBlocks')
  BY <1>1 DEF FreePageSet, OwnedPageSet, PagesIn
<1> QED BY <1>2, <1>3, <1>4, OneBlock

\* What an allocation keeps, once its owner is noted: a free tile is cut up, and the piece
\* handed out has a first page that no block before it had.
LEMMA AllocKeeps ==
  ASSUME SmallZone, BuddyInv, NEW order \in Orders, NEW page \in Pages,
         PageAlloc(order, page), booted', held' \subseteq Owned,
         reserved' \subseteq [page : Pages, order : Orders],
         OwnedBlocks' = OwnedBlocks \cup {[page |-> page, order |-> order]}
  PROVE  /\ PagesConserved' /\ NoSharedPage' /\ TilingInv' /\ DescriptorsInv'
         /\ \A k \in Orders : IsInjective(free_area[k])'
         /\ \A b \in OwnedBlocks : b.page # page
         /\ Blk(page, order) \subseteq FreePageSet
         /\ FreePageSet' = FreePageSet \ Blk(page, order)
<1> DEFINE new == [page |-> page, order |-> order]
<1>1. /\ AllBlocks = FreeBlocks \cup OwnedBlocks /\ FreeBlocks \cap OwnedBlocks = {}
      /\ AllBlocks \subseteq Tile /\ Apart(AllBlocks) /\ PagesIn(AllBlocks) = Pages
  BY BlocksAreTiles
<1>2. TypeOK /\ PagesConserved /\ DescriptorsInv /\ OnceInv
  BY DEF BuddyInv, PagesConserved
<1>3. PICK curr \in PageSearch(order) :
        /\ page = Head(free_area[curr])
        /\ free_area' = [k \in Orders |->
                           IF k = curr THEN Tail(free_area[k])
                           ELSE IF k \in order..(curr - 1)
                                THEN <<page + Pow2[k]>> \o free_area[k] ELSE free_area[k]]
        /\ nr_free' = [k \in Orders |->
                         IF k = curr THEN nr_free[k] - 1
                         ELSE IF k \in order..(curr - 1) THEN nr_free[k] + 1 ELSE nr_free[k]]
        /\ free_pages' = free_pages - Pow2[order]
        /\ busy' = busy \cup {page}
        /\ private' = [p \in Pages |->
                         IF p = page THEN curr
                         ELSE IF \E k \in order..(curr - 1) : p = page + Pow2[k]
                              THEN CHOOSE k \in order..(curr - 1) : p = page + Pow2[k]
                         ELSE private[p]]
        /\ wild' = wild
  BY DEF PageAlloc
<1> DEFINE c == [page |-> page, order |-> curr]
           Sp == SplitsOf(page, order, curr)
           N == {new} \cup Sp
<1>4. curr \in Orders /\ order <= curr /\ free_area[curr] # <<>> /\ order \in Nat /\ curr \in Nat
  BY <1>3, OrdersAre DEF PageSearch, Orders
<1>5. c \in FreeBlocks
  <2>1. free_area[curr] \in Seq(Pages) /\ IsInjective(free_area[curr])
    BY <1>2, <1>4 DEF TypeOK, OnceInv
  <2>2. page \in Range(free_area[curr])
    BY <1>3, <1>4, <2>1, TailRange
  <2> QED BY <1>4, <2>2, OnList, FreeBlocksAreOn
<1>6. c \in Tile /\ page \in Nat /\ PagesOf(c) = Blk(page, curr) /\ PagesOf(new) = Blk(page, order)
  BY <1>1, <1>5, TileHasItsPage DEF PagesOf, Blk
<1>7. /\ N \subseteq Tile /\ Apart(N) /\ PagesIn(N) = PagesOf(c)
      /\ \A i \in order..(curr - 1), k \in order..(curr - 1) :
           page + Pow2[i] = page + Pow2[k] => i = k
      /\ \A k \in order..(curr - 1) : page + Pow2[k] # page
  BY <1>4, <1>6, SplitTiles
<1>8. PagesIn(N) = PagesIn({c})
  BY <1>7 DEF PagesIn
<1>9. /\ (AllBlocks \ {c}) \cup N \subseteq Tile /\ Apart((AllBlocks \ {c}) \cup N)
      /\ PagesIn((AllBlocks \ {c}) \cup N) = Pages
      /\ N \cap (AllBlocks \ {c}) = {}
  <2>1. {c} \subseteq AllBlocks
    BY <1>1, <1>5
  <2> HIDE DEF c, N
  <2> QED BY <1>1, <1>7, <1>8, <2>1, Replace
<1>10. /\ PagesIn((FreeBlocks \ {c}) \cup N) = PagesIn(FreeBlocks)
       /\ Apart((FreeBlocks \ {c}) \cup N)
  <2>1. {c} \subseteq FreeBlocks /\ FreeBlocks \subseteq Tile /\ Apart(FreeBlocks)
    BY <1>1, <1>5 DEF Apart
  <2> HIDE DEF c, N
  <2> QED BY <1>7, <1>8, <2>1, Replace
<1>11. \A k \in order..(curr - 1) :
         /\ k \in Orders /\ page + Pow2[k] \in Pages
         /\ [page |-> page + Pow2[k], order |-> k] \in Sp
  <2> TAKE k \in order..(curr - 1)
  <2> DEFINE h == [page |-> page + Pow2[k], order |-> k]
  <2>1. h \in Sp /\ k \in Orders
    BY <1>4, OrdersAre DEF SplitsOf, Orders
  <2>2. h \in Tile
    BY <1>7, <2>1
  <2>3. h.page \in Pages
    BY <2>2, TileHasItsPage
  <2> QED BY <2>1, <2>3
<1>24. \A b \in Sp : b \notin FreeBlocks
  <2> TAKE b \in Sp
  <2>1. b \in N /\ b \in Tile
    BY <1>7
  <2>2. b # c
    <3>1. PICK k \in order..(curr - 1) : b = [page |-> page + Pow2[k], order |-> k]
      BY DEF SplitsOf
    <3>2. b.order = k /\ c.order = curr /\ k # curr
      BY <1>4, <3>1
    <3> QED BY <3>2
  <2> HIDE DEF c, N, Sp
  <2> QED BY <1>1, <1>9, <2>1, <2>2
<1>12. /\ free_area' \in [Orders -> Seq(Pages)] /\ \A k \in Orders : IsInjective(free_area'[k])
       /\ FreeBlocks' = (FreeBlocks \ {c}) \cup Sp
  <2>1. free_area \in [Orders -> Seq(Pages)] /\ \A k \in Orders : IsInjective(free_area[k])
    BY <1>2 DEF TypeOK, OnceInv
  <2>2. /\ page = Head(free_area[curr])
        /\ CarvedLists(free_area, free_area', page, order, curr)
    BY <1>3 DEF CarvedLists
  <2>3. /\ SplitsOf(page, order, curr) \subseteq Tile
        /\ SplitsOf(page, order, curr) \cap BlocksOn(free_area) = {}
    BY <1>7, <1>24, FreeBlocksAreOn
  <2>4. /\ \A k \in Orders : free_area'[k] \in Seq(Pages) /\ IsInjective(free_area'[k])
        /\ BlocksOn(free_area') = (BlocksOn(free_area) \ {[page |-> page, order |-> curr]})
                                     \cup SplitsOf(page, order, curr)
    BY <1>4, <2>1, <2>2, <2>3, AllocLists
  <2>5. free_area' \in [Orders -> Seq(Pages)]
    <3>1. free_area' = [k \in Orders |-> free_area'[k]]
      BY <1>3
    <3> QED BY <2>4, <3>1
  <2> QED BY <2>4, <2>5, FreeBlocksAreOn
<1>13. new \notin FreeBlocks' /\ new \notin Sp /\ PagesOf(new) \cap FreePageSet' = {}
  <2>1. new \notin Sp
    BY <1>7 DEF SplitsOf
  <2>2. \A t \in FreeBlocks' : t \in (FreeBlocks \ {c}) \cup N
    BY <1>12
  <2>3. new \notin FreeBlocks \ {c}
    BY <1>1, <1>9
  <2>4. new \notin FreeBlocks'
    BY <1>12, <2>1, <2>3
  <2> HIDE DEF new, c, Sp
  <2>5. \A t \in FreeBlocks' : PagesOf(new) \cap PagesOf(t) = {}
    BY <1>10, <2>2, <2>4 DEF Apart
  <2> QED BY <2>1, <2>4, <2>5 DEF FreePageSet
<1>14. AllBlocks' = (AllBlocks \ {c}) \cup N /\ FreeBlocks' \cap OwnedBlocks' = {}
  <2>1. AllBlocks' = FreeBlocks' \cup OwnedBlocks' /\ c \notin OwnedBlocks
    BY <1>1, <1>5 DEF AllBlocks
  <2>2. OwnedBlocks' = OwnedBlocks \cup {new}
    OBVIOUS
  <2> HIDE DEF new, c, Sp
  <2> QED BY <1>1, <1>9, <1>12, <1>13, <2>1, <2>2
<1>15. NoSharedPage' /\ TilingInv' /\ FreePageSet' \cup OwnedPageSet' = ZonePages
  <2> HIDE DEF N, c
  <2> QED BY <1>9, <1>14, TilesAfter
<1>16. FreePageSet' = FreePageSet \ Blk(page, order) /\ Blk(page, order) \subseteq FreePageSet
  <2>1. FreePageSet = PagesIn((FreeBlocks \ {c}) \cup N)
    BY <1>10 DEF FreePageSet, PagesIn
  <2>2. (FreeBlocks \ {c}) \cup N = FreeBlocks' \cup {new}
    BY <1>12
  <2>3. FreePageSet = FreePageSet' \cup PagesOf(new)
    <3> HIDE DEF new, c, N
    <3> QED BY <2>1, <2>2 DEF FreePageSet, PagesIn
  <2> QED BY <1>6, <1>13, <2>3
<1>17. TypeOK'
  <2>1. free_area' \in [Orders -> Seq(Pages)]
    BY <1>12
  <2>2. nr_free' \in [Orders -> Int]
    <3>1. \A k \in Orders : nr_free[k] \in Int
      BY <1>2 DEF TypeOK
    <3> QED BY <1>3, <3>1
  <2>3. free_pages' \in Int
    <3>1. free_pages \in Int /\ Pow2[order] \in Nat
      BY <1>2, PowPositive DEF TypeOK
    <3> QED BY <1>3, <3>1
  <2>4. busy' \subseteq Pages
    BY <1>2, <1>3 DEF TypeOK
  <2>5. private' \in [Pages -> Nat]
    <3>1. \A k \in order..(curr - 1) : k \in Nat
      BY <1>4
    <3>2. \A p \in Pages : private[p] \in Nat
      BY <1>2 DEF TypeOK
    <3>3. ASSUME NEW p \in Pages PROVE private'[p] \in Nat
      <4>1. CASE p = page
        BY <1>3, <1>4, <4>1
      <4>2. CASE p # page /\ \E k \in order..(curr - 1) : p = page + Pow2[k]
        <5>1. private'[p] = CHOOSE k \in order..(curr - 1) : p = page + Pow2[k]
          BY <1>3, <4>2
        <5>2. private'[p] \in order..(curr - 1)
          BY <4>2, <5>1
        <5> QED BY <3>1, <5>2
      <4>3. CASE p # page /\ ~\E k \in order..(curr - 1) : p = page + Pow2[k]
        BY <1>3, <3>2, <4>3
      <4> QED BY <4>1, <4>2, <4>3
    <3>4. private' = [p \in Pages |-> private'[p]]
      BY <1>3
    <3> QED BY <3>3, <3>4
  <2>6. booted' \in BOOLEAN /\ wild' \in BOOLEAN
    BY <1>2, <1>3 DEF TypeOK
  <2> QED BY <2>1, <2>2, <2>3, <2>4, <2>5, <2>6 DEF TypeOK
<1>18. free_pages' = Cardinality(FreePageSet')
  <2>1. FreePageSet \subseteq Pages
    BY <1>1 DEF FreePageSet, PagesIn
  <2>2. Cardinality(FreePageSet \ Blk(page, order)) = Cardinality(FreePageSet) - Pow2[order]
    BY <1>6, <1>16, <2>1, PagesCount
  <2>3. free_pages = Cardinality(FreePageSet)
    BY <1>2 DEF PagesConserved
  <2> QED BY <1>3, <1>16, <2>2, <2>3
<1>19. PagesConserved'
  BY <1>2, <1>3, <1>15, <1>17, <1>18 DEF PagesConserved
<1>20. \A b \in OwnedBlocks : b.page # page
  <2> SUFFICES ASSUME NEW b \in OwnedBlocks, b.page = page PROVE FALSE
    OBVIOUS
  <2>1. b \in AllBlocks /\ c \in AllBlocks /\ b # c
    BY <1>1, <1>5
  <2>2. page \in PagesOf(b) /\ c.page \in PagesOf(c) /\ c.page = page
    BY <1>1, <2>1, TileHasItsPage
  <2> HIDE DEF c
  <2> QED BY <1>1, <2>1, <2>2 DEF Apart
<1>21. ASSUME NEW t \in FreeBlocks \ {c} PROVE private'[t.page] = t.order
  <2>1. booted
    <3> SUFFICES ASSUME ~booted PROVE FALSE
      OBVIOUS
    <3>1. FreeBlocks = {[page |-> 0, order |-> MaxOrder]}
      BY <1>2, OneBlock DEF DescriptorsInv
    <3> HIDE DEF c
    <3> QED BY <1>5, <3>1
  <2>2. private[t.page] = t.order
    BY <1>2, <2>1 DEF DescriptorsInv
  <2>3. t \in AllBlocks /\ t \in Tile /\ t.page \in Pages /\ t.page \in PagesOf(t)
    BY <1>1, TileHasItsPage
  <2>4. ASSUME NEW n \in N PROVE n.page # t.page
    <3>1. n \in Tile /\ n.page \in PagesOf(n)
      BY <1>7, TileHasItsPage
    <3>2. n # t
      BY <1>9, <2>3
    <3> HIDE DEF N, c
    <3>3. PagesOf(n) \cap PagesOf(t) = {}
      BY <1>9, <2>3, <3>2 DEF Apart
    <3> QED BY <2>3, <3>1, <3>3
  <2>5. t.page # page /\ \A k \in order..(curr - 1) : t.page # page + Pow2[k]
    <3>1. new.page # t.page
      BY <2>4
    <3>2. \A k \in order..(curr - 1) : [page |-> page + Pow2[k], order |-> k].page # t.page
      BY <1>11, <2>4
    <3> QED BY <3>1, <3>2
  <2> QED BY <1>3, <2>2, <2>3, <2>5
<1>22. ASSUME NEW k \in order..(curr - 1) PROVE private'[page + Pow2[k]] = k
  <2>1. page + Pow2[k] \in Pages /\ page + Pow2[k] # page
    BY <1>7, <1>11
  <2>2. private'[page + Pow2[k]] = CHOOSE i \in order..(curr - 1) : page + Pow2[k] = page + Pow2[i]
    BY <1>3, <2>1
  <2> DEFINE z == CHOOSE i \in order..(curr - 1) : page + Pow2[k] = page + Pow2[i]
  <2>3. z \in order..(curr - 1) /\ page + Pow2[k] = page + Pow2[z]
    OBVIOUS
  <2> HIDE DEF z
  <2>4. z = k
    BY <1>7, <2>3
  <2> QED BY <2>2, <2>4 DEF z
<1>23. DescriptorsInv'
  <2>1. \A b \in FreeBlocks' : private'[b.page] = b.order
    BY <1>12, <1>21, <1>22 DEF SplitsOf
  <2>2. \A b \in OwnedBlocks' : b.page \in busy'
    BY <1>2, <1>3 DEF DescriptorsInv, BuddyInv
  <2> QED BY <2>1, <2>2 DEF DescriptorsInv
<1> QED BY <1>12, <1>15, <1>16, <1>19, <1>20, <1>23

\* What giving a block back keeps: the free tiles it is merged with and itself make way for
\* the one they make up, and no other owner's descriptor is touched.
LEMMA FreeKeeps ==
  ASSUME SmallZone, BuddyInv, booted, NEW b \in OwnedBlocks,
         PageFree(b.page, b.order), booted', held' \subseteq Owned,
         reserved' \subseteq [page : Pages, order : Orders],
         OwnedBlocks' = OwnedBlocks \ {b}
  PROVE  /\ PagesConserved' /\ NoSharedPage' /\ TilingInv' /\ DescriptorsInv'
         /\ \A k \in Orders : IsInjective(free_area[k])'
         /\ FreePageSet' = FreePageSet \cup PagesOf(b)
<1>1. /\ AllBlocks = FreeBlocks \cup OwnedBlocks /\ FreeBlocks \cap OwnedBlocks = {}
      /\ AllBlocks \subseteq Tile /\ Apart(AllBlocks) /\ PagesIn(AllBlocks) = Pages
  BY BlocksAreTiles
<1>2. TypeOK /\ PagesConserved /\ DescriptorsInv /\ OnceInv
  BY DEF BuddyInv, PagesConserved
<1> DEFINE page == b.page
           order == b.order
           q(k) == BuddyOf(MergedPage(page, order, k), k)
<1>3. /\ page \in Nat /\ page \in Pages /\ order \in Orders /\ PagesOf(b) = Blk(page, order)
      /\ page \in PagesOf(b)
  BY <1>1, TileHasItsPage
<1>4. PICK m \in Orders :
        /\ m = MergedOrder(page, order) /\ m \in order..MaxOrder
        /\ \A k \in order..(m - 1) : PageIsBuddy(q(k), k)
  BY <1>3, MergedOrderIs
<1>5. order <= m /\ order \in Nat /\ m \in Nat
  <2>1. order \in Nat /\ m \in Nat
    BY <1>3, <1>4, OrdersAre
  <2>2. m \in order..MaxOrder
    BY <1>4
  <2> HIDE DEF order
  <2> QED BY <2>1, <2>2
<1>6. PICK c : c = MergedPage(page, order, m)
  OBVIOUS
<1> DEFINE BB == BuddiesOf(page, order, m)
           new == [page |-> c, order |-> m]
           R == {b} \cup BB
<1>7. BB \subseteq FreeBlocks /\ Blk(c, m) = PagesIn(R) /\ new \in Tile
  BY <1>4, <1>5, <1>6, MergedTiles
<1>8. /\ free_area' = [k \in Orders |->
                         IF k \in order..(m - 1) THEN Unlink(free_area[k], q(k))
                         ELSE IF k = m THEN <<c>> \o free_area[k] ELSE free_area[k]]
      /\ nr_free' = [k \in Orders |->
                       IF k \in order..(m - 1) THEN nr_free[k] - 1
                       ELSE IF k = m THEN nr_free[k] + 1 ELSE nr_free[k]]
      /\ free_pages' = free_pages + Pow2[order]
      /\ busy' = busy \ ({q(k) : k \in order..(m - 1)} \cup {c})
      /\ private' = [p \in Pages |->
                       IF p = c THEN m
                       ELSE IF p \in {q(k) : k \in order..(m - 1)} THEN 0 ELSE private[p]]
      /\ wild' = (wild \/ \E k \in order..(m - 1) : q(k) \notin Listed(k))
  BY <1>4, <1>6 DEF PageFree
<1>9. /\ PagesOf(new) = Blk(c, m) /\ c \in PagesOf(new) /\ c \in Pages
  BY <1>7, TileHasItsPage DEF PagesOf, Blk
<1>10. PagesIn({new}) = PagesIn(R) /\ Apart({new}) /\ {new} \subseteq Tile
  BY <1>7, <1>9 DEF PagesIn, Apart
<1>11. /\ (AllBlocks \ R) \cup {new} \subseteq Tile /\ Apart((AllBlocks \ R) \cup {new})
       /\ PagesIn((AllBlocks \ R) \cup {new}) = Pages
       /\ {new} \cap (AllBlocks \ R) = {}
  <2>1. R \subseteq AllBlocks
    BY <1>1, <1>7
  <2> HIDE DEF R, new
  <2> QED BY <1>1, <1>10, <2>1, Replace
<1>12. new \notin FreeBlocks
  <2> SUFFICES ASSUME new \in FreeBlocks PROVE FALSE
    OBVIOUS
  <2>1. page \in PagesIn(R)
    BY <1>3 DEF PagesIn
  <2>2. page \in PagesOf(new)
    BY <1>7, <1>9, <2>1
  <2> HIDE DEF new
  <2>3. new # b /\ new \in AllBlocks /\ b \in AllBlocks
    BY <1>1
  <2> QED BY <1>1, <1>3, <2>2, <2>3 DEF Apart
<1>13. /\ free_area' \in [Orders -> Seq(Pages)] /\ \A k \in Orders : IsInjective(free_area'[k])
       /\ FreeBlocks' = (FreeBlocks \ BB) \cup {new}
  <2>1. free_area \in [Orders -> Seq(Pages)] /\ \A k \in Orders : IsInjective(free_area[k])
    BY <1>2 DEF TypeOK, OnceInv
  <2>2. MergedLists(free_area, free_area', page, order, m, c)
    BY <1>8 DEF MergedLists
  <2>3. /\ BuddiesOf(page, order, m) \subseteq BlocksOn(free_area)
        /\ [page |-> c, order |-> m] \notin BlocksOn(free_area)
    BY <1>7, <1>12, FreeBlocksAreOn
  <2>4. /\ \A k \in Orders : free_area'[k] \in Seq(Pages) /\ IsInjective(free_area'[k])
        /\ BlocksOn(free_area') = (BlocksOn(free_area) \ BuddiesOf(page, order, m))
                                     \cup {[page |-> c, order |-> m]}
    BY <1>3, <1>5, <1>9, <2>1, <2>2, <2>3, FreeLists
  <2>5. free_area' \in [Orders -> Seq(Pages)]
    <3>1. free_area' = [k \in Orders |-> free_area'[k]]
      BY <1>8
    <3> QED BY <2>4, <3>1
  <2> QED BY <2>4, <2>5, FreeBlocksAreOn
<1>14. AllBlocks' = (AllBlocks \ R) \cup {new} /\ FreeBlocks' \cap OwnedBlocks' = {}
  <2>1. AllBlocks' = FreeBlocks' \cup OwnedBlocks'
    BY DEF AllBlocks
  <2>2. b \notin FreeBlocks /\ BB \cap OwnedBlocks = {}
    BY <1>1, <1>7
  <2> HIDE DEF new, BB
  <2> QED BY <1>1, <1>7, <1>11, <1>13, <2>1, <2>2
<1>15. NoSharedPage' /\ TilingInv' /\ FreePageSet' \cup OwnedPageSet' = ZonePages
  <2> HIDE DEF R, new
  <2> QED BY <1>11, <1>14, TilesAfter
<1>16. FreePageSet' = FreePageSet \cup PagesOf(b) /\ PagesOf(b) \cap FreePageSet = {}
  <2>1. FreePageSet = PagesIn(FreeBlocks \ BB) \cup PagesIn(BB)
    BY <1>7 DEF FreePageSet, PagesIn
  <2>2. FreePageSet' = PagesIn(FreeBlocks \ BB) \cup PagesOf(new)
    <3> HIDE DEF new, BB
    <3> QED BY <1>13 DEF FreePageSet, PagesIn
  <2>3. PagesOf(new) = PagesOf(b) \cup PagesIn(BB)
    <3> HIDE DEF new, BB
    <3> QED BY <1>7, <1>9 DEF PagesIn
  <2>4. \A t \in FreeBlocks : PagesOf(b) \cap PagesOf(t) = {}
    BY <1>1 DEF Apart
  <2>5. PagesOf(b) \cap FreePageSet = {}
    BY <2>4 DEF FreePageSet
  <2> HIDE DEF new, BB
  <2> QED BY <2>1, <2>2, <2>3, <2>5
<1>17. \A k \in order..(m - 1) :
         /\ k \in Orders /\ [page |-> q(k), order |-> k] \in BB
         /\ [page |-> q(k), order |-> k] \in FreeBlocks /\ q(k) \in Listed(k)
  <2> TAKE k \in order..(m - 1)
  <2>1. [page |-> q(k), order |-> k] \in BB /\ k \in Orders
    BY <1>5, OrdersAre DEF BuddiesOf, Orders
  <2>2. [page |-> q(k), order |-> k] \in FreeBlocks
    BY <1>7, <2>1
  <2> HIDE DEF q, BB
  <2> QED BY <2>1, <2>2, OnList, FreeBlocksAreOn DEF Listed
<1>18. wild' = wild
  <2>1. ~\E k \in order..(m - 1) : q(k) \notin Listed(k)
    BY <1>17
  <2>2. wild' = (wild \/ \E k \in order..(m - 1) : q(k) \notin Listed(k))
    BY <1>8
  <2>3. wild \in BOOLEAN
    BY <1>2 DEF TypeOK
  <2> HIDE DEF q, order
  <2> QED BY <2>1, <2>2, <2>3, Zenon
<1>19. TypeOK'
  <2>1. nr_free' \in [Orders -> Int]
    <3>1. \A k \in Orders : nr_free[k] \in Int
      BY <1>2 DEF TypeOK
    <3> QED BY <1>8, <3>1
  <2>2. free_pages' \in Int
    <3>1. free_pages \in Int /\ Pow2[order] \in Nat
      BY <1>2, <1>3, PowPositive DEF TypeOK
    <3> QED BY <1>8, <3>1
  <2>3. busy' \subseteq Pages
    BY <1>2, <1>8 DEF TypeOK
  <2>4. private' \in [Pages -> Nat]
    <3>1. \A p \in Pages : private[p] \in Nat
      BY <1>2 DEF TypeOK
    <3> QED BY <1>5, <1>8, <3>1
  <2>5. booted' \in BOOLEAN /\ wild' \in BOOLEAN
    BY <1>2, <1>18 DEF TypeOK
  <2> QED BY <1>13, <2>1, <2>2, <2>3, <2>4, <2>5 DEF TypeOK
<1>20. free_pages' = Cardinality(FreePageSet')
  <2>1. FreePageSet \subseteq Pages
    BY <1>1 DEF FreePageSet, PagesIn
  <2>2. Blk(page, order) \cap FreePageSet = {}
    BY <1>3, <1>16
  <2>3. Cardinality(FreePageSet \cup Blk(page, order)) = Cardinality(FreePageSet) + Pow2[order]
    BY <1>3, <2>1, <2>2, PagesCount
  <2>4. free_pages = Cardinality(FreePageSet)
    BY <1>2 DEF PagesConserved
  <2> QED BY <1>3, <1>8, <1>16, <2>3, <2>4
<1>21. PagesConserved'
  BY <1>2, <1>15, <1>18, <1>19, <1>20 DEF PagesConserved
<1>22. ASSUME NEW t \in AllBlocks \ R
       PROVE  t.page \in Pages /\ t.page # c /\ t.page \notin {q(k) : k \in order..(m - 1)}
  <2>1. t \in Tile /\ t.page \in PagesOf(t) /\ t.page \in Pages
    BY <1>1, TileHasItsPage
  <2>2. t.page # c
    <3> HIDE DEF new, R
    <3>1. t # new /\ t \in (AllBlocks \ R) \cup {new} /\ new \in (AllBlocks \ R) \cup {new}
      BY <1>11
    <3>2. PagesOf(t) \cap PagesOf(new) = {}
      BY <1>11, <3>1 DEF Apart
    <3> QED BY <1>9, <2>1, <3>2
  <2>3. ASSUME NEW k \in order..(m - 1) PROVE t.page # q(k)
    <3>1. PICK h \in BB : h = [page |-> q(k), order |-> k]
      BY <1>17
    <3>2. h \in AllBlocks /\ h \in Tile /\ h # t
      BY <1>1, <1>7, <3>1
    <3>3. h.page \in PagesOf(h) /\ h.page = q(k)
      BY <3>1, <3>2, TileHasItsPage
    <3> HIDE DEF q, BB, R
    <3> QED BY <1>1, <2>1, <3>2, <3>3 DEF Apart
  <2> QED BY <2>1, <2>2, <2>3
<1>23. DescriptorsInv'
  <2>1. ASSUME NEW t \in FreeBlocks' PROVE private'[t.page] = t.order
    <3>1. CASE t = new
      BY <1>8, <1>9, <3>1
    <3>2. CASE t # new
      <4>1. t \in FreeBlocks \ BB /\ t \in AllBlocks \ R
        BY <1>1, <1>13, <3>2
      <4>2. private[t.page] = t.order
        BY <1>2, <4>1 DEF DescriptorsInv
      <4>3. t.page \in Pages /\ t.page # c /\ t.page \notin {q(k) : k \in order..(m - 1)}
        BY <1>22, <4>1
      <4> QED BY <1>8, <4>2, <4>3
    <3> QED BY <3>1, <3>2
  <2>2. ASSUME NEW t \in OwnedBlocks' PROVE t.page \in busy'
    <3>1. t \in OwnedBlocks /\ t \in AllBlocks \ R
      BY <1>1, <1>7
    <3>2. t.page \in busy
      BY <1>2, <3>1 DEF DescriptorsInv
    <3> QED BY <1>8, <1>22, <3>1, <3>2
  <2> QED BY <2>1, <2>2 DEF DescriptorsInv
<1> QED BY <1>13, <1>15, <1>16, <1>21, <1>23

-----------------------------------------------------------------------------
(***************************************************************************)
(* Every step keeps the invariant and is one of AbstractAllocator.         *)
(***************************************************************************)

LEMMA AbstractAlloc ==
  ASSUME SmallZone, NEW order \in Orders, NEW page \in Pages,
         Blk(page, order) \subseteq FreePageSet,
         FreePageSet' = FreePageSet \ Blk(page, order),
         OwnedBlocks' = OwnedBlocks \cup {[page |-> page, order |-> order]}
  PROVE  Abstract!Next
<1> DEFINE n == Pow2[order]
           O == {[start |-> b.page, size |-> Pow2[b.order]] : b \in OwnedBlocks}
<1>1. Abstract!Run(page, n) = Blk(page, order)
  BY DEF Abstract!Run, Blk
<1>2. page \in FreePageSet
  BY OneBlock, PowPositive DEF Blk
<1>3. {[start |-> b.page, size |-> Pow2[b.order]] : b \in OwnedBlocks'}
        = O \cup {[start |-> page, size |-> n]}
  <2> DEFINE Place(h) == [start |-> h.page, size |-> Pow2[h.order]]
             new == [page |-> page, order |-> order]
  <2>1. Place(new) = [start |-> page, size |-> n]
    OBVIOUS
  <2>2. OwnedBlocks' = OwnedBlocks \cup {new}
    OBVIOUS
  <2> HIDE DEF Place, new
  <2>3. {Place(b) : b \in OwnedBlocks'} = {Place(b) : b \in OwnedBlocks} \cup {Place(new)}
    BY <2>2
  <2> QED BY <2>1, <2>3 DEF Place
<1>4. n \in {Pow2[k] : k \in Orders}
  OBVIOUS
<1> HIDE DEF n, O
<1>5. Abstract!Alloc(n)
  BY <1>1, <1>2, <1>3 DEF Abstract!Alloc, O
<1> QED BY <1>4, <1>5 DEF Abstract!Next

LEMMA AbstractFree ==
  ASSUME SmallZone, BuddyInv, NEW b \in OwnedBlocks,
         FreePageSet' = FreePageSet \cup PagesOf(b), OwnedBlocks' = OwnedBlocks \ {b}
  PROVE  Abstract!Next
<1> DEFINE Place(h) == [start |-> h.page, size |-> Pow2[h.order]]
           O == {Place(h) : h \in OwnedBlocks}
<1>1. Abstract!Run(Place(b).start, Place(b).size) = PagesOf(b)
  BY DEF Abstract!Run, PagesOf
<1>2. ASSUME NEW h \in OwnedBlocks, h # b PROVE Place(h) # Place(b)
  <2>1. h \in Tile /\ b \in Tile /\ PagesOf(h) \cap PagesOf(b) = {}
    BY <1>2, BlocksAreTiles DEF Apart
  <2>2. h.page \in PagesOf(h) /\ b.page \in PagesOf(b)
    BY <2>1, TileHasItsPage
  <2>3. h.page # b.page
    BY <2>1, <2>2
  <2>4. Place(h).start = h.page /\ Place(b).start = b.page
    OBVIOUS
  <2> QED BY <2>3, <2>4
<1> HIDE DEF Place
<1>3. {Place(h) : h \in OwnedBlocks'} = O \ {Place(b)}
  BY <1>2
<1>4. Place(b) \in O
  OBVIOUS
<1>5. Abstract!Free(Place(b))
  BY <1>1, <1>3 DEF Abstract!Free, Place
<1>6. Place(b) \in {[start |-> h.page, size |-> Pow2[h.order]] : h \in OwnedBlocks}
  BY <1>4 DEF Place
<1> QED BY <1>5, <1>6 DEF Abstract!Next

LEMMA PagesToOrderIs ==
  ASSUME NEW pages \in SysSizes
  PROVE  PagesToOrder(pages) \in Orders
<1> DEFINE S == {k \in Orders : pages <= Pow2[k]}
           P(k) == pages <= Pow2[k] /\ \A j \in 0..(k - 1) : Pow2[j] < pages
<1>1. pages \in Nat /\ pages <= Pow2[MaxOrder]
  <2>1. BIGGEST_SIZE \in Nat
    BY PowPositive, OrdersAre DEF BIGGEST_SIZE
  <2> QED BY <2>1, SysSizesAssumption DEF BIGGEST_SIZE
<1>2. S \subseteq Nat /\ S # {}
  BY <1>1, OrdersAre
<1>3. PICK k \in S : \A n \in S : k <= n
  BY <1>2, Least
<1>4. ASSUME NEW j \in 0..(k - 1) PROVE Pow2[j] < pages
  <2>1. j \in Orders /\ j < k
    BY OrdersAre DEF Orders
  <2>2. j \notin S
    BY <1>3, <2>1, OrdersAre
  <2> QED BY <1>1, <2>1, <2>2, PowPositive
<1>5. k \in Orders /\ P(k)
  BY <1>4
<1>6. PagesToOrder(pages) = CHOOSE i \in Orders : P(i)
  BY DEF PagesToOrder
<1> HIDE DEF P
<1> QED BY <1>5, <1>6

\* The owner of a new block is no owner of another.
LEMMA NewOwner ==
  ASSUME BuddyInv, NEW order \in Orders, NEW page \in Pages, NEW sys \in BOOLEAN, SmallZone,
         PageAlloc(order, page), booted, booted' = booted, reserved' = reserved,
         held' = held \cup {[page |-> page, order |-> order, sys |-> sys]}
  PROVE  BuddyInv' /\ Abstract!Next
<1> DEFINE h == [page |-> page, order |-> order, sys |-> sys]
<1>0. TypeOK /\ OnceInv
  BY DEF BuddyInv, PagesConserved
<1>1. page # NoPage /\ h.page = page /\ h.order = order /\ h \in Owned
  BY OneBlock DEF NoPage, Owned
<1>2. held' \subseteq Owned /\ reserved' \subseteq [page : Pages, order : Orders] /\ booted'
  BY <1>0, <1>1 DEF TypeOK
<1>3. OwnedBlocks' = OwnedBlocks \cup {[page |-> page, order |-> order]}
  <2>1. {g \in held' : g.page # NoPage} = {g \in held : g.page # NoPage} \cup {h}
    BY <1>1
  <2> HIDE DEF h
  <2> QED BY <1>1, <2>1 DEF OwnedBlocks
<1>4. /\ PagesConserved' /\ NoSharedPage' /\ TilingInv' /\ DescriptorsInv'
      /\ \A k \in Orders : IsInjective(free_area[k])'
      /\ \A b \in OwnedBlocks : b.page # page
      /\ Blk(page, order) \subseteq FreePageSet
      /\ FreePageSet' = FreePageSet \ Blk(page, order)
  BY <1>2, <1>3, AllocKeeps
<1>5. \A g \in held : g.page # page
  <2> TAKE g \in held
  <2>1. CASE g.page = NoPage
    BY <1>1, <2>1
  <2>2. CASE g.page # NoPage
    <3>1. [page |-> g.page, order |-> g.order] \in OwnedBlocks
      BY <2>2 DEF OwnedBlocks
    <3> QED BY <1>4, <3>1
  <2> QED BY <2>1, <2>2
<1>6. \A r \in reserved : r.page # page
  BY <1>4 DEF OwnedBlocks
<1>7. OnceInv'
  <2> HIDE DEF h
  <2>1. \A g, f \in held' : (g.page = f.page /\ g.page # NoPage) => g = f
    BY <1>0, <1>1, <1>5 DEF OnceInv, h
  <2>2. \A r \in reserved', f \in held' : r.page # f.page
    BY <1>0, <1>1, <1>6 DEF OnceInv, h
  <2>3. \A f \in held' : f.page = NoPage => f.sys
    BY <1>0, <1>1 DEF OnceInv, h
  <2> QED BY <1>4, <2>1, <2>2, <2>3 DEF OnceInv
<1>8. Abstract!Next
  BY <1>3, <1>4, AbstractAlloc
<1> QED BY <1>4, <1>7, <1>8 DEF BuddyInv

\* Giving a block back.
LEMMA OldOwner ==
  ASSUME SmallZone, BuddyInv, NEW h \in held, h.page # NoPage, PageFree(h.page, h.order),
         held' = held \ {h}, booted' = booted, reserved' = reserved
  PROVE  BuddyInv' /\ Abstract!Next
<1> DEFINE b == [page |-> h.page, order |-> h.order]
<1>0. TypeOK /\ OnceInv /\ DescriptorsInv
  BY DEF BuddyInv, PagesConserved
<1>1. booted /\ booted' /\ b \in OwnedBlocks /\ b.page = h.page /\ b.order = h.order
  BY <1>0 DEF DescriptorsInv, OwnedBlocks
<1>2. held' \subseteq Owned /\ reserved' \subseteq [page : Pages, order : Orders]
  BY <1>0 DEF TypeOK
<1>3. OwnedBlocks' = OwnedBlocks \ {b}
  <2>1. \A g \in held : g.page # NoPage /\ g # h => [page |-> g.page, order |-> g.order] # b
    BY <1>0 DEF OnceInv
  <2>2. \A r \in reserved : r # b
    BY <1>0, <1>1 DEF OnceInv
  <2>3. ASSUME NEW o \in OwnedBlocks' PROVE o \in OwnedBlocks \ {b}
    BY <2>1, <2>2 DEF OwnedBlocks
  <2>4. ASSUME NEW o \in OwnedBlocks, o # b PROVE o \in OwnedBlocks'
    BY <2>4 DEF OwnedBlocks
  <2> QED BY <2>3, <2>4
<1> HIDE DEF b
<1>4. /\ PagesConserved' /\ NoSharedPage' /\ TilingInv' /\ DescriptorsInv'
      /\ \A k \in Orders : IsInjective(free_area[k])'
      /\ FreePageSet' = FreePageSet \cup PagesOf(b)
  BY <1>1, <1>2, <1>3, FreeKeeps
<1>5. OnceInv'
  BY <1>0, <1>4 DEF OnceInv
<1>6. Abstract!Next
  BY <1>1, <1>3, <1>4, AbstractFree
<1> QED BY <1>4, <1>5, <1>6 DEF BuddyInv

LEMMA BuddyStep ==
  ASSUME SmallZone, BuddyInv, RightOrders, [Next]_vars
  PROVE  BuddyInv' /\ [Abstract!Next]_(Abstract!vars)
<1>0. TypeOK /\ OnceInv /\ DescriptorsInv
  BY DEF BuddyInv, PagesConserved
<1>1. CASE Reserve
  <2>1. PICK page \in Pages :
          PageAlloc(DescOrder, page) /\ reserved' = {[page |-> page, order |-> DescOrder]}
    BY <1>1 DEF Reserve
  <2>2. /\ DescOrder \in Orders /\ booted' /\ held = {} /\ held' = {} /\ OwnedBlocks = {}
    BY <1>0, <1>1, OrdersAssumption DEF Reserve, DescriptorsInv, OwnedBlocks
  <2>3. OwnedBlocks' = OwnedBlocks \cup {[page |-> page, order |-> DescOrder]}
    BY <2>1, <2>2 DEF OwnedBlocks
  <2>4. held' \subseteq Owned /\ reserved' \subseteq [page : Pages, order : Orders]
    BY <2>1, <2>2
  <2>5. /\ PagesConserved' /\ NoSharedPage' /\ TilingInv' /\ DescriptorsInv'
        /\ \A k \in Orders : IsInjective(free_area[k])'
        /\ Blk(page, DescOrder) \subseteq FreePageSet
        /\ FreePageSet' = FreePageSet \ Blk(page, DescOrder)
    BY <2>1, <2>2, <2>3, <2>4, AllocKeeps
  <2>6. OnceInv'
    BY <2>2, <2>5 DEF OnceInv
  <2>7. Abstract!Next
    BY <2>2, <2>3, <2>5, AbstractAlloc
  <2> QED BY <2>5, <2>6, <2>7 DEF BuddyInv
<1>2. CASE \E order \in PageOrders : AllocPages(order)
  <2>1. PICK order \in PageOrders, page \in Pages :
          /\ booted /\ booted' = booted /\ reserved' = reserved /\ PageAlloc(order, page)
          /\ held' = held \cup {[page |-> page, order |-> order, sys |-> FALSE]}
    BY <1>2 DEF AllocPages
  <2>2. order \in Orders
    BY OrdersAssumption
  <2> QED BY <2>1, <2>2, NewOwner
<1>3. CASE \E pages \in SysSizes : SysAlloc(pages)
  <2>1. PICK order \in Orders, page \in Pages :
          /\ booted /\ booted' = booted /\ reserved' = reserved /\ PageAlloc(order, page)
          /\ held' = held \cup {[page |-> page, order |-> order, sys |-> TRUE]}
    BY <1>3, PagesToOrderIs DEF SysAlloc
  <2> QED BY <2>1, NewOwner
<1>4. CASE \E pages \in SysSizes : SysAllocNull(pages)
  <2>1. PICK order \in Orders :
          /\ UNCHANGED <<zone, booted, reserved>>
          /\ held' = held \cup {[page |-> NoPage, order |-> order, sys |-> TRUE]} /\ booted
    BY <1>4, PagesToOrderIs DEF SysAllocNull
  <2> DEFINE h == [page |-> NoPage, order |-> order, sys |-> TRUE]
  <2>2. h \in Owned /\ h.page = NoPage
    BY DEF Owned
  <2>3. {g \in held' : g.page # NoPage} = {g \in held : g.page # NoPage}
    BY <2>1, <2>2
  <2>4. OwnedBlocks' = OwnedBlocks
    BY <2>1, <2>3 DEF OwnedBlocks
  <2>5. UNCHANGED <<free_area, nr_free, free_pages, busy, private, wild, booted, reserved>>
    BY <2>1 DEF zone
  <2>6. /\ FreeBlocks' = FreeBlocks /\ FreePageSet' = FreePageSet
        /\ OwnedPageSet' = OwnedPageSet /\ AllBlocks' = AllBlocks
    BY <2>4, <2>5 DEF FreeBlocks, FreePageSet, OwnedPageSet, AllBlocks, Listed
  <2>7. TypeOK'
    BY <1>0, <2>1, <2>2, <2>5 DEF TypeOK
  <2>8. PagesConserved' /\ NoSharedPage' /\ TilingInv'
    BY <2>4, <2>5, <2>6, <2>7 DEF BuddyInv, PagesConserved, NoSharedPage, TilingInv
  <2>9. NoPage \notin Pages /\ \A r \in reserved : r.page \in Pages
    BY <1>0, OneBlock DEF TypeOK, NoPage
  <2>10. OnceInv'
    <3> HIDE DEF h
    <3>1. \A g, f \in held' : (g.page = f.page /\ g.page # NoPage) => g = f
      BY <1>0, <2>1, <2>2 DEF OnceInv, h
    <3>2. \A r \in reserved', f \in held' : r.page # f.page
      BY <1>0, <2>1, <2>2, <2>9 DEF OnceInv, h
    <3>3. \A f \in held' : f.page = NoPage => f.sys
      BY <1>0, <2>1 DEF OnceInv
    <3> QED BY <1>0, <2>5, <3>1, <3>2, <3>3 DEF OnceInv
  <2>11. DescriptorsInv'
    BY <1>0, <2>1, <2>4, <2>5, <2>6 DEF DescriptorsInv
  <2>12. UNCHANGED Abstract!vars
    BY <2>4, <2>6 DEF Abstract!vars
  <2> QED BY <2>8, <2>10, <2>11, <2>12 DEF BuddyInv
<1>5. CASE \E b \in held : FreePages(b)
  <2>1. PICK b \in held :
          /\ ~b.sys /\ PageFree(b.page, b.order)
          /\ held' = held \ {b} /\ booted' = booted /\ reserved' = reserved
    BY <1>5 DEF FreePages
  <2>2. b.page # NoPage
    BY <1>0, <2>1 DEF OnceInv
  <2> QED BY <2>1, <2>2, OldOwner
<1>6. CASE \E b \in held : SysFree(b)
  <2>1. PICK b \in held :
          /\ b.sys /\ b.page # NoPage /\ PageFree(b.page, private[b.page])
          /\ held' = held \ {b} /\ booted' = booted /\ reserved' = reserved
    BY <1>6 DEF SysFree
  <2>2. PageFree(b.page, b.order)
    BY <2>1 DEF RightOrders
  <2> QED BY <2>1, <2>2, OldOwner
<1>7. CASE UNCHANGED vars
  <2>1. UNCHANGED <<free_area, nr_free, free_pages, busy, private, wild, booted, reserved, held>>
    BY <1>7 DEF vars, zone
  <2>2. UNCHANGED <<FreeBlocks, OwnedBlocks, FreePageSet, OwnedPageSet, AllBlocks>>
    BY <2>1 DEF FreeBlocks, FreePageSet, OwnedPageSet, AllBlocks, Listed, OwnedBlocks
  <2>3. TypeOK'
    BY <1>0, <2>1 DEF TypeOK
  <2>4. BuddyInv'
    BY <2>1, <2>2, <2>3
    DEF BuddyInv, PagesConserved, NoSharedPage, TilingInv, OnceInv, DescriptorsInv
  <2>5. UNCHANGED Abstract!vars
    BY <2>2 DEF Abstract!vars
  <2> QED BY <2>4, <2>5
<1> QED BY <1>1, <1>2, <1>3, <1>4, <1>5, <1>6, <1>7 DEF Next

LEMMA BuddyBegins ==
  ASSUME SmallZone, Init
  PROVE  BuddyInv /\ Abstract!Init
<1> DEFINE top == [page |-> 0, order |-> MaxOrder]
<1>1. /\ BIGGEST_SIZE \in Nat \ {0} /\ Pow2[MaxOrder] = BIGGEST_SIZE
      /\ BiggestCount = 1 /\ TopPages = {0} /\ Pages = 0..(BIGGEST_SIZE - 1)
      /\ ZonePages = Pages /\ Pages = Blk(0, MaxOrder) /\ Aligned(0, MaxOrder)
  BY OneBlock
<1>2. MaxOrder \in Nat /\ MaxOrder \in Orders /\ 0 \in Pages
  BY <1>1, OrdersAre
<1> DEFINE one == [i \in 1..1 |-> i - 1]
<1>3. one \in Seq(Pages) /\ IsInjective(one) /\ Range(one) = {0}
  <2>1. one \in [1..1 -> Pages] /\ DOMAIN one = 1..1 /\ one[1] = 0 /\ 1..1 = {1}
    BY <1>2
  <2>2. one \in Seq(Pages)
    BY <2>1, IsASeq
  <2> HIDE DEF one
  <2> QED BY <2>1, <2>2 DEF IsInjective, Range
<1>4. /\ <<>> \in Seq(Pages) /\ IsInjective(<<>>) /\ Range(<<>>) = {}
  BY DEF IsInjective, Range
<1>5. \A k \in Orders : free_area[k] = IF k = MaxOrder THEN one ELSE <<>>
  BY <1>1 DEF Init
<1> HIDE DEF one
<1>6. /\ free_area \in [Orders -> Seq(Pages)] /\ \A k \in Orders : IsInjective(free_area[k])
      /\ FreeBlocks = {top}
  <2>1. free_area \in [Orders -> Seq(Pages)]
    <3>1. free_area = [k \in Orders |-> free_area[k]]
      BY DEF Init
    <3> QED BY <1>3, <1>4, <1>5, <3>1
  <2>2. \A k \in Orders : \A p : p \in Range(free_area[k]) <=> [page |-> p, order |-> k] \in {top}
    BY <1>2, <1>3, <1>4, <1>5
  <2>3. \A b \in {top} : \E k \in Orders : \E p : b = [page |-> p, order |-> k]
    BY <1>2
  <2> HIDE DEF top
  <2>4. BlocksOn(free_area) = {top}
    BY <2>2, <2>3, BlocksOnAre
  <2> QED BY <1>3, <1>4, <1>5, <2>1, <2>4, FreeBlocksAreOn
<1>7. OwnedBlocks = {} /\ AllBlocks = {top} /\ PagesOf(top) = Pages
  BY <1>1, <1>6 DEF OwnedBlocks, AllBlocks, Init, PagesOf, Blk
<1>8. FreePageSet = Pages /\ OwnedPageSet = {}
  BY <1>6, <1>7 DEF FreePageSet, OwnedPageSet
<1>9. TypeOK
  <2>1. nr_free \in [Orders -> Int] /\ free_pages \in Int
    BY <1>1 DEF Init
  <2>2. busy \subseteq Pages
    BY JunkAssumption DEF Init
  <2>3. private \in [Pages -> Nat]
    <3>1. PICK junk \in JunkOrders :
            private = [p \in Pages |-> IF p \in TopPages THEN BIGGEST_SIZE ELSE junk]
      BY DEF Init
    <3>2. junk \in Nat
      BY OrdersAssumption
    <3> QED BY <1>1, <3>1, <3>2
  <2> QED BY <1>6, <2>1, <2>2, <2>3 DEF TypeOK, Init
<1>10. free_pages = Cardinality(FreePageSet)
  <2>1. Cardinality(0..(BIGGEST_SIZE - 1)) = BIGGEST_SIZE
    BY <1>1, FS_Interval
  <2> QED BY <1>1, <1>8, <2>1 DEF Init
<1>11. PagesConserved
  BY <1>1, <1>8, <1>9, <1>10 DEF PagesConserved, Init
<1>12. NoSharedPage
  BY <1>6, <1>7 DEF NoSharedPage
<1>13. TilingInv
  <2>1. top.page % Pow2[top.order] = 0
    BY <1>1 DEF Aligned
  <2> QED BY <1>7, <2>1 DEF TilingInv
<1>14. OnceInv
  BY <1>6 DEF OnceInv, Init
<1>15. DescriptorsInv
  BY <1>1, <1>6, <1>7 DEF DescriptorsInv, Init
<1>16. Abstract!Init
  BY <1>1, <1>7, <1>8 DEF Abstract!Init
<1> QED BY <1>11, <1>12, <1>13, <1>14, <1>15, <1>16 DEF BuddyInv

-----------------------------------------------------------------------------
(***************************************************************************)
(* The theorems.                                                           *)
(***************************************************************************)

\* Whatever is allocated and freed (kernel/page/phypage.c), the blocks on the lists and
\* with callers tile the zone, and the descriptors tell which are free.
THEOREM BuddyInductive ==
  ASSUME SmallZone
  PROVE  Spec /\ []RightOrders => []BuddyInv
<1>1. Init => BuddyInv
  BY BuddyBegins
<1>2. BuddyInv /\ RightOrders /\ [Next]_vars => BuddyInv'
  BY BuddyStep
<1> QED BY <1>1, <1>2, PTL DEF Spec

\* However blocks are split and merged and whatever the descriptors held at boot, no page
\* frame belongs to two blocks.
THEOREM PagesNotShared ==
  ASSUME SmallZone
  PROVE  Spec /\ []RightOrders => []NoSharedPage
<1>1. BuddyInv => NoSharedPage
  BY DEF BuddyInv
<1> QED BY <1>1, BuddyInductive, PTL

\* No page frame is lost, zone.free_pages counts those on the lists, and page_is_buddy
\* never has a descriptor unlinked that is on no list.
THEOREM PagesAreConserved ==
  ASSUME SmallZone
  PROVE  Spec /\ []RightOrders => []PagesConserved
<1>1. BuddyInv => PagesConserved
  BY DEF BuddyInv
<1> QED BY <1>1, BuddyInductive, PTL

\* To its callers the zone hands out runs of pages nobody else owns.
THEOREM BuddyRefines ==
  ASSUME SmallZone
  PROVE  Spec /\ []RightOrders => RefinesAllocator
<1>1. Init => Abstract!Init
  BY BuddyBegins
<1>2. BuddyInv /\ RightOrders /\ [Next]_vars => [Abstract!Next]_(Abstract!vars)
  BY BuddyStep
<1> QED BY <1>1, <1>2, BuddyInductive, PTL DEF Spec, RefinesAllocator, Abstract!Spec

\* Callers of page_alloc and page_free alone need no promise: all of the above holds of them.
THEOREM PageCallersSafe ==
  ASSUME SmallZone, SysSizes = {}
  PROVE  Spec => []NoSharedPage /\ []PagesConserved /\ RefinesAllocator
<1> DEFINE NoSys == \A b \in held : ~b.sys
<1>1. Init => NoSys
  BY DEF Init
<1>2. NoSys /\ [Next]_vars => NoSys'
  <2> SUFFICES ASSUME NoSys, [Next]_vars PROVE NoSys'
    OBVIOUS
  <2>1. CASE Reserve
    BY <2>1 DEF Reserve
  <2>2. CASE \E order \in PageOrders : AllocPages(order)
    <3>1. PICK order \in PageOrders, page \in Pages :
            held' = held \cup {[page |-> page, order |-> order, sys |-> FALSE]}
      BY <2>2 DEF AllocPages
    <3> QED BY <3>1
  <2>3. CASE \E b \in held : FreePages(b) \/ SysFree(b)
    BY <2>3 DEF FreePages, SysFree
  <2>4. CASE UNCHANGED vars
    BY <2>4 DEF vars
  <2> QED BY <2>1, <2>2, <2>3, <2>4 DEF Next
<1>3. NoSys => RightOrders
  BY DEF RightOrders
<1>4. Spec => []RightOrders
  BY <1>1, <1>2, <1>3, PTL DEF Spec
<1> QED BY <1>4, PagesNotShared, PagesAreConserved, BuddyRefines, PTL
=============================================================================
