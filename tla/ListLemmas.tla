------------------------------ MODULE ListLemmas ------------------------------
(***************************************************************************)
(* Facts about the two sequence operations a doubly linked list of the     *)
(* kernel amounts to when only the order of its nodes matters: unlinking   *)
(* the k-th node (list_unlink) is RemoveAt, linking a node before          *)
(* position k (list_add, list_addtail, list_insert) is InsertAt.           *)
(***************************************************************************)
EXTENDS Integers, Sequences, SequencesExt, SequenceTheorems, TLAPS

\* Unlinking the k-th node shifts the nodes behind it by one place.
LEMMA RemoveAtProps ==
  ASSUME NEW S, NEW s \in Seq(S), NEW k \in 1..Len(s)
  PROVE  /\ RemoveAt(s, k) \in Seq(S)
         /\ Len(RemoveAt(s, k)) = Len(s) - 1
         /\ \A i \in 1..(Len(s) - 1) :
              RemoveAt(s, k)[i] = IF i < k THEN s[i] ELSE s[i + 1]
<1> DEFINE a == SubSeq(s, 1, k - 1)
           b == SubSeq(s, k + 1, Len(s))
<1>0. Len(s) \in Nat /\ \A i \in 1..Len(s) : s[i] \in S
  BY ElementOfSeq, LenProperties
<1>1. /\ a \in Seq(S)
      /\ Len(a) = k - 1
      /\ \A i \in 1..(k - 1) : a[i] = s[i]
  <2>1. \A i \in 1..(k - 1) : s[i] \in S
    BY <1>0
  <2>2. /\ a \in Seq(S)
        /\ Len(a) = IF 1 <= k - 1 THEN (k - 1) - 1 + 1 ELSE 0
        /\ \A i \in 1..((k - 1) - 1 + 1) : a[i] = s[1 + i - 1]
    BY <1>0, <2>1, SubSeqProperties
  <2> QED BY <1>0, <2>2
<1>2. /\ b \in Seq(S)
      /\ Len(b) = Len(s) - k
      /\ \A i \in 1..(Len(s) - k) : b[i] = s[k + i]
  <2>1. \A i \in (k + 1)..Len(s) : s[i] \in S
    BY <1>0
  <2>2. /\ b \in Seq(S)
        /\ Len(b) = IF k + 1 <= Len(s) THEN Len(s) - (k + 1) + 1 ELSE 0
        /\ \A i \in 1..(Len(s) - (k + 1) + 1) : b[i] = s[(k + 1) + i - 1]
    BY <1>0, <2>1, SubSeqProperties
  <2> QED BY <1>0, <2>2
<1>3. RemoveAt(s, k) = a \o b
  BY DEF RemoveAt
<1> HIDE DEF a, b
<1>4. /\ a \o b \in Seq(S)
      /\ Len(a \o b) = Len(a) + Len(b)
      /\ \A i \in 1..(Len(a) + Len(b)) :
           (a \o b)[i] = IF i <= Len(a) THEN a[i] ELSE b[i - Len(a)]
  BY <1>1, <1>2, ConcatProperties
<1>5. ASSUME NEW i \in 1..(Len(s) - 1)
      PROVE  (a \o b)[i] = IF i < k THEN s[i] ELSE s[i + 1]
  <2>1. CASE i < k
    BY <1>0, <1>1, <1>2, <1>4, <2>1
  <2>2. CASE ~(i < k)
    <3>1. (a \o b)[i] = b[i - (k - 1)]
      BY <1>0, <1>1, <1>2, <1>4, <2>2
    <3>2. i - (k - 1) \in 1..(Len(s) - k)
      BY <1>0, <2>2
    <3> QED BY <1>0, <1>2, <2>2, <3>1, <3>2
  <2> QED BY <2>1, <2>2
<1> QED BY <1>0, <1>1, <1>2, <1>3, <1>4, <1>5

\* Linking x before position k shifts the nodes from k on by one place.
LEMMA InsertAtProps ==
  ASSUME NEW S, NEW s \in Seq(S), NEW k \in 1..(Len(s) + 1), NEW x \in S
  PROVE  /\ InsertAt(s, k, x) \in Seq(S)
         /\ Len(InsertAt(s, k, x)) = Len(s) + 1
         /\ \A i \in 1..(Len(s) + 1) :
              InsertAt(s, k, x)[i] = IF i < k THEN s[i]
                                     ELSE IF i = k THEN x ELSE s[i - 1]
<1> DEFINE a == SubSeq(s, 1, k - 1)
           b == SubSeq(s, k, Len(s))
           m == <<x>>
<1>0. Len(s) \in Nat /\ \A i \in 1..Len(s) : s[i] \in S
  BY ElementOfSeq, LenProperties
<1>1. /\ a \in Seq(S)
      /\ Len(a) = k - 1
      /\ \A i \in 1..(k - 1) : a[i] = s[i]
  <2>1. \A i \in 1..(k - 1) : s[i] \in S
    BY <1>0
  <2>2. /\ a \in Seq(S)
        /\ Len(a) = IF 1 <= k - 1 THEN (k - 1) - 1 + 1 ELSE 0
        /\ \A i \in 1..((k - 1) - 1 + 1) : a[i] = s[1 + i - 1]
    BY <1>0, <2>1, SubSeqProperties
  <2> QED BY <1>0, <2>2
<1>2. /\ b \in Seq(S)
      /\ Len(b) = Len(s) - k + 1
      /\ \A i \in 1..(Len(s) - k + 1) : b[i] = s[k + i - 1]
  <2>1. \A i \in k..Len(s) : s[i] \in S
    BY <1>0
  <2>2. /\ b \in Seq(S)
        /\ Len(b) = IF k <= Len(s) THEN Len(s) - k + 1 ELSE 0
        /\ \A i \in 1..(Len(s) - k + 1) : b[i] = s[k + i - 1]
    BY <1>0, <2>1, SubSeqProperties
  <2> QED BY <1>0, <2>2
<1>3. m \in Seq(S) /\ Len(m) = 1 /\ m[1] = x
  OBVIOUS
<1>4. InsertAt(s, k, x) = (a \o m) \o b
  BY DEF InsertAt
<1> HIDE DEF a, b, m
<1>5. /\ a \o m \in Seq(S)
      /\ Len(a \o m) = k
      /\ \A i \in 1..k : (a \o m)[i] = IF i < k THEN s[i] ELSE x
  <2>1. /\ a \o m \in Seq(S)
        /\ Len(a \o m) = Len(a) + Len(m)
        /\ \A i \in 1..(Len(a) + Len(m)) :
             (a \o m)[i] = IF i <= Len(a) THEN a[i] ELSE m[i - Len(a)]
    BY <1>1, <1>3, ConcatProperties
  <2> QED BY <1>0, <1>1, <1>3, <2>1
<1> DEFINE c == a \o m
<1> HIDE DEF c
<1>6. /\ c \in Seq(S)
      /\ Len(c) = k
      /\ \A i \in 1..k : c[i] = IF i < k THEN s[i] ELSE x
  BY <1>5 DEF c
<1>7. /\ c \o b \in Seq(S)
      /\ Len(c \o b) = Len(c) + Len(b)
      /\ \A i \in 1..(Len(c) + Len(b)) :
           (c \o b)[i] = IF i <= Len(c) THEN c[i] ELSE b[i - Len(c)]
  BY <1>2, <1>6, ConcatProperties
<1>8. InsertAt(s, k, x) = c \o b
  BY <1>4 DEF c
<1>9. ASSUME NEW i \in 1..(Len(s) + 1)
      PROVE  (c \o b)[i] = IF i < k THEN s[i]
                           ELSE IF i = k THEN x ELSE s[i - 1]
  <2>1. CASE i <= k
    BY <1>0, <1>2, <1>6, <1>7, <2>1
  <2>2. CASE ~(i <= k)
    <3>1. (c \o b)[i] = b[i - k]
      BY <1>0, <1>2, <1>6, <1>7, <2>2
    <3>2. i - k \in 1..(Len(s) - k + 1)
      BY <1>0, <2>2
    <3> QED BY <1>0, <1>2, <2>2, <3>1, <3>2
  <2> QED BY <2>1, <2>2
<1> QED BY <1>0, <1>2, <1>6, <1>7, <1>8, <1>9

-----------------------------------------------------------------------------

\* A list on which no node occurs twice loses exactly the unlinked node.
LEMMA RemoveAtRange ==
  ASSUME NEW S, NEW s \in Seq(S), IsInjective(s), NEW k \in 1..Len(s)
  PROVE  /\ IsInjective(RemoveAt(s, k))
         /\ Range(RemoveAt(s, k)) = Range(s) \ {s[k]}
<1> DEFINE r == RemoveAt(s, k)
<1>1. /\ r \in Seq(S) /\ Len(r) = Len(s) - 1 /\ Len(s) \in Nat
      /\ \A i \in 1..(Len(s) - 1) : r[i] = IF i < k THEN s[i] ELSE s[i + 1]
  BY RemoveAtProps, LenProperties
<1>2. DOMAIN s = 1..Len(s) /\ DOMAIN r = 1..(Len(s) - 1)
  BY <1>1, LenProperties
<1> HIDE DEF r
<1>3. IsInjective(r)
  <2> SUFFICES ASSUME NEW i \in 1..(Len(s) - 1), NEW j \in 1..(Len(s) - 1), r[i] = r[j]
               PROVE  i = j
    BY <1>2 DEF IsInjective
  <2> DEFINE p(n) == IF n < k THEN n ELSE n + 1
  <2>1. p(i) \in DOMAIN s /\ p(j) \in DOMAIN s /\ s[p(i)] = s[p(j)]
    BY <1>1, <1>2
  <2>2. p(i) = p(j)
    BY <2>1 DEF IsInjective
  <2> QED BY <2>2
<1>4. Range(r) = Range(s) \ {s[k]}
  <2>1. ASSUME NEW i \in 1..(Len(s) - 1) PROVE r[i] \in Range(s) \ {s[k]}
    BY <1>1, <1>2, RangeEquality DEF IsInjective
  <2>2. ASSUME NEW j \in 1..Len(s), s[j] # s[k] PROVE \E i \in 1..(Len(s) - 1) : r[i] = s[j]
    <3>1. CASE j < k
      BY <1>1, <3>1
    <3>2. CASE j > k
      <4>1. j - 1 \in 1..(Len(s) - 1) /\ r[j - 1] = s[j]
        BY <1>1, <3>2
      <4> QED BY <4>1
    <3> QED BY <1>1, <2>2, <3>1, <3>2
  <2>3. Range(s) = {s[i] : i \in 1..Len(s)} /\ Range(r) = {r[i] : i \in 1..(Len(s) - 1)}
    BY <1>1, RangeEquality
  <2> QED BY <2>1, <2>2, <2>3
<1> QED BY <1>3, <1>4 DEF r

\* A node that was on no place of the list is the only one linking adds.
LEMMA InsertAtRange ==
  ASSUME NEW S, NEW s \in Seq(S), IsInjective(s), NEW k \in 1..(Len(s) + 1),
         NEW x \in S, x \notin Range(s)
  PROVE  /\ IsInjective(InsertAt(s, k, x))
         /\ Range(InsertAt(s, k, x)) = Range(s) \cup {x}
<1> DEFINE r == InsertAt(s, k, x)
<1>1. /\ r \in Seq(S) /\ Len(r) = Len(s) + 1 /\ Len(s) \in Nat
      /\ \A i \in 1..(Len(s) + 1) : r[i] = IF i < k THEN s[i]
                                           ELSE IF i = k THEN x ELSE s[i - 1]
  <2>1. Len(s) \in Nat
    BY LenProperties
  <2>2. InsertAt(s, k, x) \in Seq(S)
    BY InsertAtProps
  <2>3. Len(InsertAt(s, k, x)) = Len(s) + 1
    BY InsertAtProps
  <2>4. \A i \in 1..(Len(s) + 1) :
          InsertAt(s, k, x)[i] = IF i < k THEN s[i]
                                 ELSE IF i = k THEN x ELSE s[i - 1]
    BY InsertAtProps
  <2> QED BY <2>1, <2>2, <2>3, <2>4
<1>2. DOMAIN s = 1..Len(s) /\ DOMAIN r = 1..(Len(s) + 1)
  BY <1>1, LenProperties
<1> HIDE DEF r
<1>3. Range(s) = {s[i] : i \in 1..Len(s)} /\ Range(r) = {r[i] : i \in 1..(Len(s) + 1)}
  BY <1>1, RangeEquality
<1>4. IsInjective(r)
  <2> SUFFICES ASSUME NEW i \in 1..(Len(s) + 1), NEW j \in 1..(Len(s) + 1), r[i] = r[j]
               PROVE  i = j
    BY <1>2 DEF IsInjective
  <2> DEFINE p(n) == IF n < k THEN n ELSE n - 1
  <2>1. \A n \in 1..(Len(s) + 1) : n # k => p(n) \in 1..Len(s) /\ r[n] = s[p(n)]
    BY <1>1
  <2>2. r[k] = x
    BY <1>1
  <2>3. CASE i = k \/ j = k
    BY <1>3, <2>1, <2>2, <2>3
  <2>4. CASE i # k /\ j # k
    <3>1. p(i) = p(j)
      BY <1>2, <2>1, <2>4 DEF IsInjective
    <3> QED BY <2>4, <3>1
  <2> QED BY <2>3, <2>4
<1>5. Range(r) = Range(s) \cup {x}
  <2>1. ASSUME NEW i \in 1..(Len(s) + 1) PROVE r[i] \in Range(s) \cup {x}
    <3>1. r[i] = IF i < k THEN s[i] ELSE IF i = k THEN x ELSE s[i - 1]
      BY <1>1
    <3>2. CASE i = k
      BY <3>1, <3>2
    <3>3. CASE i < k
      BY <1>1, <1>3, <3>1, <3>3
    <3>4. CASE i > k
      <4>1. i - 1 \in 1..Len(s) /\ r[i] = s[i - 1]
        BY <1>1, <3>1, <3>4
      <4> QED BY <1>3, <4>1
    <3> QED BY <1>1, <3>2, <3>3, <3>4
  <2>2. ASSUME NEW j \in 1..Len(s) PROVE \E i \in 1..(Len(s) + 1) : r[i] = s[j]
    <3>1. CASE j < k
      <4>1. j \in 1..(Len(s) + 1) /\ r[j] = s[j]
        BY <1>1, <3>1
      <4> QED BY <4>1
    <3>2. CASE ~(j < k)
      <4>1. j + 1 \in 1..(Len(s) + 1) /\ r[j + 1] = s[j]
        BY <1>1, <3>2
      <4> QED BY <4>1
    <3> QED BY <3>1, <3>2
  <2>3. k \in 1..(Len(s) + 1) /\ r[k] = x
    BY <1>1
  <2> QED BY <1>3, <2>1, <2>2, <2>3
<1> QED BY <1>4, <1>5 DEF r

\* list_addtail: a node appended to a list it is not on.
LEMMA AppendRange ==
  ASSUME NEW S, NEW s \in Seq(S), IsInjective(s), NEW x \in S, x \notin Range(s)
  PROVE  /\ IsInjective(Append(s, x))
         /\ Range(Append(s, x)) = Range(s) \cup {x}
<1> DEFINE r == Append(s, x)
<1>1. /\ Len(s) \in Nat /\ DOMAIN s = 1..Len(s)
      /\ r \in Seq(S) /\ DOMAIN r = 1..(Len(s) + 1)
      /\ \A i \in 1..Len(s) : r[i] = s[i]
      /\ r[Len(s) + 1] = x
  BY LenProperties, AppendProperties
<1>2. Range(s) = {s[i] : i \in 1..Len(s)} /\ Range(r) = {r[i] : i \in 1..(Len(s) + 1)}
  BY <1>1 DEF Range
<1> HIDE DEF r
<1>3. IsInjective(r)
  BY <1>1, <1>2 DEF IsInjective
<1>4. Range(r) = Range(s) \cup {x}
  <2>1. \A i \in 1..(Len(s) + 1) : i \in 1..Len(s) \/ i = Len(s) + 1
    BY <1>1
  <2>2. \A i \in 1..Len(s) : i \in 1..(Len(s) + 1)
    BY <1>1
  <2>3. Len(s) + 1 \in 1..(Len(s) + 1)
    BY <1>1
  <2> QED BY <1>1, <1>2, <2>1, <2>2, <2>3
<1> QED BY <1>3, <1>4 DEF r

\* list_add: a node put in front of a list it is not on.
LEMMA ConsRange ==
  ASSUME NEW S, NEW s \in Seq(S), IsInjective(s), NEW x \in S, x \notin Range(s)
  PROVE  /\ <<x>> \o s \in Seq(S)
         /\ IsInjective(<<x>> \o s)
         /\ Range(<<x>> \o s) = Range(s) \cup {x}
<1> DEFINE r == <<x>> \o s
           m == <<x>>
<1>1. m \in Seq(S) /\ Len(m) = 1 /\ m[1] = x
  OBVIOUS
<1>2. Len(s) \in Nat /\ DOMAIN s = 1..Len(s)
  BY LenProperties
<1>3. /\ r \in Seq(S) /\ Len(r) = Len(s) + 1
      /\ \A i \in 1..(Len(s) + 1) : r[i] = IF i <= 1 THEN m[i] ELSE s[i - 1]
  <2>1. /\ m \o s \in Seq(S) /\ Len(m \o s) = Len(m) + Len(s)
        /\ \A i \in 1..(Len(m) + Len(s)) :
             (m \o s)[i] = IF i <= Len(m) THEN m[i] ELSE s[i - Len(m)]
    BY <1>1, ConcatProperties
  <2> HIDE DEF m
  <2>2. r = m \o s
    BY DEF m
  <2> QED BY <1>1, <1>2, <2>1, <2>2
<1> HIDE DEF r, m
<1>4. DOMAIN r = 1..(Len(s) + 1) /\ r[1] = x
      /\ \A i \in 1..Len(s) : r[i + 1] = s[i]
  BY <1>1, <1>2, <1>3, LenProperties
<1>5. Range(s) = {s[i] : i \in 1..Len(s)} /\ Range(r) = {r[i] : i \in 1..(Len(s) + 1)}
  BY <1>2, <1>4 DEF Range
<1>6. IsInjective(r)
  <2> SUFFICES ASSUME NEW i \in 1..(Len(s) + 1), NEW j \in 1..(Len(s) + 1), r[i] = r[j]
               PROVE  i = j
    BY <1>4 DEF IsInjective
  <2>1. \A n \in 1..(Len(s) + 1) : n # 1 => n - 1 \in 1..Len(s) /\ r[n] = s[n - 1]
    BY <1>2, <1>3
  <2>2. CASE i = 1 \/ j = 1
    BY <1>4, <1>5, <2>1, <2>2
  <2>3. CASE i # 1 /\ j # 1
    <3>1. i - 1 = j - 1
      BY <1>2, <2>1, <2>3 DEF IsInjective
    <3> QED BY <3>1
  <2> QED BY <2>2, <2>3
<1>7. Range(r) = Range(s) \cup {x}
  <2>1. ASSUME NEW i \in 1..(Len(s) + 1) PROVE r[i] \in Range(s) \cup {x}
    <3>1. CASE i = 1
      BY <1>4, <3>1
    <3>2. CASE i # 1
      <4>1. i - 1 \in 1..Len(s) /\ r[i] = s[i - 1]
        BY <1>2, <1>3, <3>2
      <4> QED BY <1>5, <4>1
    <3> QED BY <3>1, <3>2
  <2>2. ASSUME NEW i \in 1..Len(s) PROVE \E n \in 1..(Len(s) + 1) : r[n] = s[i]
    <3>1. i + 1 \in 1..(Len(s) + 1) /\ r[i + 1] = s[i]
      BY <1>2, <1>4
    <3> QED BY <3>1
  <2>3. 1 \in 1..(Len(s) + 1)
    BY <1>2
  <2> QED BY <1>4, <1>5, <2>1, <2>2, <2>3
<1> QED BY <1>3, <1>6, <1>7 DEF r, m

\* Taking the first node of a list on which no node occurs twice.
LEMMA TailRange ==
  ASSUME NEW S, NEW s \in Seq(S), IsInjective(s), s # <<>>
  PROVE  /\ Tail(s) \in Seq(S)
         /\ IsInjective(Tail(s))
         /\ Range(Tail(s)) = Range(s) \ {Head(s)}
         /\ Head(s) \in Range(s)
<1> DEFINE r == Tail(s)
<1>1. /\ Len(s) \in Nat /\ Len(s) >= 1 /\ DOMAIN s = 1..Len(s)
      /\ Head(s) = s[1] /\ r \in Seq(S) /\ Len(r) = Len(s) - 1
      /\ \A i \in 1..(Len(s) - 1) : r[i] = s[i + 1]
  BY LenProperties, HeadTailProperties, EmptySeq
<1> HIDE DEF r
<1>2. DOMAIN r = 1..(Len(s) - 1)
  BY <1>1, LenProperties
<1>3. Range(s) = {s[i] : i \in 1..Len(s)} /\ Range(r) = {r[i] : i \in 1..(Len(s) - 1)}
  BY <1>1, <1>2 DEF Range
<1>4. IsInjective(r)
  <2> SUFFICES ASSUME NEW i \in 1..(Len(s) - 1), NEW j \in 1..(Len(s) - 1), r[i] = r[j]
               PROVE  i = j
    BY <1>2 DEF IsInjective
  <2>1. i + 1 \in DOMAIN s /\ j + 1 \in DOMAIN s /\ s[i + 1] = s[j + 1]
    BY <1>1
  <2>2. i + 1 = j + 1
    BY <2>1 DEF IsInjective
  <2> QED BY <2>2
<1>5. 1 \in DOMAIN s
  BY <1>1
<1>6. ASSUME NEW i \in 1..(Len(s) - 1) PROVE r[i] \in Range(s) \ {s[1]}
  <2>1. i + 1 \in DOMAIN s /\ i + 1 # 1 /\ r[i] = s[i + 1]
    BY <1>1
  <2>2. s[i + 1] # s[1]
    BY <1>5, <2>1 DEF IsInjective
  <2> QED BY <1>1, <1>3, <2>1, <2>2
<1>7. ASSUME NEW i \in 1..Len(s), s[i] # s[1] PROVE \E n \in 1..(Len(s) - 1) : r[n] = s[i]
  <2>1. i - 1 \in 1..(Len(s) - 1) /\ r[i - 1] = s[i]
    BY <1>1, <1>7
  <2> QED BY <2>1
<1>8. s[1] \in Range(s)
  BY <1>1, <1>3, <1>5
<1>9. Range(r) = Range(s) \ {s[1]}
  BY <1>3, <1>6, <1>7
<1> QED BY <1>1, <1>4, <1>8, <1>9 DEF r
=============================================================================
