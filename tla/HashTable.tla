------------------------------- MODULE HashTable -------------------------------
(***************************************************************************)
(* The hash table of lib/hash_table.c: open addressing over an array of    *)
(* pairs, a key of 0 marking a free one.                                   *)
(*                                                                         *)
(* hash_del empties a pair and calls hash_sort, which walks on from there  *)
(* and moves pairs that a search would not find any more.  hash_sort calls *)
(* itself last of all, so its state is the address it has come to and its  *)
(* loop counter; an iteration is a step here.  Nothing interrupts it.      *)
(*                                                                         *)
(* The table is created with the default hash function: one that a caller  *)
(* gives is not stored (hash_table.c:81).                                  *)
(***************************************************************************)
EXTENDS Integers, FiniteSets

CONSTANTS Total,    \* info->total
          MaxTry,   \* info->max_try, the least of Total and 16
          Keys,     \* the keys callers use
          Values,
          NoValue

ASSUME TotalAssumption == Total \in Nat \ {0} /\ MaxTry \in 1..Total
ASSUME KeysAssumption == Keys \subseteq Nat \ {0} /\ NoValue \notin Values

VARIABLES pairs,    \* the array
          addr,     \* the pair hash_sort has come to, NoAddress when it is not running
          tries     \* the loop counter of hash_sort

tableVars == <<pairs, addr, tries>>

Addresses == 0..(Total - 1)
NoAddress == -1   \* NULL
Free == [key |-> 0, value |-> NoValue]

\* hash_create
TableInit ==
  /\ pairs = [a \in Addresses |-> Free]
  /\ addr = NoAddress
  /\ tries = 0

-----------------------------------------------------------------------------

\* hash_default_fun
HashFun(key) == key % Total

\* hash_next
HashNext(a) == IF a + 1 >= Total THEN 0 ELSE a + 1

\* The n-th pair a search for key looks at.
Probe(key, n) ==
  LET step[i \in 0..n] == IF i = 0 THEN HashFun(key) ELSE HashNext(step[i - 1])
  IN  step[n]

\* The number of steps after which a search for key meets the key or a free pair.
Meets(key) ==
  {n \in 0..MaxTry :
     /\ pairs[Probe(key, n)].key \in {0, key}
     /\ \A i \in 0..(n - 1) : pairs[Probe(key, i)].key \notin {0, key}}

\* hash_find_addr.  Its counter stands at MaxTry when the search ends exactly there,
\* which gives NoAddress, and at MaxTry + 1 when it fails, which gives the pair of another
\* key.
FindAddr(key) ==
  IF Meets(key) = {} THEN Probe(key, MaxTry)
  ELSE LET times == CHOOSE n \in Meets(key) : TRUE
       IN  IF times = MaxTry THEN NoAddress ELSE Probe(key, times)

\* hash_get: the value it stores, NoValue when it returns -1.
HashGet(key) ==
  LET a == FindAddr(key)
  IN  IF a = NoAddress \/ pairs[a].key = 0 THEN NoValue ELSE pairs[a].value

-----------------------------------------------------------------------------

Sorting == addr # NoAddress

\* A faulty HashSet that does not probe.
HashSetAtHome(key, value) ==
  /\ ~Sorting
  /\ pairs' = [pairs EXCEPT ![HashFun(key)] = [key |-> key, value |-> value]]
  /\ UNCHANGED <<addr, tries>>

\* hash_set; without an address it returns -1 and nothing happens.
HashSet(key, value) ==
  /\ ~Sorting
  /\ FindAddr(key) # NoAddress
  /\ pairs' = [pairs EXCEPT ![FindAddr(key)] = [key |-> key, value |-> value]]
  /\ UNCHANGED <<addr, tries>>

\* A faulty HashDel that does not call hash_sort.
HashDelNoSort(key) ==
  /\ ~Sorting
  /\ FindAddr(key) # NoAddress
  /\ pairs[FindAddr(key)].key # 0
  /\ pairs' = [pairs EXCEPT ![FindAddr(key)] = Free]
  /\ UNCHANGED <<addr, tries>>

\* hash_del, up to its call of hash_sort.
HashDel(key) ==
  /\ ~Sorting
  /\ FindAddr(key) # NoAddress
  /\ pairs[FindAddr(key)].key # 0
  /\ pairs' = [pairs EXCEPT ![FindAddr(key)] = Free]
  /\ addr' = FindAddr(key)
  /\ tries' = 0

\* A faulty SortKeep that starts the loop over.
SortKeepStartsOver ==
  /\ Sorting /\ tries < MaxTry
  /\ FindAddr(pairs[HashNext(addr)].key) = HashNext(addr)
  /\ addr' = HashNext(addr)
  /\ tries' = 0
  /\ UNCHANGED pairs

\* hash_sort: a search finds the next pair where it is.
SortKeep ==
  /\ Sorting /\ tries < MaxTry
  /\ FindAddr(pairs[HashNext(addr)].key) = HashNext(addr)
  /\ addr' = HashNext(addr)
  /\ tries' = tries + 1
  /\ UNCHANGED pairs

\* A faulty SortMove that copies the pair and does not clear it.
SortMoveCopies ==
  /\ Sorting /\ tries < MaxTry
  /\ LET from == HashNext(addr)
         to == FindAddr(pairs[from].key)
     IN  /\ to # from
         /\ pairs' = [a \in Addresses |-> IF a = to THEN pairs[from] ELSE pairs[a]]
         /\ addr' = from
  /\ tries' = 0

\* hash_sort: a search would end elsewhere; the pair is moved there, also when it is a
\* free one, and hash_sort starts anew behind it.  Moved to NoAddress the pair is lost.
SortMove ==
  /\ Sorting /\ tries < MaxTry
  /\ LET from == HashNext(addr)
         to == FindAddr(pairs[from].key)
     IN  /\ to # from
         /\ pairs' = [a \in Addresses |-> CASE a = from -> Free
                                            [] a = to -> pairs[from]
                                            [] OTHER -> pairs[a]]
         /\ addr' = from
  /\ tries' = 0

SortDone ==
  /\ Sorting /\ tries = MaxTry
  /\ addr' = NoAddress
  /\ UNCHANGED <<pairs, tries>>

TableNext ==
  \/ \E k \in Keys : HashDel(k) \/ \E v \in Values : HashSet(k, v)
  \/ SortKeep
  \/ SortMove
  \/ SortDone

\* The processor goes on executing hash_sort once it has been called.
TableFairness == WF_tableVars(SortKeep \/ SortMove \/ SortDone)

TableSpec == TableInit /\ [][TableNext]_tableVars /\ TableFairness

-----------------------------------------------------------------------------

\* The array holds keys with their values and free pairs; hash_sort stays within it.
TableTypeOK ==
  /\ pairs \in [Addresses -> {Free} \cup [key : Keys, value : Values]]
  /\ addr \in Addresses \cup {NoAddress}
  /\ tries \in 0..MaxTry

FreePairs == {a \in Addresses : pairs[a].key = 0}
PairsOf(key) == {a \in Addresses : pairs[a].key = key}

\* A key never gets two pairs, whatever is moved about: hash_set after a deletion does
\* not find a free pair before the one the key is in, hash_sort does not duplicate it.
OneKeyOnePair == TableTypeOK /\ \A k \in Keys : Cardinality(PairsOf(k)) <= 1

\* Between calls hash_get finds every key that is in the table, and its own value: no
\* deletion leaves a gap in front of a key, no wrap-around is missed.
GetFindsAll ==
  ~Sorting => \A k \in Keys :
    HashGet(k) = IF PairsOf(k) = {} THEN NoValue
                 ELSE pairs[CHOOSE a \in PairsOf(k) : TRUE].value

\* hash_del of a key returns when the table was full before.  (With another free pair
\* it does not: hash_sort moves the free pairs to each other for ever.)
DelFromFullReturns == Sorting /\ Cardinality(FreePairs) = 1 ~> ~Sorting

\* The table is a map: hash_set and hash_del change the value of their own key only,
\* and hash_sort changes none, not even one that does not return.
Map == INSTANCE AbstractMap
              WITH map <- [k \in Keys |->
                             IF PairsOf(k) = {} THEN NoValue
                             ELSE pairs[CHOOSE a \in PairsOf(k) : TRUE].value]
RefinesMap == Map!Spec

-----------------------------------------------------------------------------
(***************************************************************************)
(* The inductive invariant behind these properties (proved in LibProof),   *)
(* for a table that is searched all through and has room for the keys.     *)
(***************************************************************************)

\* Users leave a pair free, or every key they use is in the table.
RoomForKeys == \A key \in Keys : \E a \in Addresses : pairs[a].key \in {0, key}

\* They do whatever they call if they use no more keys than the table has pairs.
RoomForAll == MaxTry = Total /\ IsFiniteSet(Keys) /\ Cardinality(Keys) <= Total

\* A search for the key of the pair at a ends at a.
Sits(a) == FindAddr(pairs[a].key) = a

\* The pairs hash_sort has passed since it last moved one, around the end of the array.
Passed == {IF i <= addr THEN addr - i ELSE addr - i + Total : i \in 0..(tries - 1)}

\* A key has one pair, which between calls a search finds.  While hash_sort runs the
\* pairs it has passed since it last moved one are where a search finds them, so that
\* when it ends, after as many of them as the table has, all are.
HashInv ==
  /\ TableTypeOK
  /\ \A a, b \in Addresses : pairs[a].key = pairs[b].key /\ pairs[a].key # 0 => a = b
  /\ ~Sorting => \A a \in Addresses : pairs[a].key # 0 => Sits(a)
  /\ Sorting => /\ FreePairs # {}
                /\ \A a \in Passed : Sits(a)
=============================================================================
