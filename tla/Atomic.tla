-------------------------------- MODULE Atomic --------------------------------
(***************************************************************************)
(* The atomic data of lib/include/atomic.h between a task and the          *)
(* interrupt handlers that preempt it and one another.  One Atomic counts  *)
(* the shares of an object: each context holds one, takes another one for  *)
(* a while, and gives up its own with atomic_dec_ret, which tells it       *)
(* whether it was the last.  Another Atomic holds a flag per context,      *)
(* which is raised as long as the context holds its share.                 *)
(*                                                                         *)
(* A single instruction on memory cannot be interrupted; the functions     *)
(* that change a value and return it have two.  There is one processor: a  *)
(* handler runs to its end before what it preempted goes on.               *)
(***************************************************************************)
EXTENDS Integers, Sequences, FiniteSets

CONSTANTS Contexts,   \* the task and the handlers, by the bits of their flags
          Width       \* of an int

ASSUME AtomicAssumption == Width \in Nat /\ Contexts \subseteq 0..(Width - 1)

\* Somebody has a share, and the count has room for two of each context.
ASSUME SharesAssumption ==
  Contexts # {} /\ 2^Width \in Nat /\ 2 * Cardinality(Contexts) < 2^Width

VARIABLES shares,   \* the value of the Atomic that counts the shares
          flags,    \* the value of the Atomic with the flags, as its set bits
          step,     \* what each context does next
          preempts, \* the contexts that have begun and not ended, the running one last
          ret,      \* what atomic_dec_ret has returned to each context
          own       \* ghost: the value that the atomic_dec_ret of each has produced

atomicVars == <<shares, flags, step, preempts, ret, own>>

None == -1

\* atomic_write of the number of shares, and of no flag
AtomicInit ==
  /\ shares = Cardinality(Contexts) /\ flags = {}
  /\ step = [c \in Contexts |-> "new"] /\ preempts = <<>>
  /\ ret = [c \in Contexts |-> None] /\ own = [c \in Contexts |-> None]

\* A context preempts what runs and raises its flag.
AtomicBegin(c) ==
  /\ step[c] = "new"
  /\ step' = [step EXCEPT ![c] = "raise"]
  /\ preempts' = Append(preempts, c)
  /\ UNCHANGED <<shares, flags, ret, own>>

Advance(c, from, to) ==
  /\ preempts # <<>> /\ preempts[Len(preempts)] = c
  /\ step[c] = from
  /\ step' = [step EXCEPT ![c] = to]

\* atomic_set_bit
AtomicSetBit(c) ==
  /\ Advance(c, "raise", "take")
  /\ flags' = flags \cup {c}
  /\ UNCHANGED <<shares, preempts, ret, own>>

Add(n) == shares' = (shares + n) % 2^Width

\* atomic_inc, atomic_add
AtomicInc(c) ==
  /\ Advance(c, "take", "give")
  /\ Add(1)
  /\ UNCHANGED <<flags, preempts, ret, own>>

\* atomic_dec, atomic_sub: the share taken last
AtomicDec(c) ==
  /\ Advance(c, "give", "lower")
  /\ Add(-1)
  /\ UNCHANGED <<flags, preempts, ret, own>>

\* atomic_clear_bit
AtomicClearBit(c) ==
  /\ Advance(c, "lower", "drop")
  /\ flags' = flags \ {c}
  /\ UNCHANGED <<shares, preempts, ret, own>>

\* The first half of atomic_dec_ret, and of the others that return the value
AtomicDecRet(c) ==
  /\ Advance(c, "drop", "read")
  /\ Add(-1) /\ own' = [own EXCEPT ![c] = shares']
  /\ UNCHANGED <<flags, preempts, ret>>

\* A faulty AtomicRead that returns the value from before the change.
AtomicReadOld(c) ==
  /\ Advance(c, "read", "end")
  /\ ret' = [ret EXCEPT ![c] = (shares + 1) % 2^Width]
  /\ UNCHANGED <<shares, flags, preempts, own>>

\* Their second half reads whatever the value is by now, as atomic_read does.
AtomicRead(c) ==
  /\ Advance(c, "read", "end")
  /\ ret' = [ret EXCEPT ![c] = shares]
  /\ UNCHANGED <<shares, flags, preempts, own>>

\* The context returns to what it preempted.
AtomicEnd(c) ==
  /\ Advance(c, "end", "ended")
  /\ preempts' = SubSeq(preempts, 1, Len(preempts) - 1)
  /\ UNCHANGED <<shares, flags, ret, own>>

\* atomic_test_bit ands the value into a mask nobody looks at and returns the value:
\* true if any flag is raised.
AtomicTestBit(bit) == flags # {}

AtomicNext ==
  \E c \in Contexts :
    \/ AtomicBegin(c) \/ AtomicSetBit(c) \/ AtomicInc(c) \/ AtomicDec(c)
    \/ AtomicClearBit(c) \/ AtomicDecRet(c) \/ AtomicRead(c) \/ AtomicEnd(c)

AtomicSpec == AtomicInit /\ [][AtomicNext]_atomicVars

-----------------------------------------------------------------------------

AtomicTypeOK ==
  /\ shares \in 0..(2^Width - 1)
  /\ flags \subseteq Contexts
  /\ preempts \in Seq(Contexts)
  /\ ret \in [Contexts -> {None} \cup 0..(2^Width - 1)]
  /\ own \in [Contexts -> {None} \cup 0..(2^Width - 1)]

Dropped(c) == step[c] \in {"read", "end", "ended"}

\* Whoever atomic_dec_ret tells that the count is zero knows that it is, and that nobody
\* holds a share any more or will take one; and when all have dropped their shares
\* somebody has been told.  It does not know that it is the only one: a context that was
\* preempted between its change and its reading may be told so too, and has yet to read
\* the count.
\* A flag stays raised whatever the handlers do to theirs in between, and
\* atomic_test_bit says so (it may say so of lowered ones, too).
LastShareSeen ==
  /\ AtomicTypeOK
  /\ \A c \in Contexts : ret[c] = 0 => shares = 0 /\ \A d \in Contexts : Dropped(d)
  /\ (\A c \in Contexts : step[c] = "ended") => \E c \in Contexts : ret[c] = 0
  /\ \A c \in Contexts :
       step[c] \in {"take", "give", "lower"} => c \in flags /\ AtomicTestBit(c)

\* What atomic.h:58 says of the functions that return a value: it is the new one, which
\* their own change has produced.  The code reads the value again afterwards.
ReturnsOwn == \A c \in Contexts : ret[c] # None => ret[c] = own[c]
=============================================================================
