------------------------------- MODULE MCBuddy -------------------------------
(***************************************************************************)
(* Small zones for TLC: largest blocks of 8 pages instead of 1024.         *)
(***************************************************************************)
EXTENDS Buddy

PowersOfTwo == [k \in 0..MaxOrder |-> 2^k]

\* what the descriptors' memory holds: cleared; ones; a mix that tells buddies apart
Cleared == {{}}
Junk == {{}, 0..7, {1, 2, 4, 7}}
=============================================================================
