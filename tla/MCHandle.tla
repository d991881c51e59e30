------------------------------- MODULE MCHandle -------------------------------
(***************************************************************************)
(* Three tables of five handles for TLC.                                      *)
(***************************************************************************)
EXTENDS Handle

\* cleared page frames; some bits set, the reserved one among them; all of them set
AnyJunk == {{}, {0, 2, 3}, Bits}
=============================================================================
