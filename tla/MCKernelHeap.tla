----------------------------- MODULE MCKernelHeap -----------------------------
(***************************************************************************)
(* Small heaps for TLC.  A unit stands for any number of bytes; addresses  *)
(* start above 0 as the kernel's heap does.                                *)
(***************************************************************************)
EXTENDS KernelHeap

\* memory up to 512M: one region, and enough slots for any fragmentation of it
OneRegion == <<[start |-> 2, size |-> 4]>>

\* memory above 512M: the region above the page descriptors is linked first
HighThenLow == <<[start |-> 6, size |-> 1], [start |-> 2, size |-> 3]>>

=============================================================================
