------------------------------ MODULE MCStartUp ------------------------------
(***************************************************************************)
(* Some kernels for StartUp.                                               *)
(***************************************************************************)
EXTENDS StartUp

\* Kernels: the one of the Makefile, one of text and data behind a header to be skipped,
\* one that fills the room the loader has for it, one that does not fit
Header(type, offset, vaddr, filesz, memsz) ==
  [type |-> type, offset |-> offset, vaddr |-> vaddr, filesz |-> filesz, memsz |-> memsz]
StackHeader == Header("STACK", 0, 0, 0, 0)
OneSegment == [pages |-> 4, headers |-> <<Header("LOAD", 1, 256, 3, 12), StackHeader>>]
SomeFiles ==
  {OneSegment,
   [pages |-> 6, headers |-> <<Header("NULL", 9, 9, 9, 9), Header("LOAD", 1, 256, 3, 3),
                               StackHeader, Header("LOAD", 4, 260, 2, 4)>>],
   [pages |-> 16, headers |-> <<Header("LOAD", 1, 256, 15, 256)>>],
   [pages |-> 20, headers |-> <<Header("LOAD", 1, 256, 19, 30)>>]}
=============================================================================
