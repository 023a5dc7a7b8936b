---------------------------- MODULE MCMemoryAccess ----------------------------
(* Model-checking instances of MemoryAccess: words of four bytes and       *)
(* buffers of four words, so that each part of a split segment takes one   *)
(* to three words at every alignment.                                      *)
EXTENDS MemoryAccess
=============================================================================
