------------------------------- MODULE MCRxPath -------------------------------
(* Model-checking instances of RxPath: a buffer the stream wraps around,   *)
(* FIFOs of one or two entries, foreign segments between those of the      *)
(* connection.                                                             *)
EXTENDS RxPath
=============================================================================
