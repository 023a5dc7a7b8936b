------------------------------- MODULE MCTxPath -------------------------------
(* Model-checking instance of TxPath: a buffer of three bytes, which the   *)
(* stream of four wraps around; two FINs; a network that remembers one     *)
(* segment and one acknowledgement.                                        *)
EXTENDS TxPath
=============================================================================
