--------------------------- MODULE MCRetransmission ---------------------------
(* Model-checking instance of Retransmission: each interval is one turn of *)
(* the scan longer than the one before, the first ends at once.            *)
EXTENDS Retransmission

Growing == [r \in 0 .. MaxRetries |-> r]
=============================================================================
