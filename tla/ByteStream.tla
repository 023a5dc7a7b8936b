------------------------------- MODULE ByteStream -------------------------------
(***************************************************************************)
(* What the sending half of a connection promises: bytes are accepted from *)
(* the application, sent and acknowledged in this order, and what is not   *)
(* acknowledged stays in a buffer of fewer than Window bytes.  The stream  *)
(* ends behind what was sent, which may be less than what was accepted.    *)
(***************************************************************************)
EXTENDS Integers

CONSTANT Window  \* the buffer: 2^WINDOW_BITS bytes

VARIABLES accepted, sent, acked, closed
vars == <<accepted, sent, acked, closed>>

Init == accepted = 0 /\ sent = 0 /\ acked = 0 /\ closed = FALSE

Accept ==
    /\ ~closed
    /\ \E n \in 1 .. Window - 1 : accepted' = accepted + n
    /\ accepted' - acked < Window
    /\ UNCHANGED <<sent, acked, closed>>

Send ==
    /\ ~closed
    /\ \E n \in 1 .. accepted - sent : sent' = sent + n
    /\ UNCHANGED <<accepted, acked, closed>>

Acknowledge ==
    /\ \E n \in 1 .. sent - acked : acked' = acked + n
    /\ UNCHANGED <<accepted, sent, closed>>

End ==
    /\ ~closed /\ closed' = TRUE
    /\ accepted' = sent
    /\ UNCHANGED <<sent, acked>>

Next == Accept \/ Send \/ Acknowledge \/ End

Spec == Init /\ [][Next]_vars

(* The positions are in order and the buffer holds what is not             *)
(* acknowledged.                                                           *)
InOrder == 0 <= acked /\ acked <= sent /\ sent <= accepted /\ accepted - acked < Window
=============================================================================
