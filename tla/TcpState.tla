------------------------------ MODULE TcpState ------------------------------
(***************************************************************************)
(* The TCP connection states of toe.hpp and the decisions that the three   *)
(* parties able to write a connection state take from the state they read: *)
(* the FSM of the RX engine (rxEngTcpFSM), the application's open and      *)
(* close requests (tx_app_if) and the timers.  Sequence numbers are        *)
(* abstracted to the two comparisons the decisions depend on:              *)
(*   ackOk  the segment acknowledges everything sent                       *)
(*          (ackNumb = txSar.nextByte),                                    *)
(*   seqOk  the segment is the next one expected (seqNumb = rxSar.recvd;   *)
(*          for a SYN, seqNumb + 1 = rxSar.recvd).                         *)
(***************************************************************************)

SessionState == {"CLOSED", "SYN_SENT", "SYN_RECEIVED", "ESTABLISHED",
                 "FIN_WAIT_1", "FIN_WAIT_2", "CLOSING", "TIME_WAIT", "LAST_ACK"}

(* control_bits of rxEngTcpFSM: the four flags select one of six cases.    *)
(* RST is any segment with the RST flag, BOGUS a segment without it whose  *)
(* flags match no case (no ACK, SYN+FIN, ...).                             *)
PacketKind == {"ACK", "SYN", "SYN_ACK", "FIN_ACK", "RST", "BOGUS"}

(* A move says where some states go; the others stay.                      *)
Follow(move, s) == IF s \in DOMAIN move THEN move[s] ELSE s

(* An ACK of everything sent.  In CLOSED, SYN_SENT, FIN_WAIT_2 and         *)
(* TIME_WAIT it is answered with a RST; the state is written back too.     *)
AckMove == [SYN_RECEIVED |-> "ESTABLISHED", CLOSING |-> "TIME_WAIT", LAST_ACK |-> "CLOSED"]

OnAck(s, ackOk) == IF ackOk THEN Follow(AckMove, s) ELSE s

(* CLOSED stands for LISTEN here; a SYN in SYN_SENT is a simultaneous open *)
(* and one in SYN_RECEIVED that is not the same SYN again resets.          *)
SynMove == [CLOSED |-> "SYN_RECEIVED", SYN_SENT |-> "SYN_RECEIVED"]

OnSyn(s, seqOk) ==
    IF s = "SYN_RECEIVED" /\ ~seqOk THEN "CLOSED" ELSE Follow(SynMove, s)

OnSynAck(s, ackOk) ==
    Follow([SYN_SENT |-> IF ackOk THEN "ESTABLISHED" ELSE "CLOSED"], s)

(* Only a FIN in order is accepted.                                        *)
FinMove(ackOk) ==
    LET last == IF ackOk THEN "TIME_WAIT" ELSE "CLOSING"
    IN  [ESTABLISHED |-> "LAST_ACK", FIN_WAIT_1 |-> last, FIN_WAIT_2 |-> last]

OnFin(s, ackOk, seqOk) == IF seqOk THEN Follow(FinMove(ackOk), s) ELSE s

(* A RST must match: our SYN in SYN_SENT, the window otherwise.            *)
OnRst(s, ackOk, seqOk) ==
    IF (s = "SYN_SENT" /\ ackOk) \/ (s # "SYN_SENT" /\ seqOk) THEN "CLOSED" ELSE s

(* The state the FSM writes back after reading s: every path ends in       *)
(* exactly one write, which is what releases the lock on the entry.        *)
RxState(kind, s, ackOk, seqOk) ==
    [ACK     |-> OnAck(s, ackOk),
     SYN     |-> OnSyn(s, seqOk),
     SYN_ACK |-> OnSynAck(s, ackOk),
     FIN_ACK |-> OnFin(s, ackOk, seqOk),
     RST     |-> OnRst(s, ackOk, seqOk),
     BOGUS   |-> s][kind]

(* What the FSM may write back after reading s, for any segment.           *)
RxSuccessors ==
    [s \in SessionState |->
        {RxState(kind, s, ackOk, seqOk) :
            kind \in PacketKind, ackOk \in BOOLEAN, seqOk \in BOOLEAN}]

(* tx_app_if, CLOSE_CONN: the state written back after reading s.          *)
ClosableStates == {"ESTABLISHED", "FIN_WAIT_1", "FIN_WAIT_2"}

CloseState(s) == IF s \in ClosableStates THEN "FIN_WAIT_1" ELSE s
=============================================================================
