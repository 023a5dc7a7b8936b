---------------------------- MODULE SessionState ----------------------------
(***************************************************************************)
(* What the state table promises to its clients: every session has one     *)
(* state, and each write a client makes is a decision about the state the  *)
(* session has at that moment - as if reading, deciding and writing were   *)
(* one indivisible step.                                                   *)
(***************************************************************************)
EXTENDS TcpState

CONSTANT Sessions

VARIABLE state

Init == state = [s \in Sessions |-> "CLOSED"]

(* A segment is processed: the FSM's decision about the current state.     *)
Segment(s) ==
    \E next \in RxSuccessors[state[s]] : state' = [state EXCEPT ![s] = next]

(* The application opens a connection on the session it was given.         *)
Open(s) == state' = [state EXCEPT ![s] = "SYN_SENT"]

(* The application closes: FIN_WAIT_1 from a closable state, else nothing. *)
Close(s) == state' = [state EXCEPT ![s] = CloseState(@)]

(* A timer gives the connection up.                                        *)
Expire(s) == state' = [state EXCEPT ![s] = "CLOSED"]

Next == \E s \in Sessions : Segment(s) \/ Open(s) \/ Close(s) \/ Expire(s)

Spec == Init /\ [][Next]_state
=============================================================================
