---------------------------- MODULE OneAnswerEach ----------------------------
(***************************************************************************)
(* What the ARP server promises the one who asks it, and the part of its   *)
(* state that the promise is about: for each question one answer, and no   *)
(* question or answer that is stuck because its two processes wait for     *)
(* each other.  How the promise is kept is the module ArpServer.           *)
(***************************************************************************)
EXTENDS Integers, Sequences

CONSTANT Depth             \* macIpEncode_i and macIpEncode_rsp_i: 4

VARIABLES
    requests, answers,     \* macIpEncode_req, macIpEncode_rsp
    toTable, fromTable,    \* macIpEncode_i, macIpEncode_rsp_i
    state,                 \* gia_fsm_state; FWD in two steps
    questions              \* the questions whose answers were not yet read

(* A scan waits for an answer of its own.                                  *)
Scanning == IF state = "WAIT_RESPONSE" THEN 1 ELSE 0

(* However scans interrupt, each question of the inserter has one answer   *)
(* to come: none is lost, none is there twice.                             *)
AnswersCounted ==
    Len(questions) + Scanning
        = Len(requests) + Len(toTable) + Len(fromTable) + Len(answers)

(* genARPDiscovery and arp_table, which write to each other, are never     *)
(* both stalled on a full FIFO.                                            *)
NoCircularWait == ~(Len(toTable) = Depth /\ Len(fromTable) = Depth)

(* Its inductive form: what is between the two.                            *)
RoomInv ==
    /\ Len(toTable) + Len(fromTable) <= Depth + 2
    /\ state \in {"FWD", "SETUP", "GEN_IP"}
          => Len(toTable) + Len(fromTable) <= Depth + 1
=============================================================================
