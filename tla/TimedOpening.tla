----------------------------- MODULE TimedOpening -----------------------------
(***************************************************************************)
(* What the retransmission loop promises a connection that is being        *)
(* opened, and the state of the loop that the promise is about: as long as *)
(* the peer has not acknowledged the SYN or SYN-ACK, one of the parts of   *)
(* the loop still has it to do.  How the loop keeps the promise is the     *)
(* module Retransmission.                                                  *)
(***************************************************************************)
EXTENDS Integers, Sequences

CONSTANTS Connections,    \* the sessions in use
          None

VARIABLES
    table,          \* retransmitTimerTable
    sets,           \* txEng2timer_setRetransmitTimer
    events,         \* rtTimer2eventEng_setEvent
    releases,       \* rtTimer2stateTable_releaseState
    sar,            \* tx_table: acknowledged up to, sent up to, finSent
    tx,             \* the event the TX engine works on, or None
    asked,          \* an event that the RX engine asks for, or None
    state,          \* state_table: ESTABLISHED stands for all that follow it
    answered        \* history: a segment acknowledged all that was sent

InFifo(fifo, s) == \E i \in 1 .. Len(fifo) : fifo[i].sessionID = s

(* Something will send the session's segments again, or give it up.        *)
AtTimer(s) == \/ table[s].active \/ InFifo(sets, s) \/ InFifo(events, s)
              \/ \E i \in 1 .. Len(releases) : releases[i] = s

IsTimed(s) == \/ AtTimer(s)
              \/ tx # None /\ tx.sessionID = s
              \/ asked # None /\ asked.sessionID = s

IsOpening(s) == state[s] \in {"SYN_SENT", "SYN_RECEIVED"} /\ sar[s].sent > 0

(* A session that is being opened, whose SYN or SYN-ACK no segment has     *)
(* acknowledged, is always timed, whatever other segments - strays,        *)
(* duplicates, repeated SYNs, FINs - and timeouts come in between.         *)
(* A segment that acknowledges it stops the timer, of whatever kind it is  *)
(* and whether or not it moves the state (rx_engine.cpp:671, 835, 875).    *)
OpeningIsTimed ==
    \A s \in Connections : IsOpening(s) /\ ~answered[s] => IsTimed(s)
=============================================================================
