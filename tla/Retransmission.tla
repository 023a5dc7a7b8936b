---------------------------- MODULE Retransmission ----------------------------
(***************************************************************************)
(* The retransmission loop: the TX engine (txEng_metaLoader) sets a timer  *)
(* for each segment it sends, the RX engine (rxEngTcpFSM) stops or         *)
(* restarts it on each acknowledgement, and when it runs out               *)
(* retransmit_timer fires an event that lets the TX engine send again, or, *)
(* after MaxRetries events in a row, gives the session up.  The two        *)
(* engines meet in tx_sar_table, of which this module keeps what was sent  *)
(* and what was acknowledged.                                              *)
(*                                                                         *)
(* A session is one connection here: it is opened once, and its sequence   *)
(* numbers count from 0, the number of its SYN.  What lies between the     *)
(* timer and the TX engine (the module EventEngine) only delays events.    *)
(* A SYN that crosses ours (simultaneous open) does not occur.             *)
(***************************************************************************)
EXTENDS Integers, Sequences, TimedOpening

CONSTANTS MaxSessions,    \* MAX_SESSIONS
          Skip,           \* how far a set may move the scan ahead: 5
          SkipWindow,     \* ... if it is less than this far behind: 3
          Timeout,        \* TIME_1s .. TIME_30s, by the number of retries
          MaxRetries,     \* 4
          ClearDepth, SetDepth, EventDepth, ReleaseDepth,  \* FIFOs: 2, 2, 4, 4
          Window,         \* 2^WINDOW_BITS, the length of a buffer
          MSS,
          MaxSent         \* bound: numbers a connection uses

ConstantsOK ==
    /\ \A n \in {MaxSessions, Skip, ClearDepth, SetDepth, EventDepth, ReleaseDepth, MSS} :
          n \in Nat \ {0}
    /\ SkipWindow \in Nat /\ MaxRetries \in Nat
    /\ Connections \subseteq 0 .. MaxSessions - 1
    /\ Timeout \in [0 .. MaxRetries -> Nat]
    /\ Window \in Nat /\ MaxSent \in Nat /\ MaxSent + 1 < Window

Sessions == 0 .. MaxSessions - 1
Opening == {"SYN", "SYN_ACK"}
Kinds == Opening \cup {"RT"}

(* What the FIFOs and the two engines hold, of sessions in use.            *)
Clears == [sessionID : Connections, stop : BOOLEAN]
Sets   == [sessionID : Connections, type : Kinds]
Events == [sessionID : Connections, type : Kinds, again : {TRUE}]
Work   == [sessionID : Connections, type : Kinds \cup {"TX", "FIN"}, again : BOOLEAN,
           left : Nat, segments : 0 .. 3]
Loads  == [sessionID : Connections, prevAck : Nat, nextByte : Nat]
Asked  == [sessionID : Connections, type : {"RT"}, again : {FALSE}]
          \cup [sessionID : Connections, type : {"SYN_ACK"}, again : {TRUE}]
States == {"CLOSED", "SYN_SENT", "SYN_RECEIVED", "ESTABLISHED"}
NoneIsNothing == None \notin Clears \cup Work \cup Loads \cup Asked

ASSUME RetransmissionAssumption == ConstantsOK /\ NoneIsNothing

VARIABLES
    position,       \* rt_position
    prevPosition,   \* rt_prevPosition
    update,         \* rt_update while rt_waitForWrite, otherwise None
    clears,         \* rxEng2timer_clearRetransmitTimer
    rx              \* the segment rxEngTcpFSM works on, or None

timer == <<table, position, prevPosition, update>>
fifos == <<clears, sets, events, releases>>
sessions == <<state, answered>>
vars  == <<timer, fifos, sar, tx, rx, asked, sessions>>

Init ==
    /\ table = [s \in Sessions |->
                  [active |-> FALSE, time |-> 0, retries |-> 0, type |-> "RT"]]
    /\ position = 0 /\ prevPosition = 0 /\ update = None
    /\ clears = <<>> /\ sets = <<>> /\ events = <<>> /\ releases = <<>>
    /\ sar = [s \in Sessions |-> [acked |-> 0, sent |-> 0, fin |-> FALSE]]
    /\ tx = None /\ rx = None /\ asked = None
    /\ state = [s \in Sessions |-> "CLOSED"]
    /\ answered = [s \in Sessions |-> FALSE]
-----------------------------------------------------------------------------
(* retransmit_timer: one of four in each iteration.                        *)

ClearDue == update # None /\ update.sessionID # prevPosition

ApplyClear ==
    LET s == update.sessionID
        stopped == [table[s] EXCEPT !.time = 0, !.active = FALSE]
        restarted == [table[s] EXCEPT !.time = Timeout[0]] IN
    /\ ClearDue
    /\ table' = [table EXCEPT ![s] =
                   [(IF update.stop THEN stopped ELSE restarted) EXCEPT !.retries = 0]]
    /\ update' = None
    /\ UNCHANGED <<position, prevPosition, fifos>>

TakeClear ==
    /\ update = None /\ clears # <<>>
    /\ update' = Head(clears)
    /\ clears' = Tail(clears)
    /\ UNCHANGED <<table, position, prevPosition, sets, events, releases>>

NoClear == ~ClearDue /\ (update # None \/ clears = <<>>)

(* The scan keeps away from an entry that is being written.                *)
SkipAhead(s) ==
    position' = IF s - SkipWindow < position /\ position <= s THEN position + Skip
                                                             ELSE position

ApplySet ==
    LET s == Head(sets).sessionID
        e == table[s] IN
    /\ NoClear /\ sets # <<>>
    /\ sets' = Tail(sets)
    /\ SkipAhead(s)
    /\ table' = [table EXCEPT ![s] =
                   [e EXCEPT !.type = Head(sets).type, !.active = TRUE,
                             !.time = IF e.active THEN @ ELSE Timeout[e.retries]]]
    /\ prevPosition' = s
    /\ UNCHANGED <<update, clears, events, releases>>

CountDown(c) ==
    /\ table[c].active /\ table[c].time > 0
    /\ table' = [table EXCEPT ![c].time = @ - 1]
    /\ UNCHANGED <<events, releases>>

EventsFull == Len(events) = EventDepth

Fire(c) ==
    /\ table[c].active /\ table[c].time = 0 /\ table[c].retries < MaxRetries
    /\ ~EventsFull
    /\ table' = [table EXCEPT ![c].active = FALSE, ![c].retries = @ + 1]
    /\ events' = Append(events, [sessionID |-> position, type |-> table[c].type,
                                 again |-> TRUE])
    /\ UNCHANGED releases

(* Variants: nobody is told; the timer is not switched off.                *)
GiveUpSilently(c) ==
    /\ table[c].active /\ table[c].time = 0 /\ table[c].retries = MaxRetries
    /\ ~EventsFull
    /\ table' = [table EXCEPT ![c].active = FALSE, ![c].retries = 0]
    /\ UNCHANGED <<events, releases>>

GiveUpAndGoOn(c) ==
    /\ table[c].active /\ table[c].time = 0 /\ table[c].retries = MaxRetries
    /\ ~EventsFull /\ Len(releases) < ReleaseDepth
    /\ table' = [table EXCEPT ![c].retries = 0]
    /\ releases' = Append(releases, position)
    /\ UNCHANGED events

GiveUp(c) ==
    /\ table[c].active /\ table[c].time = 0 /\ table[c].retries = MaxRetries
    /\ ~EventsFull /\ Len(releases) < ReleaseDepth
    /\ table' = [table EXCEPT ![c].active = FALSE, ![c].retries = 0]
    /\ releases' = Append(releases, position)
    /\ UNCHANGED events

(* A timer that has run out stays so until the TX engine has room.         *)
PassBy(c) ==
    /\ table[c].active => table[c].time = 0 /\ EventsFull
    /\ UNCHANGED <<table, events, releases>>

(* A position past the table reads and writes some cell of it; the event   *)
(* names the position.                                                     *)
Scan ==
    /\ NoClear /\ sets = <<>>
    /\ \E c \in Sessions :
          /\ position \in Sessions => c = position
          /\ CountDown(c) \/ Fire(c) \/ GiveUp(c) \/ PassBy(c)
    /\ position' = IF position + 1 >= MaxSessions THEN 0 ELSE position + 1
    /\ prevPosition' = position
    /\ UNCHANGED <<update, clears, sets>>

TimerStep ==
    /\ ApplyClear \/ TakeClear \/ ApplySet \/ Scan
    /\ UNCHANGED <<sar, tx, rx, asked, sessions>>

(* The state table closes the session, unless the RX engine has its lock.  *)
Release ==
    /\ releases # <<>>
    /\ rx # None => rx.sessionID # Head(releases)
    /\ releases' = Tail(releases)
    /\ state' = [s \in Sessions |-> IF s = Head(releases) THEN "CLOSED" ELSE state[s]]
    /\ UNCHANGED <<timer, clears, sets, events, sar, tx, rx, asked, answered>>
-----------------------------------------------------------------------------
(* txEng_metaLoader.                                                       *)

(* usedLength_rst: what is to be retransmitted, without the FIN.           *)
UsedLength(s) == (sar[s].sent - sar[s].acked - (IF sar[s].fin THEN 1 ELSE 0)) % Window

(* Taking an event reads the SAR table.                                    *)
Begin(s, type, again) ==
    /\ tx = None
    /\ tx' = [sessionID |-> s, type |-> type, again |-> again,
              left |-> IF type = "RT" THEN UsedLength(s) ELSE 0, segments |-> 0]
    /\ UNCHANGED <<timer, clears, sets, releases, sar, rx, answered>>

TakeTimerEvent ==
    /\ events # <<>>
    /\ Begin(Head(events).sessionID, Head(events).type, Head(events).again)
    /\ events' = Tail(events)
    /\ UNCHANGED <<asked, state>>

TakeAsked ==
    /\ asked # None
    /\ Begin(asked.sessionID, asked.type, asked.again)
    /\ asked' = None
    /\ UNCHANGED <<events, state>>

(* A connection is opened, by us or by the peer, ...                       *)
Open(s, type) ==
    /\ state[s] = "CLOSED" /\ sar[s].sent = 0
    /\ Begin(s, type, FALSE)
    /\ state' = [state EXCEPT ![s] = IF type = "SYN" THEN "SYN_SENT" ELSE "SYN_RECEIVED"]

(* ... has data to send, and is closed, also more than once (bound: a      *)
(* retransmission that is asked for keeps a number for the FIN).           *)
Use(s, type) ==
    /\ state[s] = "ESTABLISHED"
    /\ sar[s].sent + (IF asked = None THEN 0 ELSE 1) < MaxSent
    /\ Begin(s, type, FALSE)
    /\ UNCHANGED state

TakeOther(s) ==
    /\ (\E type \in Opening : Open(s, type)) \/ (\E type \in {"TX", "FIN"} : Use(s, type))
    /\ UNCHANGED <<events, asked>>

(* Only what is sent sets the timer.                                       *)
SetTimer(s, type) ==
    /\ Len(sets) < SetDepth
    /\ sets' = Append(sets, [sessionID |-> s, type |-> type])

SendOpening ==
    LET s == tx.sessionID IN
    /\ tx # None /\ tx.type \in Opening
    /\ SetTimer(s, tx.type)
    /\ sar' = IF tx.again THEN sar
              ELSE [sar EXCEPT ![s].sent = 1, ![s].acked = 0, ![s].fin = FALSE]
    /\ tx' = None

SendData ==
    LET s == tx.sessionID IN
    /\ tx # None /\ tx.type = "TX"
    /\ SetTimer(s, "RT")
    /\ sar' = [sar EXCEPT ![s].sent = @ + 1]
    /\ tx' = None

(* A FIN takes a number of its own, unless it is sent again.               *)
SendFin ==
    LET s == tx.sessionID IN
    /\ tx # None /\ tx.type = "FIN"
    /\ SetTimer(s, "RT")
    /\ sar' = IF tx.again THEN sar
              ELSE [sar EXCEPT ![s].sent = @ + 1, ![s].fin = TRUE]
    /\ tx' = None

(* What fits into four segments is sent again at once; the FIN follows it. *)
ResendPart ==
    /\ tx # None /\ tx.type = "RT" /\ tx.left > MSS
    /\ SetTimer(tx.sessionID, "RT")
    /\ tx' = IF tx.segments = 3 THEN None
             ELSE [tx EXCEPT !.left = @ - MSS, !.segments = @ + 1]
    /\ UNCHANGED sar

ResendLast ==
    LET s == tx.sessionID IN
    /\ tx # None /\ tx.type = "RT" /\ tx.left <= MSS
    /\ IF tx.left > 0 THEN SetTimer(s, "RT") ELSE UNCHANGED sets
    /\ tx' = IF sar[s].fin THEN [tx EXCEPT !.type = "FIN", !.left = 0, !.segments = 0] ELSE None
    /\ UNCHANGED sar

SendSegment ==
    /\ SendOpening \/ SendData \/ SendFin \/ ResendPart \/ ResendLast
    /\ UNCHANGED <<timer, clears, events, releases, rx, asked, sessions>>

TxTurn == TakeTimerEvent \/ TakeAsked \/ SendSegment
-----------------------------------------------------------------------------
(* rxEngTcpFSM.  LOAD: state_table and tx_sar_table are asked (a session   *)
(* that is closed is no longer found) ...                                  *)
RxLoad(s) ==
    /\ rx = None /\ state[s] # "CLOSED"
    /\ rx' = [sessionID |-> s, prevAck |-> sar[s].acked, nextByte |-> sar[s].sent]
    /\ UNCHANGED <<timer, fifos, sar, tx, asked, sessions>>

(* ... TRANSITION: and their answers used, by a segment that acknowledges  *)
(* what precedes ack.  The timer is cleared before the state is looked at. *)
ClearTimer(stop) ==
    /\ Len(clears) < ClearDepth
    /\ clears' = Append(clears, [sessionID |-> rx.sessionID, stop |-> stop])

(* Variant: a segment stops the timer whatever it acknowledges.            *)
ClearAlways(ack) ==
    /\ ClearTimer(TRUE)
    /\ answered' = [answered EXCEPT ![rx.sessionID] = @ \/ ack = rx.nextByte]

ClearByAck(ack) ==
    /\ ClearTimer(ack = rx.nextByte)
    /\ answered' = [answered EXCEPT ![rx.sessionID] = @ \/ ack = rx.nextByte]

Becomes(st) == state' = [state EXCEPT ![rx.sessionID] = st]
Acked(ack)  == sar' = [sar EXCEPT ![rx.sessionID].acked = ack]

InRange(ack) ==
    \/ rx.prevAck <= ack /\ ack <= rx.nextByte
    \/ rx.nextByte < rx.prevAck /\ (rx.prevAck <= ack \/ ack <= rx.nextByte)

(* The third duplicate in a row asks for a retransmission (bound: not      *)
(* while an event is worked on that may take a number, and only if there   *)
(* is a number for the FIN that it sends again).                           *)
AskRetransmit(ack) ==
    /\ ack = rx.prevAck /\ rx.prevAck # rx.nextByte
    /\ tx # None => tx.again
    /\ sar[rx.sessionID].fin => sar[rx.sessionID].sent < MaxSent
    /\ asked = None /\ asked' = [sessionID |-> rx.sessionID, type |-> "RT", again |-> FALSE]

(* ACK.  ESTABLISHED stands for states that do not look at the number, and *)
(* for LAST_ACK, which the number last sent closes.                        *)
RxAck(ack) ==
    LET st == state[rx.sessionID] IN
    /\ ClearByAck(ack)
    /\ IF st \in {"SYN_RECEIVED", "ESTABLISHED"}
         THEN /\ Acked(IF InRange(ack) THEN ack ELSE sar[rx.sessionID].acked)
              /\ UNCHANGED asked \/ AskRetransmit(ack)
              /\ IF ack # rx.nextByte THEN UNCHANGED state
                 ELSE \/ Becomes("ESTABLISHED")
                      \/ st = "ESTABLISHED" /\ Becomes("CLOSED")
         ELSE UNCHANGED <<sar, asked, state>>

RxAckUnread(ack) ==
    /\ state[rx.sessionID] = "ESTABLISHED" /\ ClearByAck(ack)
    /\ UNCHANGED <<sar, asked, state>>

RxSynAck(ack) ==
    LET st == state[rx.sessionID] IN
    /\ ClearByAck(ack)
    /\ IF st # "SYN_SENT" THEN UNCHANGED <<sar, state>>
       ELSE IF ack = rx.nextByte THEN Acked(ack) /\ Becomes("ESTABLISHED")
       ELSE Becomes("CLOSED") /\ UNCHANGED sar
    /\ UNCHANGED asked

(* A FIN in order: the number is taken as it is.                           *)
RxFin(ack) ==
    /\ ClearByAck(ack)
    /\ \/ state[rx.sessionID] = "ESTABLISHED" /\ Acked(ack)
       \/ UNCHANGED sar
    /\ UNCHANGED <<asked, state>>

(* A SYN again, or another one.                                            *)
RxSyn ==
    /\ IF state[rx.sessionID] # "SYN_RECEIVED" THEN UNCHANGED <<asked, state>>
       ELSE \/ /\ asked = None
               /\ asked' = [sessionID |-> rx.sessionID, type |-> "SYN_ACK", again |-> TRUE]
               /\ UNCHANGED state
            \/ Becomes("CLOSED") /\ UNCHANGED asked
    /\ UNCHANGED <<clears, sar, answered>>

(* A RST that fits, or a segment that is ignored.                          *)
RxRst(ack) ==
    /\ \/ /\ state[rx.sessionID] = "SYN_SENT" => ack = rx.nextByte
          /\ ClearTimer(TRUE) /\ Becomes("CLOSED")
       \/ UNCHANGED <<clears, state>>
    /\ UNCHANGED <<sar, asked, answered>>

RxTransition ==
    /\ rx # None
    /\ \/ RxSyn
       \/ \E ack \in 0 .. MaxSent :
             RxAck(ack) \/ RxAckUnread(ack) \/ RxSynAck(ack) \/ RxFin(ack) \/ RxRst(ack)
    /\ rx' = None
    /\ UNCHANGED <<timer, sets, events, releases, tx>>

Segment == \E s \in Connections : RxLoad(s)
Request == \E s \in Connections : TakeOther(s)

Next == TimerStep \/ Release \/ TxTurn \/ RxTransition \/ Segment \/ Request

Spec == Init /\ [][Next]_vars

(* Each process runs in each clock cycle; nothing makes segments arrive or *)
(* applications send.                                                      *)
Fairness == WF_vars(TimerStep) /\ WF_vars(Release) /\ WF_vars(TakeTimerEvent)
            /\ WF_vars(TakeAsked) /\ WF_vars(SendSegment) /\ WF_vars(RxTransition)
FairSpec == Spec /\ Fairness
-----------------------------------------------------------------------------
(* Properties.                                                             *)

(* OpeningIsTimed is stated in TimedOpening.  Why it holds: as long as no  *)
(* segment acknowledges the SYN, one number is sent and nothing stops the  *)
(* timer; a retransmission that duplicates ask for meanwhile sends it as   *)
(* if it were data, and sets the timer again.                              *)
NothingStops(s) ==
    /\ \A i \in 1 .. Len(clears) : clears[i].sessionID = s => ~clears[i].stop
    /\ update # None /\ update.sessionID = s => ~update.stop

OnlyOpening(s) ==
    /\ state[s] # "ESTABLISHED"
    /\ sar[s].acked = 0 /\ sar[s].sent <= 1 /\ ~sar[s].fin
    /\ tx # None /\ tx.sessionID = s =>
          tx.type \in Opening \/ (tx.type = "RT" /\ tx.left = 1)
    /\ rx # None /\ rx.sessionID = s => rx.prevAck = 0 /\ rx.nextByte <= sar[s].sent
    /\ NothingStops(s)

(* Before a session is opened there is nothing of it anywhere.             *)
Untimed(s) ==
    /\ ~table[s].active /\ ~InFifo(sets, s) /\ ~InFifo(events, s) /\ ~InFifo(clears, s)
    /\ update # None => update.sessionID # s

Untouched(s) ==
    /\ state[s] = "CLOSED" /\ Untimed(s)
    /\ asked # None => asked.sessionID # s
    /\ rx # None => rx.sessionID # s
    /\ sar[s].acked = 0 /\ ~sar[s].fin

(* The number of a SYN that is not sent yet is about to be taken.          *)
Pending(s) ==
    tx # None /\ tx.sessionID = s /\ tx.type \in Opening /\ ~tx.again

OpeningInv(s) ==
    /\ state[s] # "CLOSED" /\ ~answered[s] =>
          OnlyOpening(s) /\ (sar[s].sent > 0 => IsTimed(s))
    /\ sar[s].sent = 0 => Pending(s) \/ Untouched(s)
    /\ tx # None /\ tx.sessionID = s => (Pending(s) <=> sar[s].sent = 0)

OnlyOpenings == \A s \in Connections : OpeningInv(s)

(* No session in use is so near to the end of the table that the scan      *)
(* leaves it.                                                              *)
SkipStaysInside == \A s \in Connections : s + Skip < MaxSessions

(* The types, if SkipStaysInside.                                          *)
TypeOK ==
    /\ table \in [Sessions -> [active : BOOLEAN, time : Nat, retries : 0 .. MaxRetries, type : Kinds]]
    /\ \A s \in Sessions : table[s].active => s \in Connections
    /\ position \in Sessions
    /\ update \in Clears \cup {None}
    /\ clears \in Seq(Clears) /\ sets \in Seq(Sets) /\ events \in Seq(Events)
    /\ releases \in Seq(Connections)
    /\ sar \in [Sessions -> [acked : Nat, sent : Nat, fin : BOOLEAN]]
    /\ tx \in Work \cup {None} /\ rx \in Loads \cup {None}
    /\ asked \in Asked \cup {None}
    /\ state \in [Sessions -> States] /\ answered \in [Sessions -> BOOLEAN]

(* A timer does not run out while an event of its session is still being   *)
(* handled: intervals are seconds, events take microseconds.               *)
UnderWay(s) == InFifo(events, s) \/ InFifo(sets, s) \/ (tx # None /\ tx.sessionID = s)
SlowTimers ==
    <>[][\A s \in Sessions :
            table[s].active /\ ~table'[s].active /\ update' = update => ~UnderWay(s)]_vars

(* A connection that the peer does not answer is not kept for ever: in the *)
(* end its opening is acknowledged or the session closed.                  *)
Silence == <>[][~Segment]_vars

OpeningEnds ==
    Silence => \A s \in Connections :
        <>[](sar[s].sent > 0 => answered[s] \/ state[s] = "CLOSED")

(* When peers and applications pause, the loop of timers, events and sets  *)
(* drains: the retransmissions of each session come to an end, also those  *)
(* that answer an event for what was acknowledged meanwhile.               *)
SettlesWhenIdle ==
    SlowTimers /\ <>[][~Segment /\ ~Request]_vars =>
        <>[](/\ tx = None /\ rx = None /\ asked = None /\ update = None
             /\ clears = <<>> /\ sets = <<>> /\ events = <<>> /\ releases = <<>>
             /\ \A s \in Sessions : ~table[s].active)
=============================================================================
