----------------------------- MODULE EventEngine -----------------------------
(***************************************************************************)
(* The path of an event - a segment to be sent - from its source to the TX *)
(* engine: event_engine.cpp merges the sources, ack_delay.cpp holds back   *)
(* acknowledgements that a later segment may carry, txEng_metaLoader takes *)
(* one event at a time.  Events of the RX engine are always accepted;      *)
(* those of the timers and the application only pass when event_engine     *)
(* believes both FIFOs behind it to be empty.  It believes this from four  *)
(* counters, fed by FIFOs of ones that the two later stages write.         *)
(* A FIFO of ones is a number here, its length.                            *)
(***************************************************************************)
EXTENDS Integers, Sequences

CONSTANTS MaxSessions,   \* MAX_SESSIONS
          SourceDepth,   \* depth of the FIFOs of the three sources
          AckDepth,      \* eventEng2ackDelay_event: 4
          TxDepth,       \* eventEng2txEng_event: 16
          CountDepth,    \* ackDelayFifoReadCount, ..WriteCount, txEngFifoReadCount: 2
          CounterValues, \* values of a counter: 2^8
          AckDelay       \* TIME_64us, in turns of the pointer

ASSUME EventDepths ==
    /\ \A d \in {MaxSessions, SourceDepth, AckDepth, TxDepth, CountDepth, AckDelay} :
          d \in Nat \ {0}
    /\ CountDepth <= AckDepth
    /\ CounterValues \in Nat
    /\ AckDepth + CountDepth < CounterValues
    /\ TxDepth + CountDepth < CounterValues

Sessions == 0 .. MaxSessions - 1

(* "ACK" may be delayed; "TX" stands for every other event of a session,   *)
(* all of whose segments acknowledge; "RST" answers a segment that belongs *)
(* to no session, and names session 0 only because it must name one.       *)
AllKinds == {"ACK", "TX", "RST"}

Events == [type : AllKinds, sessionID : Sessions]
Event(type, s) == [type |-> type, sessionID |-> s]
IsGenerated(type, s) == type = "RST" => s = 0

VARIABLES
    rxEvents, timerEvents, appEvents,   \* the sources' FIFOs
    toAckDelay, toTxEng,                \* eventEng2ackDelay_event, eventEng2txEng_event
    adReads, adWrites, txReads,         \* lengths of the FIFOs of ones
    writeCounter, adReadCounter, adWriteCounter, txEngReadCounter,
    ackTable, pointer                   \* ack_table, ad_pointer

sources  == <<rxEvents, timerEvents, appEvents>>
counters == <<writeCounter, adReadCounter, adWriteCounter, txEngReadCounter>>
counts   == <<adReads, adWrites, txReads>>
vars     == <<sources, toAckDelay, toTxEng, counts, counters, ackTable, pointer>>

Counter == 0 .. CounterValues - 1

TypeOK ==
    /\ rxEvents \in Seq(Events) /\ timerEvents \in Seq(Events) /\ appEvents \in Seq(Events)
    /\ toAckDelay \in Seq(Events) /\ Len(toAckDelay) <= AckDepth
    /\ toTxEng \in Seq(Events) /\ Len(toTxEng) <= TxDepth
    /\ adReads \in 0 .. CountDepth /\ adWrites \in 0 .. CountDepth /\ txReads \in 0 .. CountDepth
    /\ writeCounter \in Counter /\ adReadCounter \in Counter
    /\ adWriteCounter \in Counter /\ txEngReadCounter \in Counter
    /\ ackTable \in [Sessions -> 0 .. AckDelay]
    /\ pointer \in Sessions

Init ==
    /\ rxEvents = <<>> /\ timerEvents = <<>> /\ appEvents = <<>>
    /\ toAckDelay = <<>> /\ toTxEng = <<>>
    /\ adReads = 0 /\ adWrites = 0 /\ txReads = 0
    /\ writeCounter = 0 /\ adReadCounter = 0
    /\ adWriteCounter = 0 /\ txEngReadCounter = 0
    /\ ackTable = [s \in Sessions |-> 0]
    /\ pointer = 0

(* A counter k steps on, wrapping at its width (k < CounterValues).        *)
Advance(c, k) == IF c + k < CounterValues THEN c + k ELSE c + k - CounterValues

Least(k, n) == IF k <= n THEN k ELSE n
-----------------------------------------------------------------------------
(* event_engine.                                                           *)

(* Each iteration takes at most one one from each FIFO of ones.            *)
CountReads ==
    /\ adReadCounter' = Advance(adReadCounter, Least(adReads, 1))
    /\ adReads' = adReads - Least(adReads, 1)
    /\ adWriteCounter' = Advance(adWriteCounter, Least(adWrites, 1))
    /\ adWrites' = adWrites - Least(adWrites, 1)
    /\ txEngReadCounter' = Advance(txEngReadCounter, Least(txReads, 1))
    /\ txReads' = txReads - Least(txReads, 1)

Forward(e) ==
    /\ Len(toAckDelay) < AckDepth
    /\ toAckDelay' = Append(toAckDelay, e)
    /\ writeCounter' = Advance(writeCounter, 1)

(* Variant: only the FIFO to the TX engine is looked at.                   *)
GateHalfOpen == adWriteCounter = txEngReadCounter

GateOpen == writeCounter = adReadCounter /\ adWriteCounter = txEngReadCounter

ForwardRx ==
    /\ rxEvents # <<>>
    /\ Forward(Head(rxEvents))
    /\ rxEvents' = Tail(rxEvents)
    /\ UNCHANGED <<timerEvents, appEvents>>

ForwardTimer ==
    /\ rxEvents = <<>> /\ GateOpen /\ timerEvents # <<>>
    /\ Forward(Head(timerEvents))
    /\ timerEvents' = Tail(timerEvents)
    /\ UNCHANGED <<rxEvents, appEvents>>

ForwardApp ==
    /\ rxEvents = <<>> /\ GateOpen /\ timerEvents = <<>> /\ appEvents # <<>>
    /\ Forward(Head(appEvents))
    /\ appEvents' = Tail(appEvents)
    /\ UNCHANGED <<rxEvents, timerEvents>>

ForwardNothing ==
    /\ rxEvents = <<>>
    /\ ~GateOpen \/ (timerEvents = <<>> /\ appEvents = <<>>)
    /\ UNCHANGED <<sources, toAckDelay, writeCounter>>

(* Variant: ones are only taken in an iteration that forwards nothing.     *)
StepCountsWhenIdle ==
    /\ \/ (ForwardRx \/ ForwardTimer \/ ForwardApp)
           /\ UNCHANGED <<adReadCounter, adWriteCounter, txEngReadCounter, counts>>
       \/ ForwardNothing /\ CountReads
    /\ UNCHANGED <<toTxEng, ackTable, pointer>>

EventEngineStep ==
    /\ ForwardRx \/ ForwardTimer \/ ForwardApp \/ ForwardNothing
    /\ CountReads
    /\ UNCHANGED <<toTxEng, ackTable, pointer>>
-----------------------------------------------------------------------------
(* ack_delay.                                                              *)

Emit(e) ==
    /\ Len(toTxEng) < TxDepth /\ adWrites < CountDepth
    /\ toTxEng' = Append(toTxEng, e)
    /\ adWrites' = adWrites + 1

TakeForDelay ==
    /\ toAckDelay # <<>> /\ adReads < CountDepth
    /\ toAckDelay' = Tail(toAckDelay)
    /\ adReads' = adReads + 1
    /\ UNCHANGED <<sources, txReads, counters, pointer>>

(* The first ACK of a session is held back ...                             *)
DelayAck ==
    LET e == Head(toAckDelay) IN
    /\ TakeForDelay
    /\ e.type = "ACK" /\ ackTable[e.sessionID] = 0
    /\ ackTable' = [ackTable EXCEPT ![e.sessionID] = AckDelay]
    /\ UNCHANGED <<toTxEng, adWrites>>

(* ... until another event of the session, whose segment carries it ...    *)
PassOn ==
    LET e == Head(toAckDelay) IN
    /\ TakeForDelay
    /\ ~(e.type = "ACK" /\ ackTable[e.sessionID] = 0)
    /\ ackTable' = [ackTable EXCEPT ![e.sessionID] = 0]
    /\ Emit(e)

NextPointer == pointer' = IF pointer + 1 = MaxSessions THEN 0 ELSE pointer + 1


TurnUncounted ==
    /\ toAckDelay = <<>>
    /\ IF ackTable[pointer] = 1
         THEN Len(toTxEng) < TxDepth /\ toTxEng' = Append(toTxEng, Event("ACK", pointer))
         ELSE UNCHANGED toTxEng
    /\ ackTable' = [ackTable EXCEPT ![pointer] = IF @ > 0 THEN @ - 1 ELSE 0]
    /\ NextPointer
    /\ UNCHANGED <<sources, toAckDelay, counts, counters>>

(* ... or its time is over: in cycles without an event the pointer counts  *)
(* down one session after the other.                                       *)
Turn ==
    /\ toAckDelay = <<>>
    /\ IF ackTable[pointer] = 1 THEN Emit(Event("ACK", pointer))
                                ELSE UNCHANGED <<toTxEng, adWrites>>
    /\ ackTable' = [ackTable EXCEPT ![pointer] = IF @ > 0 THEN @ - 1 ELSE 0]
    /\ NextPointer
    /\ UNCHANGED <<sources, toAckDelay, adReads, txReads, counters>>

AckDelayStep == DelayAck \/ PassOn \/ Turn
-----------------------------------------------------------------------------
(* txEng_metaLoader takes an event and says so.                            *)
TxEngRead ==
    /\ toTxEng # <<>> /\ txReads < CountDepth
    /\ toTxEng' = Tail(toTxEng)
    /\ txReads' = txReads + 1
    /\ UNCHANGED <<sources, toAckDelay, adReads, adWrites, counters, ackTable, pointer>>

(* The sources.                                                            *)
RxEvent(e) ==
    /\ Len(rxEvents) < SourceDepth
    /\ IsGenerated(e.type, e.sessionID)
    /\ rxEvents' = Append(rxEvents, e)
    /\ UNCHANGED <<timerEvents, appEvents, toAckDelay, toTxEng, counts, counters,
                   ackTable, pointer>>

TimerEvent(s) ==
    /\ Len(timerEvents) < SourceDepth
    /\ timerEvents' = Append(timerEvents, Event("TX", s))
    /\ UNCHANGED <<rxEvents, appEvents, toAckDelay, toTxEng, counts, counters,
                   ackTable, pointer>>

AppEvent(s) ==
    /\ Len(appEvents) < SourceDepth
    /\ appEvents' = Append(appEvents, Event("TX", s))
    /\ UNCHANGED <<rxEvents, timerEvents, toAckDelay, toTxEng, counts, counters,
                   ackTable, pointer>>

RxArrival == \E e \in Events : RxEvent(e)
Arrival == RxArrival \/ \E s \in Sessions : TimerEvent(s) \/ AppEvent(s)

Next == EventEngineStep \/ AckDelayStep \/ TxEngRead \/ Arrival

Spec == Init /\ [][Next]_vars

(* Every process runs in every clock cycle.                                *)
Fairness == WF_vars(EventEngineStep) /\ WF_vars(AckDelayStep) /\ WF_vars(TxEngRead)
FairSpec == Spec /\ Fairness
-----------------------------------------------------------------------------
(* Properties.                                                             *)

(* The counters never drift from the FIFOs they stand for, although four   *)
(* processes update them, an ACK that is held back is read but not         *)
(* written, and one that is due is written but not read: were a single     *)
(* count lost, the gate would never open again.                            *)
CountersAgree ==
    /\ writeCounter = Advance(adReadCounter, adReads + Len(toAckDelay))
    /\ Advance(adWriteCounter, adWrites)
          = Advance(txEngReadCounter, txReads + Len(toTxEng))

(* The first half of the gate is exact: it never opens while an event is   *)
(* on its way to ack_delay.                                                *)
GateMeansNoneToDelay == GateOpen => toAckDelay = <<>>

(* The three stages never wait for each other in a circle, although the    *)
(* events and the ones that count them run through bounded FIFOs in        *)
(* opposite directions: when event_engine is stalled on a full FIFO and    *)
(* takes no ones, ack_delay has room for its ones, and unless it can pass  *)
(* an event on the TX engine can take one.                                 *)
NoCircularWait ==
    Len(toAckDelay) = AckDepth =>
        /\ adReads < CountDepth /\ adWrites < CountDepth
        /\ Len(toTxEng) = TxDepth => txReads < CountDepth

(* The inductive form of NoCircularWait: what a FIFO and its ones hold     *)
(* together.                                                               *)
RoomInv ==
    /\ Len(toAckDelay) + adReads <= AckDepth
    /\ Len(toAckDelay) + adWrites <= AckDepth
    /\ Len(toAckDelay) + Len(toTxEng) + txReads <= AckDepth + TxDepth

(* A held-back ACK is not forgotten.  Once the sources pause, an event     *)
(* reaches the TX engine whose segment acknowledges the session - the      *)
(* number it carries is read when the TX engine takes the event, so one    *)
(* that waits there will do - or else the ACK was given up for a reset.    *)
(* That is the exception: ack_delay.cpp:56 has "Assumption no SYN/RST",    *)
(* but a reset for a segment without session comes by, names session 0     *)
(* and cancels the ACK of session 0, which it does not acknowledge.        *)
Acknowledges(e, s) == e.sessionID = s /\ e.type # "RST"
CancelledByReset(s) == \E i \in 1 .. Len(toTxEng) : toTxEng[i] = Event("RST", s)


(* Once the sources pause, every event has reached the TX engine and no    *)
(* ACK is held back: the gate always opens again.                          *)
SettlesWhenIdle ==
    <>[][~Arrival]_vars =>
        <>[](/\ timerEvents = <<>> /\ appEvents = <<>> /\ rxEvents = <<>>
             /\ toAckDelay = <<>> /\ toTxEng = <<>>
             /\ \A s \in Sessions : ackTable[s] = 0)
=============================================================================
