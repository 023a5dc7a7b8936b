-------------------------- MODULE EventEngineProofs --------------------------
(***************************************************************************)
(* Theorems about the events that make the TX engine send, for any number  *)
(* of sessions and any depths of the FIFOs.  About EventEngine: the        *)
(* counters behind the gate agree with the FIFOs they stand for, and the   *)
(* three stages never wait for each other in a circle.  About its source,  *)
(* the loop of Retransmission (Timers): an opening is always timed.        *)
(***************************************************************************)
EXTENDS EventEngine, TimedOpening, CommonLemmas

(* The loop that the events of timers come from has a state of its own.    *)
CONSTANTS Skip, SkipWindow, Timeout, MaxRetries, ClearDepth, SetDepth, EventDepth,
          ReleaseDepth, Window, MSS, MaxSent
VARIABLES position, prevPosition, update, clears, rx

Timers == INSTANCE Retransmission

IInv == TypeOK /\ CountersAgree /\ RoomInv

(* What is assumed of the depths.                                         *)
LEMMA DepthsAreNat ==
    /\ MaxSessions \in Nat \ {0} /\ AckDepth \in Nat \ {0} /\ TxDepth \in Nat \ {0}
    /\ CountDepth \in Nat \ {0} /\ AckDelay \in Nat \ {0} /\ CounterValues \in Nat
    /\ CountDepth <= AckDepth
    /\ AckDepth + CountDepth < CounterValues /\ TxDepth + CountDepth < CounterValues
  BY EventDepths

(* Stepping a counter on in two parts is stepping it on at once.           *)
LEMMA AdvanceTwice ==
    ASSUME NEW c \in Counter, NEW j \in Nat, NEW k \in Nat, j + k < CounterValues
    PROVE  /\ Advance(c, j) \in Counter
           /\ Advance(Advance(c, j), k) = Advance(c, j + k)
           /\ Advance(c, 0) = c
  BY DepthsAreNat DEF Advance, Counter

(* Counters that agree before a one is taken agree after it.               *)
LEMMA AdvanceInjective ==
    ASSUME NEW c \in Counter, NEW d \in Counter, NEW k \in Nat, k < CounterValues,
           Advance(c, k) = Advance(d, k)
    PROVE  c = d
  BY DepthsAreNat DEF Advance, Counter

LEMMA EventsAreTyped ==
    ASSUME NEW s \in Sessions
    PROVE  Event("ACK", s) \in Events /\ Event("TX", s) \in Events
  BY DEF Event, Events, AllKinds

LEMMA TableUpdate ==
    ASSUME NEW f \in [Sessions -> 0 .. AckDelay], NEW s, NEW v \in {0, AckDelay}
    PROVE  [f EXCEPT ![s] = v] \in [Sessions -> 0 .. AckDelay]
  <1>1. v \in 0 .. AckDelay BY DepthsAreNat
  <1> QED BY <1>1

(* The ones that an iteration of event_engine takes.                       *)
LEMMA CountsTyped ==
    ASSUME TypeOK, CountReads
    PROVE  /\ adReads' \in 0 .. CountDepth /\ adReads' = adReads - Least(adReads, 1)
           /\ adWrites' \in 0 .. CountDepth /\ adWrites' = adWrites - Least(adWrites, 1)
           /\ txReads' \in 0 .. CountDepth /\ txReads' = txReads - Least(txReads, 1)
           /\ adReadCounter' \in Counter /\ adWriteCounter' \in Counter
           /\ txEngReadCounter' \in Counter
  <1>1. /\ adReads' \in 0 .. CountDepth /\ adWrites' \in 0 .. CountDepth
        /\ txReads' \in 0 .. CountDepth
    BY DepthsAreNat DEF TypeOK, CountReads, Least
  <1>2. \A n \in Nat : Least(n, 1) \in {0, 1}
    BY DEF Least
  <1>3. \A c \in Counter : \A k \in {0, 1} : Advance(c, k) \in Counter
    BY DepthsAreNat DEF Advance, Counter
  <1>4. adReads \in Nat /\ adWrites \in Nat /\ txReads \in Nat
    BY DepthsAreNat DEF TypeOK
  <1> QED BY <1>1, <1>2, <1>3, <1>4 DEF TypeOK, CountReads

LEMMA ForwardTyped ==
    ASSUME TypeOK, NEW e \in Events, Forward(e)
    PROVE  /\ toAckDelay' \in Seq(Events) /\ Len(toAckDelay') = Len(toAckDelay) + 1
           /\ Len(toAckDelay') \in Nat /\ Len(toAckDelay') <= AckDepth
           /\ writeCounter' = Advance(writeCounter, 1) /\ writeCounter' \in Counter
  <1>1. Len(toAckDelay) \in Nat BY DEF TypeOK
  <1> QED BY <1>1, AppendFacts, DepthsAreNat DEF TypeOK, Forward, Advance, Counter

(* What event_engine does to the FIFO behind it and to its own counter.    *)
LEMMA EngineForwards ==
    ASSUME TypeOK, EventEngineStep
    PROVE  /\ rxEvents' \in Seq(Events) /\ timerEvents' \in Seq(Events)
           /\ appEvents' \in Seq(Events)
           /\ \/ UNCHANGED <<toAckDelay, writeCounter>>
              \/ /\ Len(toAckDelay) < AckDepth
                 /\ toAckDelay' \in Seq(Events)
                 /\ Len(toAckDelay') = Len(toAckDelay) + 1
                 /\ writeCounter' = Advance(writeCounter, 1)
                 /\ writeCounter' \in Counter
  <1>1. CASE ForwardRx
    <2>1. Head(rxEvents) \in Events /\ Tail(rxEvents) \in Seq(Events)
      BY <1>1, TailFacts DEF TypeOK, ForwardRx
    <2>2. Forward(Head(rxEvents)) BY <1>1 DEF ForwardRx
    <2> QED BY <1>1, <2>1, <2>2, ForwardTyped DEF TypeOK, ForwardRx, Forward
  <1>2. CASE ForwardTimer
    <2>1. Head(timerEvents) \in Events /\ Tail(timerEvents) \in Seq(Events)
      BY <1>2, TailFacts DEF TypeOK, ForwardTimer
    <2>2. Forward(Head(timerEvents)) BY <1>2 DEF ForwardTimer
    <2> QED BY <1>2, <2>1, <2>2, ForwardTyped DEF TypeOK, ForwardTimer, Forward
  <1>3. CASE ForwardApp
    <2>1. Head(appEvents) \in Events /\ Tail(appEvents) \in Seq(Events)
      BY <1>3, TailFacts DEF TypeOK, ForwardApp
    <2>2. Forward(Head(appEvents)) BY <1>3 DEF ForwardApp
    <2> QED BY <1>3, <2>1, <2>2, ForwardTyped DEF TypeOK, ForwardApp, Forward
  <1>4. CASE ForwardNothing
    BY <1>4 DEF TypeOK, ForwardNothing, sources
  <1> QED BY <1>1, <1>2, <1>3, <1>4 DEF EventEngineStep
-----------------------------------------------------------------------------
LEMMA EngineStep ==
    ASSUME IInv, EventEngineStep
    PROVE  IInv'
  <1>0. TypeOK /\ CountReads /\ UNCHANGED <<toTxEng, ackTable, pointer>>
    BY DEF IInv, EventEngineStep
  <1>1. Len(toAckDelay) \in Nat /\ Len(toTxEng) \in Nat
    BY <1>0 DEF TypeOK
  <1>2. TypeOK'
    <2>1. /\ rxEvents' \in Seq(Events) /\ timerEvents' \in Seq(Events)
          /\ appEvents' \in Seq(Events) /\ toAckDelay' \in Seq(Events)
          /\ writeCounter' \in Counter
      BY <1>0, EngineForwards DEF TypeOK
    <2>2. Len(toAckDelay') <= AckDepth
      BY <1>0, <1>1, EngineForwards, DepthsAreNat DEF TypeOK
    <2> QED BY <1>0, <2>1, <2>2, CountsTyped DEF TypeOK
  <1>3. RoomInv'
    <2>1. \/ Len(toAckDelay') = Len(toAckDelay)
          \/ /\ Len(toAckDelay') = Len(toAckDelay) + 1
             /\ Len(toAckDelay) < AckDepth
      BY <1>0, EngineForwards
    <2>2. /\ adReads \in Nat /\ adWrites \in Nat /\ txReads \in Nat
          /\ txReads <= CountDepth /\ Len(toTxEng) <= TxDepth
          /\ adReads' = IF adReads = 0 THEN 0 ELSE adReads - 1
          /\ adWrites' = IF adWrites = 0 THEN 0 ELSE adWrites - 1
          /\ txReads' = IF txReads = 0 THEN 0 ELSE txReads - 1
      <3>1. /\ adReads \in Nat /\ adWrites \in Nat /\ txReads \in Nat
            /\ txReads <= CountDepth /\ Len(toTxEng) <= TxDepth
        BY <1>0, DepthsAreNat DEF TypeOK
      <3>2. \A n \in Nat : n - Least(n, 1) = IF n = 0 THEN 0 ELSE n - 1
        BY DEF Least
      <3> QED BY <1>0, <3>1, <3>2, CountsTyped
    <2>3. RoomInv /\ Len(toTxEng') = Len(toTxEng)
      BY <1>0 DEF IInv
    <2> HIDE DEF IInv
    <2> QED
      BY <1>1, <2>1, <2>2, <2>3, DepthsAreNat DEF RoomInv
  <1>4. writeCounter' = Advance(adReadCounter', adReads' + Len(toAckDelay'))
    <2> DEFINE k == Least(adReads, 1)
               n == Len(toAckDelay)
    <2>1. k \in Nat /\ adReads \in Nat /\ adReads' \in Nat /\ adReads' = adReads - k
      BY <1>0, CountsTyped, DepthsAreNat DEF TypeOK, Least
    <2>2. adReadCounter \in Counter /\ adReadCounter' = Advance(adReadCounter, k)
      BY <1>0 DEF TypeOK, CountReads
    <2>3. writeCounter = Advance(adReadCounter, adReads + n) /\ adReads + n <= AckDepth
      BY <1>1, <2>1 DEF IInv, CountersAgree, RoomInv
    <2>4. CASE UNCHANGED <<toAckDelay, writeCounter>>
      BY <1>1, <2>1, <2>2, <2>3, <2>4, AdvanceTwice, DepthsAreNat
    <2>5. CASE Len(toAckDelay') = n + 1 /\ writeCounter' = Advance(writeCounter, 1)
      <3>1. writeCounter' = Advance(adReadCounter, adReads + n + 1)
        BY <1>1, <2>1, <2>2, <2>3, <2>5, AdvanceTwice, DepthsAreNat
      <3>2. Advance(adReadCounter', adReads' + n + 1) = Advance(adReadCounter, adReads + n + 1)
        BY <1>1, <2>1, <2>2, <2>3, AdvanceTwice, DepthsAreNat
      <3> QED BY <1>1, <2>1, <2>5, <3>1, <3>2
    <2> QED BY <1>0, <2>4, <2>5, EngineForwards
  <1>5. Advance(adWriteCounter', adWrites') = Advance(txEngReadCounter', txReads' + Len(toTxEng'))
    <2> DEFINE j == Least(adWrites, 1)
               k == Least(txReads, 1)
               n == Len(toTxEng)
    <2>1. /\ j \in Nat /\ adWrites \in Nat /\ adWrites' \in Nat /\ adWrites' = adWrites - j
          /\ k \in Nat /\ txReads \in Nat /\ txReads' \in Nat /\ txReads' = txReads - k
          /\ n \in Nat /\ n <= TxDepth /\ txReads <= CountDepth /\ adWrites <= CountDepth
      BY <1>0, <1>1, CountsTyped, DepthsAreNat DEF TypeOK, Least
    <2>2. /\ adWriteCounter \in Counter /\ adWriteCounter' = Advance(adWriteCounter, j)
          /\ txEngReadCounter \in Counter /\ txEngReadCounter' = Advance(txEngReadCounter, k)
      BY <1>0 DEF TypeOK, CountReads
    <2>3. Advance(adWriteCounter', adWrites') = Advance(adWriteCounter, adWrites)
      BY <2>1, <2>2, AdvanceTwice, DepthsAreNat
    <2>4. Advance(txEngReadCounter', txReads' + n) = Advance(txEngReadCounter, txReads + n)
      BY <2>1, <2>2, AdvanceTwice, DepthsAreNat
    <2> QED BY <1>0, <2>3, <2>4 DEF IInv, CountersAgree
  <1> QED BY <1>2, <1>3, <1>4, <1>5 DEF IInv, CountersAgree

(* ack_delay takes an event and holds it back, ...                         *)
LEMMA DelayStep ==
    ASSUME IInv, DelayAck
    PROVE  IInv'
  <1>1. TypeOK BY DEF IInv
  <1>2. /\ Head(toAckDelay) \in Events /\ Tail(toAckDelay) \in Seq(Events)
        /\ Len(toAckDelay) \in Nat \ {0} /\ Len(toAckDelay') = Len(toAckDelay) - 1
        /\ toAckDelay' = Tail(toAckDelay) /\ adReads < CountDepth /\ adReads' = adReads + 1
        /\ adReads \in Nat /\ Len(toTxEng) \in Nat /\ adWrites \in Nat /\ txReads \in Nat
    BY <1>1, TailFacts, DepthsAreNat DEF TypeOK, DelayAck, TakeForDelay
  <1>3. UNCHANGED <<sources, txReads, counters, pointer, toTxEng, adWrites>>
    BY DEF DelayAck, TakeForDelay
  <1>4. ackTable' \in [Sessions -> 0 .. AckDelay]
    <2>1. ackTable \in [Sessions -> 0 .. AckDelay]
      BY <1>1 DEF TypeOK
    <2> QED BY <2>1, TableUpdate DEF DelayAck
  <1>5. TypeOK'
    BY <1>1, <1>2, <1>3, <1>4, DepthsAreNat DEF TypeOK, sources, counters
  <1>6. RoomInv'
    BY <1>2, <1>3, DepthsAreNat DEF IInv, RoomInv
  <1>7. adReads' + Len(toAckDelay') = adReads + Len(toAckDelay)
    BY <1>2
  <1> QED BY <1>3, <1>5, <1>6, <1>7 DEF IInv, CountersAgree, counters

(* ... or writes it on with everything held back for its session, ...      *)
LEMMA EmitFacts ==
    ASSUME IInv, NEW e \in Events, Emit(e), UNCHANGED <<counters, txReads>>
    PROVE  /\ toTxEng' \in Seq(Events) /\ Len(toTxEng') = Len(toTxEng) + 1
           /\ Len(toTxEng) \in Nat /\ Len(toTxEng) < TxDepth
           /\ adWrites < CountDepth /\ adWrites' = adWrites + 1 /\ adWrites \in Nat
           /\ Advance(adWriteCounter', adWrites')
                = Advance(txEngReadCounter', txReads' + Len(toTxEng'))
  <1>1. TypeOK BY DEF IInv
  <1>2. /\ toTxEng' \in Seq(Events) /\ Len(toTxEng') = Len(toTxEng) + 1
        /\ Len(toTxEng) \in Nat /\ Len(toTxEng) < TxDepth
        /\ adWrites < CountDepth /\ adWrites' = adWrites + 1 /\ adWrites \in Nat
        /\ txReads \in Nat /\ txReads <= CountDepth
        /\ adWriteCounter \in Counter /\ txEngReadCounter \in Counter
    BY <1>1, AppendFacts, DepthsAreNat DEF TypeOK, Emit
  <1>3. Advance(adWriteCounter, adWrites) = Advance(txEngReadCounter, txReads + Len(toTxEng))
    BY DEF IInv, CountersAgree
  <1>4. Advance(adWriteCounter, adWrites + 1) = Advance(Advance(adWriteCounter, adWrites), 1)
    BY <1>2, AdvanceTwice, DepthsAreNat
  <1>5. Advance(txEngReadCounter, txReads + Len(toTxEng) + 1)
          = Advance(Advance(txEngReadCounter, txReads + Len(toTxEng)), 1)
    BY <1>2, AdvanceTwice, DepthsAreNat
  <1>6. txReads' + Len(toTxEng') = txReads + Len(toTxEng) + 1
    BY <1>2
  <1>7. UNCHANGED <<adWriteCounter, txEngReadCounter>>
    BY DEF counters
  <1> QED BY <1>2, <1>3, <1>4, <1>5, <1>6, <1>7

LEMMA PassStep ==
    ASSUME IInv, PassOn
    PROVE  IInv'
  <1>1. TypeOK BY DEF IInv
  <1>2. /\ Head(toAckDelay) \in Events /\ Tail(toAckDelay) \in Seq(Events)
        /\ Len(toAckDelay) \in Nat \ {0} /\ Len(toAckDelay') = Len(toAckDelay) - 1
        /\ toAckDelay' = Tail(toAckDelay) /\ adReads < CountDepth /\ adReads' = adReads + 1
        /\ adReads \in Nat /\ txReads \in Nat
    BY <1>1, TailFacts, DepthsAreNat DEF TypeOK, PassOn, TakeForDelay
  <1>3. UNCHANGED <<sources, txReads, counters, pointer>>
    BY DEF PassOn, TakeForDelay
  <1>4. /\ toTxEng' \in Seq(Events) /\ Len(toTxEng') = Len(toTxEng) + 1
        /\ Len(toTxEng) \in Nat /\ Len(toTxEng) < TxDepth
        /\ adWrites < CountDepth /\ adWrites' = adWrites + 1 /\ adWrites \in Nat
        /\ Advance(adWriteCounter', adWrites')
              = Advance(txEngReadCounter', txReads' + Len(toTxEng'))
    BY <1>2, <1>3, EmitFacts DEF PassOn
  <1>5. ackTable' \in [Sessions -> 0 .. AckDelay]
    <2>1. ackTable \in [Sessions -> 0 .. AckDelay]
      BY <1>1 DEF TypeOK
    <2> QED BY <2>1, TableUpdate DEF PassOn
  <1>6. TypeOK'
    BY <1>1, <1>2, <1>3, <1>4, <1>5, DepthsAreNat DEF TypeOK, sources, counters
  <1>7. RoomInv'
    BY <1>2, <1>3, <1>4, DepthsAreNat DEF IInv, RoomInv
  <1>8. adReads' + Len(toAckDelay') = adReads + Len(toAckDelay)
    BY <1>2
  <1> QED BY <1>3, <1>4, <1>6, <1>7, <1>8 DEF IInv, CountersAgree, counters

(* ... or counts a session down.                                           *)
LEMMA TurnStep ==
    ASSUME IInv, Turn
    PROVE  IInv'
  <1>1. TypeOK BY DEF IInv
  <1>2. UNCHANGED <<sources, toAckDelay, adReads, txReads, counters>> /\ toAckDelay = <<>>
    BY DEF Turn
  <1>3. pointer' \in Sessions
    BY <1>1, DepthsAreNat DEF TypeOK, Turn, NextPointer, Sessions
  <1>4. ackTable' \in [Sessions -> 0 .. AckDelay]
    BY <1>1, DepthsAreNat DEF TypeOK, Turn
  <1>5. Len(toAckDelay) = 0 /\ txReads \in Nat /\ adReads \in Nat /\ txReads <= CountDepth
    BY <1>1, <1>2, EmptySeq, DepthsAreNat DEF TypeOK
  <1>6. CASE Emit(Event("ACK", pointer))
    <2>1. Event("ACK", pointer) \in Events
      BY <1>1, EventsAreTyped DEF TypeOK
    <2>2. /\ toTxEng' \in Seq(Events) /\ Len(toTxEng') = Len(toTxEng) + 1
          /\ Len(toTxEng) \in Nat /\ Len(toTxEng) < TxDepth
          /\ adWrites < CountDepth /\ adWrites' = adWrites + 1 /\ adWrites \in Nat
          /\ Advance(adWriteCounter', adWrites')
                = Advance(txEngReadCounter', txReads' + Len(toTxEng'))
      BY <1>2, <1>6, <2>1, EmitFacts
    <2>3. TypeOK'
      BY <1>1, <1>2, <1>3, <1>4, <2>2, DepthsAreNat DEF TypeOK, sources, counters
    <2>4. RoomInv'
      BY <1>2, <1>5, <2>2, DepthsAreNat DEF IInv, RoomInv
    <2> QED BY <1>2, <2>2, <2>3, <2>4 DEF IInv, CountersAgree, counters
  <1>7. CASE UNCHANGED <<toTxEng, adWrites>>
    <2>1. TypeOK'
      BY <1>1, <1>2, <1>3, <1>4, <1>7 DEF TypeOK, sources, counters
    <2> QED BY <1>2, <1>7, <2>1 DEF IInv, RoomInv, CountersAgree, counters
  <1> QED BY <1>6, <1>7 DEF Turn

LEMMA ReadStep ==
    ASSUME IInv, TxEngRead
    PROVE  IInv'
  <1>1. TypeOK BY DEF IInv
  <1>2. /\ Tail(toTxEng) \in Seq(Events) /\ Len(toTxEng) \in Nat \ {0}
        /\ toTxEng' = Tail(toTxEng) /\ Len(toTxEng') = Len(toTxEng) - 1
        /\ txReads \in Nat /\ txReads < CountDepth /\ txReads' = txReads + 1
        /\ Len(toAckDelay) \in Nat
    BY <1>1, TailFacts, DepthsAreNat DEF TypeOK, TxEngRead
  <1>3. UNCHANGED <<sources, toAckDelay, adReads, adWrites, counters, ackTable, pointer>>
    BY DEF TxEngRead
  <1>4. TypeOK'
    BY <1>1, <1>2, <1>3, DepthsAreNat DEF TypeOK, sources, counters
  <1>5. txReads' + Len(toTxEng') = txReads + Len(toTxEng)
    BY <1>2
  <1>6. RoomInv'
    BY <1>2, <1>3, DepthsAreNat DEF IInv, RoomInv
  <1> QED BY <1>3, <1>4, <1>5, <1>6 DEF IInv, CountersAgree, counters

LEMMA ArrivalStep ==
    ASSUME IInv, Arrival
    PROVE  IInv'
  <1>1. TypeOK BY DEF IInv
  <1> DEFINE Arrived ==
        /\ rxEvents' \in Seq(Events) /\ timerEvents' \in Seq(Events)
        /\ appEvents' \in Seq(Events)
        /\ UNCHANGED <<toAckDelay, toTxEng, counts, counters, ackTable, pointer>>
  <1>2. Arrived
    <2>1. ASSUME NEW e \in Events, RxEvent(e) PROVE Arrived
      BY <1>1, <2>1, AppendFacts DEF TypeOK, RxEvent
    <2>2. ASSUME NEW s \in Sessions, TimerEvent(s) PROVE Arrived
      BY <1>1, <2>2, AppendFacts, EventsAreTyped DEF TypeOK, TimerEvent
    <2>3. ASSUME NEW s \in Sessions, AppEvent(s) PROVE Arrived
      BY <1>1, <2>3, AppendFacts, EventsAreTyped DEF TypeOK, AppEvent
    <2> QED BY <2>1, <2>2, <2>3 DEF Arrival, RxArrival
  <1> QED
    BY <1>1, <1>2 DEF IInv, TypeOK, CountersAgree, RoomInv, counts, counters

(* The strengthened invariant: types, counters and room together.  The     *)
(* counters' agreement needs RoomInv, which bounds what they may differ    *)
(* by below their number of values.                                        *)
THEOREM Invariance == Spec => []IInv
  <1>1. Init => IInv
    <2> SUFFICES ASSUME Init PROVE IInv
      OBVIOUS
    <2>1. /\ <<>> \in Seq(Events) /\ Len(<<>>) = 0
      OBVIOUS
    <2>2. TypeOK
      BY <2>1, DepthsAreNat DEF Init, TypeOK, Counter, Sessions
    <2>3. RoomInv
      BY <2>1, DepthsAreNat DEF Init, RoomInv
    <2>4. CountersAgree
      BY <2>1, DepthsAreNat DEF Init, CountersAgree, Advance
    <2> QED BY <2>2, <2>3, <2>4 DEF IInv
  <1>2. IInv /\ [Next]_vars => IInv'
    <2>1. CASE UNCHANGED vars
      BY <2>1 DEF IInv, TypeOK, CountersAgree, RoomInv, vars, sources, counts, counters
    <2> QED
      BY <2>1, EngineStep, DelayStep, PassStep, TurnStep, ReadStep, ArrivalStep
      DEF Next, AckDelayStep
  <1> QED BY <1>1, <1>2, PTL DEF Spec

(* The FIFOs and counters keep their types and depths.                     *)
THEOREM TypeCorrect == Spec => []TypeOK
  <1>1. IInv => TypeOK BY DEF IInv
  <1> QED BY <1>1, Invariance, PTL

(* No count is ever lost: the gate's counters stand for the FIFOs.         *)
THEOREM ExactCounters == Spec => []CountersAgree
  <1>1. IInv => CountersAgree BY DEF IInv
  <1> QED BY <1>1, Invariance, PTL

(* What a FIFO and its ones hold together is bounded.                      *)
THEOREM Room == Spec => []RoomInv
  <1>1. IInv => RoomInv BY DEF IInv
  <1> QED BY <1>1, Invariance, PTL

(* When event_engine is stalled, one of the two stages behind it can step. *)
THEOREM NoDeadlock == Spec => []NoCircularWait
  <1>1. IInv => NoCircularWait
    <2> SUFFICES ASSUME IInv, Len(toAckDelay) = AckDepth
                 PROVE  /\ adReads < CountDepth /\ adWrites < CountDepth
                        /\ Len(toTxEng) = TxDepth => txReads < CountDepth
      BY DEF NoCircularWait
    <2>1. /\ adReads \in Nat /\ adWrites \in Nat /\ txReads \in Nat
          /\ Len(toTxEng) \in Nat
      BY DepthsAreNat DEF IInv, TypeOK
    <2> QED BY <2>1, DepthsAreNat DEF IInv, RoomInv
  <1> QED BY <1>1, Invariance, PTL

(* While the gate is open nothing is on its way to ack_delay.              *)
THEOREM GateIsExact == Spec => []GateMeansNoneToDelay
  <1>1. IInv => GateMeansNoneToDelay
    <2> SUFFICES ASSUME IInv, GateOpen PROVE toAckDelay = <<>>
      BY DEF GateMeansNoneToDelay
    <2>1. /\ adReads \in Nat /\ Len(toAckDelay) \in Nat /\ adReadCounter \in Counter
          /\ toAckDelay \in Seq(Events)
      BY DepthsAreNat DEF IInv, TypeOK
    <2>2. adReadCounter = Advance(adReadCounter, adReads + Len(toAckDelay))
      BY DEF IInv, CountersAgree, GateOpen
    <2>3. adReads + Len(toAckDelay) < CounterValues
      BY <2>1, DepthsAreNat DEF IInv, RoomInv
    <2>4. Len(toAckDelay) = 0
      BY <2>1, <2>2, <2>3, DepthsAreNat DEF Advance, Counter
    <2> QED BY <2>1, <2>4, EmptySeq
  <1> QED BY <1>1, Invariance, PTL
-----------------------------------------------------------------------------
(* The retransmission loop.                                                *)

(* OpeningInv says of a session what keeps its opening timed.              *)
LoopInv == Timers!TypeOK /\ \A s \in Connections : Timers!OpeningInv(s)

LEMMA InAppended ==
    ASSUME NEW S, NEW f \in Seq(S), NEW e \in S
    PROVE  \A s : Timers!InFifo(Append(f, e), s) <=> Timers!InFifo(f, s) \/ e.sessionID = s
  <1>1. /\ Len(Append(f, e)) = Len(f) + 1 /\ Len(f) \in Nat
        /\ \A i \in 1 .. Len(f) : Append(f, e)[i] = f[i]
        /\ Append(f, e)[Len(f) + 1] = e
    BY AppendFacts, LenProperties
  <1>2. \A i \in 1 .. Len(f) + 1 : i \in 1 .. Len(f) \/ i = Len(f) + 1
    BY <1>1
  <1>3. 1 .. Len(f) \subseteq 1 .. Len(f) + 1 /\ Len(f) + 1 \in 1 .. Len(f) + 1
    BY <1>1
  <1> QED BY <1>1, <1>2, <1>3 DEF Timers!InFifo

LEMMA InTail ==
    ASSUME NEW S, NEW f \in Seq(S), f # <<>>
    PROVE  \A s : Timers!InFifo(f, s) <=> Head(f).sessionID = s \/ Timers!InFifo(Tail(f), s)
  <1>1. /\ Head(f) = f[1] /\ Len(Tail(f)) = Len(f) - 1 /\ Len(f) \in Nat \ {0}
        /\ \A i \in 1 .. Len(f) - 1 : Tail(f)[i] = f[i + 1]
    BY TailFacts
  <1>2. \A i \in 1 .. Len(f) : i = 1 \/ i - 1 \in 1 .. Len(f) - 1
    BY <1>1
  <1>3. \A i \in 1 .. Len(f) - 1 : i + 1 \in 1 .. Len(f)
    BY <1>1
  <1>4. ASSUME NEW s, Timers!InFifo(f, s) PROVE Head(f).sessionID = s \/ Timers!InFifo(Tail(f), s)
    <2>1. PICK i \in 1 .. Len(f) : f[i].sessionID = s
      BY <1>4 DEF Timers!InFifo
    <2>2. CASE i # 1
      <3>1. i - 1 \in 1 .. Len(f) - 1 /\ Tail(f)[i - 1] = f[i - 1 + 1] /\ i - 1 + 1 = i
        BY <1>1, <1>2, <2>2
      <3> QED BY <1>1, <2>1, <3>1 DEF Timers!InFifo
    <2> QED BY <1>1, <2>1, <2>2
  <1>5. ASSUME NEW s, Head(f).sessionID = s \/ Timers!InFifo(Tail(f), s) PROVE Timers!InFifo(f, s)
    <2>1. 1 \in 1 .. Len(f)
      BY <1>1
    <2> QED BY <1>1, <1>3, <1>5, <2>1 DEF Timers!InFifo
  <1> QED BY <1>4, <1>5

(* A FIFO of which every element is in a set.                              *)
LEMMA AllAppended ==
    ASSUME NEW S, NEW f \in Seq(S), NEW e \in S, NEW T, \A i \in 1 .. Len(f) : f[i] \in T, e \in T
    PROVE  \A i \in 1 .. Len(Append(f, e)) : Append(f, e)[i] \in T
  <1>1. /\ Len(Append(f, e)) = Len(f) + 1 /\ Len(f) \in Nat
        /\ \A i \in 1 .. Len(f) : Append(f, e)[i] = f[i]
        /\ Append(f, e)[Len(f) + 1] = e
    BY AppendFacts, LenProperties
  <1>2. \A i \in 1 .. Len(f) + 1 : i \in 1 .. Len(f) \/ i = Len(f) + 1
    BY <1>1
  <1> QED BY <1>1, <1>2

LEMMA AllInTail ==
    ASSUME NEW S, NEW f \in Seq(S), f # <<>>, NEW T, \A i \in 1 .. Len(f) : f[i] \in T
    PROVE  Head(f) \in T /\ \A i \in 1 .. Len(Tail(f)) : Tail(f)[i] \in T
  <1>1. /\ Head(f) = f[1] /\ Len(Tail(f)) = Len(f) - 1 /\ Len(f) \in Nat \ {0}
        /\ \A i \in 1 .. Len(f) - 1 : Tail(f)[i] = f[i + 1]
    BY TailFacts
  <1>2. 1 \in 1 .. Len(f) /\ \A i \in 1 .. Len(f) - 1 : i + 1 \in 1 .. Len(f)
    BY <1>1
  <1> QED BY <1>1, <1>2
(* What is assumed of the loop's constants: that it never leaves its table *)
(* when it skips ahead of a session in use, too.                           *)
LoopConstants == Timers!ConstantsOK /\ Timers!NoneIsNothing /\ Timers!SkipStaysInside

LEMMA LoopFacts ==
    ASSUME LoopConstants
    PROVE  /\ MaxSessions \in Nat \ {0} /\ Skip \in Nat /\ MSS \in Nat \ {0} /\ MaxRetries \in Nat
           /\ Timers!Sessions = 0 .. MaxSessions - 1
           /\ Connections \subseteq Timers!Sessions
           /\ \A s \in Connections : s \in Nat /\ s + Skip < MaxSessions
           /\ Timeout \in [0 .. MaxRetries -> Nat]
           /\ Window \in Nat /\ Window > 1 /\ MaxSent \in Nat
           /\ None \notin Timers!Clears /\ None \notin Timers!Work /\ None \notin Timers!Loads
           /\ None \notin Timers!Asked
  <1>1. /\ MaxSessions \in Nat \ {0} /\ Skip \in Nat /\ MSS \in Nat \ {0} /\ MaxRetries \in Nat
        /\ Timeout \in [0 .. MaxRetries -> Nat]
        /\ Window \in Nat /\ Window > 1 /\ MaxSent \in Nat
        /\ Connections \subseteq 0 .. MaxSessions - 1
    <2>1. Timers!ConstantsOK
      BY DEF LoopConstants
    <2>2. MaxSessions \in Nat \ {0} /\ Skip \in Nat /\ MSS \in Nat \ {0}
      BY <2>1 DEF Timers!ConstantsOK
    <2>3. Window \in Nat /\ MaxSent \in Nat /\ MaxSent + 1 < Window
      BY <2>1 DEF Timers!ConstantsOK
    <2>4. /\ MaxRetries \in Nat /\ Timeout \in [0 .. MaxRetries -> Nat]
          /\ Connections \subseteq 0 .. MaxSessions - 1
      BY <2>1 DEF Timers!ConstantsOK
    <2> QED BY <2>2, <2>3, <2>4
  <1>2. /\ None \notin Timers!Clears /\ None \notin Timers!Work /\ None \notin Timers!Loads
        /\ None \notin Timers!Asked
    BY DEF LoopConstants, Timers!NoneIsNothing
  <1>3. \A s \in Connections : s \in Nat /\ s + Skip < MaxSessions
    BY <1>1 DEF LoopConstants, Timers!SkipStaysInside
  <1> QED BY <1>1, <1>2, <1>3 DEF Timers!Sessions

Cells == [active : BOOLEAN, time : Nat, retries : 0 .. MaxRetries, type : Timers!Kinds]
Sars  == [acked : Nat, sent : Nat, fin : BOOLEAN]

(* The parts of the type.                                                  *)
LEMMA LoopTypes ==
    ASSUME LoopInv
    PROVE  /\ table \in [Timers!Sessions -> Cells]
           /\ \A s \in Timers!Sessions : table[s].active => s \in Connections
           /\ position \in Timers!Sessions
           /\ update \in Timers!Clears \cup {None}
           /\ clears \in Seq(Timers!Clears) /\ sets \in Seq(Timers!Sets)
           /\ events \in Seq(Timers!Events) /\ releases \in Seq(Connections)
           /\ sar \in [Timers!Sessions -> Sars]
           /\ tx \in Timers!Work \cup {None} /\ rx \in Timers!Loads \cup {None}
           /\ asked \in Timers!Asked \cup {None}
           /\ state \in [Timers!Sessions -> Timers!States]
           /\ answered \in [Timers!Sessions -> BOOLEAN]
  BY DEF LoopInv, Timers!TypeOK, Cells, Sars

(* A step of the timer, as far as it concerns one session.                 *)
LEMMA TimerFrame ==
    ASSUME LoopInv, NEW q \in Connections,
           UNCHANGED <<sar, tx, rx, asked, state, answered>>,
           Timers!NothingStops(q) => Timers!NothingStops(q)',
           Timers!Untimed(q) => Timers!Untimed(q)',
           Timers!NothingStops(q) /\ Timers!AtTimer(q) => Timers!AtTimer(q)'
    PROVE  Timers!OpeningInv(q)'
  <1>1. Timers!OpeningInv(q)
    BY DEF LoopInv
  <1>2. Timers!Pending(q)' <=> Timers!Pending(q)
    BY DEF Timers!Pending
  <1>3. Timers!Untouched(q) => Timers!Untouched(q)'
    BY DEF Timers!Untouched
  <1>4. Timers!OnlyOpening(q) => Timers!NothingStops(q) /\ Timers!OnlyOpening(q)'
    BY DEF Timers!OnlyOpening
  <1>5. Timers!NothingStops(q) /\ Timers!IsTimed(q) => Timers!IsTimed(q)'
    BY DEF Timers!IsTimed
  <1> QED BY <1>1, <1>2, <1>3, <1>4, <1>5 DEF Timers!OpeningInv

(* retransmit_timer applies a clear.                                       *)
LEMMA ApplyClearStep ==
    ASSUME LoopConstants, LoopInv, Timers!ApplyClear,
           UNCHANGED <<sar, tx, rx, asked, state, answered>>
    PROVE  LoopInv'
  <1>1. /\ update \in Timers!Clears /\ update # None /\ update' = None
        /\ UNCHANGED <<position, prevPosition, clears, sets, events, releases>>
    BY LoopTypes DEF Timers!ApplyClear, Timers!ClearDue, Timers!fifos
  <1>2. PICK s \in Connections : s = update.sessionID
    BY <1>1 DEF Timers!Clears
  <1>3. s \in Timers!Sessions /\ table[s] \in Cells /\ update.stop \in BOOLEAN
        /\ Timeout[0] \in Nat
    <2>1. update.stop \in BOOLEAN /\ s \in Timers!Sessions
      BY <1>1, LoopFacts DEF Timers!Clears
    <2>2. Timeout[0] \in Nat
      BY LoopFacts
    <2>3. table[s] \in Cells
      BY <2>1, LoopTypes
    <2> QED BY <2>1, <2>2, <2>3
  <1>4. PICK e \in Cells : /\ table' = [table EXCEPT ![s] = e]
                           /\ e.active = IF update.stop THEN FALSE ELSE table[s].active
    <2>0. 0 \in 0 .. MaxRetries /\ 0 \in Nat
      BY LoopFacts
    <2>1. CASE update.stop
      <3> DEFINE e == [table[s] EXCEPT !.time = 0, !.active = FALSE, !.retries = 0]
      <3>1. e \in Cells /\ e.active = FALSE
        BY <1>3, <2>0 DEF Cells
      <3>2. table' = [table EXCEPT ![s] = [[table[s] EXCEPT !.time = 0, !.active = FALSE] EXCEPT !.retries = 0]]
        BY <1>2, <2>1 DEF Timers!ApplyClear
      <3>3. [[table[s] EXCEPT !.time = 0, !.active = FALSE] EXCEPT !.retries = 0] = e
        BY <1>3 DEF Cells
      <3> QED BY <2>1, <3>1, <3>2, <3>3
    <2>2. CASE ~update.stop
      <3> DEFINE e == [table[s] EXCEPT !.time = Timeout[0], !.retries = 0]
      <3>1. e \in Cells /\ e.active = table[s].active
        BY <1>3, <2>0 DEF Cells
      <3>2. table' = [table EXCEPT ![s] = [[table[s] EXCEPT !.time = Timeout[0]] EXCEPT !.retries = 0]]
        BY <1>2, <2>2 DEF Timers!ApplyClear
      <3>3. [[table[s] EXCEPT !.time = Timeout[0]] EXCEPT !.retries = 0] = e
        BY <1>3 DEF Cells
      <3> QED BY <2>2, <3>1, <3>2, <3>3
    <2> QED BY <2>1, <2>2
  <1>5. Timers!TypeOK'
    <2>1. table' \in [Timers!Sessions -> Cells]
      BY <1>4, LoopTypes
    <2>2. \A q \in Timers!Sessions : table'[q].active => q \in Connections
      BY <1>3, <1>4, LoopTypes
    <2> QED BY <1>1, <2>1, <2>2, LoopTypes DEF Timers!TypeOK, Cells, Sars
  <1>6. ASSUME NEW q \in Connections PROVE Timers!OpeningInv(q)'
    <2>1. q = s => (table'[q].active <=> ~update.stop /\ table[q].active)
      BY <1>3, <1>4, LoopTypes
    <2>2. q # s => table'[q] = table[q]
      BY <1>4, LoopTypes, LoopFacts
    <2>3. Timers!NothingStops(q) => Timers!NothingStops(q)'
      BY <1>1 DEF Timers!NothingStops
    <2>4. Timers!Untimed(q) => Timers!Untimed(q)'
      BY <1>1, <2>1, <2>2 DEF Timers!Untimed, Timers!InFifo
    <2>5. Timers!NothingStops(q) /\ Timers!AtTimer(q) => Timers!AtTimer(q)'
      BY <1>1, <1>2, <2>1, <2>2 DEF Timers!NothingStops, Timers!AtTimer, Timers!InFifo
    <2> QED BY <2>3, <2>4, <2>5, TimerFrame
  <1> QED BY <1>5, <1>6 DEF LoopInv

(* The clears that do not stop the timer of a session.                     *)
Harmless(q) == {e \in Timers!Clears : e.sessionID = q => ~e.stop}

LEMMA NothingStopsIs ==
    ASSUME clears \in Seq(Timers!Clears), NEW q
    PROVE  Timers!NothingStops(q) <=>
             /\ \A i \in 1 .. Len(clears) : clears[i] \in Harmless(q)
             /\ update # None /\ update.sessionID = q => ~update.stop
  <1>1. \A i \in 1 .. Len(clears) : clears[i] \in Timers!Clears
    BY ElementOfSeq
  <1> QED BY <1>1, Zenon DEF Timers!NothingStops, Harmless

LEMMA TakeClearStep ==
    ASSUME LoopConstants, LoopInv, Timers!TakeClear,
           UNCHANGED <<sar, tx, rx, asked, state, answered>>
    PROVE  LoopInv'
  <1>1. /\ update = None /\ update' = Head(clears) /\ clears' = Tail(clears) /\ clears # <<>>
        /\ UNCHANGED <<table, position, prevPosition, sets, events, releases>>
    BY DEF Timers!TakeClear
  <1>2. update' \in Timers!Clears /\ clears' \in Seq(Timers!Clears)
    BY <1>1, LoopTypes, TailFacts
  <1>3. Timers!TypeOK'
    BY <1>1, <1>2, LoopTypes DEF Timers!TypeOK, Cells, Sars
  <1>4. ASSUME NEW q \in Connections PROVE Timers!OpeningInv(q)'
    <2>1. ASSUME Timers!NothingStops(q) PROVE Timers!NothingStops(q)'
      <3>1. \A i \in 1 .. Len(clears) : clears[i] \in Harmless(q)
        BY <2>1, LoopTypes, NothingStopsIs
      <3>2. Head(clears) \in Harmless(q) /\ \A i \in 1 .. Len(clears') : clears'[i] \in Harmless(q)
        BY <1>1, <3>1, LoopTypes, AllInTail
      <3> QED BY <1>1, <3>2 DEF Timers!NothingStops, Harmless
    <2>2. Timers!InFifo(clears, q) <=> Head(clears).sessionID = q \/ Timers!InFifo(clears', q)
      BY <1>1, LoopTypes, InTail
    <2>3. Timers!Untimed(q) => Timers!Untimed(q)'
      BY <1>1, <2>2 DEF Timers!Untimed, Timers!InFifo
    <2>4. Timers!AtTimer(q) => Timers!AtTimer(q)'
      BY <1>1 DEF Timers!AtTimer, Timers!InFifo
    <2> QED BY <2>1, <2>3, <2>4, TimerFrame
  <1> QED BY <1>3, <1>4 DEF LoopInv

(* A timer that is set again stays at its time.                            *)
LEMMA ApplySetStep ==
    ASSUME LoopConstants, LoopInv, Timers!ApplySet,
           UNCHANGED <<sar, tx, rx, asked, state, answered>>
    PROVE  LoopInv'
  <1>1. /\ sets # <<>> /\ sets' = Tail(sets)
        /\ UNCHANGED <<update, clears, events, releases>>
    BY DEF Timers!ApplySet
  <1>2. Head(sets) \in Timers!Sets /\ sets' \in Seq(Timers!Sets)
    BY <1>1, LoopTypes, TailFacts
  <1>3. PICK s \in Connections : s = Head(sets).sessionID
    BY <1>2 DEF Timers!Sets
  <1>4. s \in Timers!Sessions /\ table[s] \in Cells /\ Head(sets).type \in Timers!Kinds
        /\ Timeout[table[s].retries] \in Nat
    <2>1. s \in Timers!Sessions /\ Head(sets).type \in Timers!Kinds
      BY <1>2, LoopFacts DEF Timers!Sets
    <2>2. table[s] \in Cells
      BY <2>1, LoopTypes
    <2>3. table[s].retries \in 0 .. MaxRetries
      BY <2>2 DEF Cells
    <2> QED BY <2>1, <2>2, <2>3, LoopFacts
  <1>5. PICK e \in Cells : table' = [table EXCEPT ![s] = e] /\ e.active = TRUE
    <2> DEFINE e == [table[s] EXCEPT !.type = Head(sets).type, !.active = TRUE,
                                     !.time = IF table[s].active THEN @ ELSE Timeout[table[s].retries]]
    <2>1. e \in Cells /\ e.active = TRUE
      BY <1>4 DEF Cells
    <2>2. table' = [table EXCEPT ![s] = e]
      BY <1>3 DEF Timers!ApplySet
    <2> QED BY <2>1, <2>2
  <1>6. position' \in Timers!Sessions
    <2>1. Timers!SkipAhead(s)
      BY <1>3 DEF Timers!ApplySet
    <2>2. position \in Nat /\ position < MaxSessions
      BY LoopTypes, LoopFacts DEF Timers!Sessions
    <2>3. s \in Nat /\ s + Skip < MaxSessions /\ Skip \in Nat
      BY LoopFacts
    <2>4. position' = position \/ (position <= s /\ position' = position + Skip)
      BY <2>1 DEF Timers!SkipAhead
    <2>5. position' \in Nat /\ position' < MaxSessions
      <3>1. PICK p \in Nat, k \in Nat, m \in Nat : p = position /\ k = Skip /\ m = MaxSessions
        BY <2>2, LoopFacts
      <3>2. CASE position' = position
        BY <2>2, <3>2
      <3>3. CASE position <= s /\ position' = position + Skip
        BY <2>3, <3>1, <3>3
      <3> QED BY <2>4, <3>2, <3>3
    <2> QED BY <2>5, LoopFacts
  <1>7. Timers!TypeOK'
    <2>1. table' \in [Timers!Sessions -> Cells]
      BY <1>5, LoopTypes
    <2>2. \A q \in Timers!Sessions : table'[q].active => q \in Connections
      BY <1>4, <1>5, LoopTypes
    <2> QED BY <1>1, <1>2, <1>6, <2>1, <2>2, LoopTypes DEF Timers!TypeOK, Cells, Sars
  <1>8. ASSUME NEW q \in Connections PROVE Timers!OpeningInv(q)'
    <2>1. /\ q = s => table'[q].active
          /\ q # s => table'[q] = table[q]
      BY <1>4, <1>5, LoopTypes, LoopFacts
    <2>2. Timers!InFifo(sets, q) <=> s = q \/ Timers!InFifo(sets', q)
      BY <1>1, <1>3, LoopTypes, InTail
    <2>3. Timers!NothingStops(q) => Timers!NothingStops(q)'
      BY <1>1 DEF Timers!NothingStops
    <2>4. Timers!Untimed(q) => Timers!Untimed(q)'
      BY <1>1, <2>1, <2>2 DEF Timers!Untimed, Timers!InFifo
    <2>5. Timers!AtTimer(q) => Timers!AtTimer(q)'
      BY <1>1, <2>1, <2>2 DEF Timers!AtTimer, Timers!InFifo
    <2> QED BY <2>3, <2>4, <2>5, TimerFrame
  <1> QED BY <1>7, <1>8 DEF LoopInv
(* The scan stays in the table, so that what it counts down is the entry   *)
(* its events name.                                                        *)
LEMMA ScanCell ==
    ASSUME LoopConstants, LoopInv, Timers!Scan
    PROVE  /\ Timers!CountDown(position) \/ Timers!Fire(position)
              \/ Timers!GiveUp(position) \/ Timers!PassBy(position)
           /\ position' \in Timers!Sessions
           /\ UNCHANGED <<update, clears, sets>>
  <1>1. position \in Timers!Sessions
    BY LoopTypes
  <1>2. position' \in Timers!Sessions
    <2>1. position' = IF position + 1 >= MaxSessions THEN 0 ELSE position + 1
      BY DEF Timers!Scan
    <2> QED BY <1>1, <2>1, LoopFacts
  <1> QED BY <1>1, <1>2 DEF Timers!Scan

(* What the scan writes: one cell, whose timer stays, or becomes an event  *)
(* of its session, or a release.                                           *)
LEMMA ScanTypes ==
    ASSUME LoopConstants, LoopInv, NEW e \in Cells,
           UNCHANGED <<update, clears, sets, sar, tx, rx, asked, state, answered>>,
           position' \in Timers!Sessions,
           table' = [table EXCEPT ![position] = e], e.active => table[position].active,
           events' \in Seq(Timers!Events), releases' \in Seq(Connections)
    PROVE  /\ Timers!TypeOK'
           /\ table'[position] = e /\ \A q \in Timers!Sessions \ {position} : table'[q] = table[q]
  <1>1. position \in Timers!Sessions
    BY LoopTypes
  <1>2. /\ table' \in [Timers!Sessions -> Cells] /\ table'[position] = e
        /\ \A q \in Timers!Sessions \ {position} : table'[q] = table[q]
    BY <1>1, LoopTypes
  <1>3. \A q \in Timers!Sessions : table'[q].active => q \in Connections
    BY <1>2, LoopTypes
  <1> QED BY <1>2, <1>3, LoopTypes DEF Timers!TypeOK, Cells, Sars

LEMMA CountDownStep ==
    ASSUME LoopConstants, LoopInv, Timers!Scan, Timers!CountDown(position),
           UNCHANGED <<sar, tx, rx, asked, state, answered>>
    PROVE  LoopInv'
  <1>1. /\ position \in Timers!Sessions /\ position' \in Timers!Sessions
        /\ UNCHANGED <<update, clears, sets, events, releases>>
    BY ScanCell, LoopTypes DEF Timers!CountDown
  <1>2. table[position] \in Cells /\ table[position].time > 0
    BY <1>1, LoopTypes DEF Timers!CountDown
  <1>3. PICK e \in Cells : table' = [table EXCEPT ![position] = e] /\ e.active = table[position].active
    <2> DEFINE e == [table[position] EXCEPT !.time = @ - 1]
    <2>1. e \in Cells /\ e.active = table[position].active
      BY <1>2 DEF Cells
    <2>2. table' = [table EXCEPT ![position] = e]
      BY DEF Timers!CountDown
    <2> QED BY <2>1, <2>2
  <1>4. /\ Timers!TypeOK' /\ table'[position] = e
        /\ \A q \in Timers!Sessions \ {position} : table'[q] = table[q]
    BY <1>1, <1>3, ScanTypes, LoopTypes
  <1>5. ASSUME NEW q \in Connections PROVE Timers!OpeningInv(q)'
    <2>1. table'[q].active = table[q].active
      BY <1>3, <1>4, LoopFacts
    <2>2. /\ Timers!NothingStops(q) => Timers!NothingStops(q)'
          /\ Timers!Untimed(q) => Timers!Untimed(q)'
          /\ Timers!AtTimer(q) => Timers!AtTimer(q)'
      BY <1>1, <2>1 DEF Timers!NothingStops, Timers!Untimed, Timers!AtTimer, Timers!InFifo
    <2> QED BY <2>2, TimerFrame
  <1> QED BY <1>4, <1>5 DEF LoopInv

(* The timer that runs out becomes an event of the same session.           *)
LEMMA FireStep ==
    ASSUME LoopConstants, LoopInv, Timers!Scan, Timers!Fire(position),
           UNCHANGED <<sar, tx, rx, asked, state, answered>>
    PROVE  LoopInv'
  <1>1. /\ position \in Timers!Sessions /\ position' \in Timers!Sessions
        /\ UNCHANGED <<update, clears, sets, releases>>
    BY ScanCell, LoopTypes DEF Timers!Fire
  <1>2. /\ table[position] \in Cells /\ table[position].active /\ table[position].retries < MaxRetries
        /\ position \in Connections
    BY <1>1, LoopTypes DEF Timers!Fire
  <1>3. PICK e \in Cells : table' = [table EXCEPT ![position] = e] /\ e.active = FALSE
    <2> DEFINE e == [table[position] EXCEPT !.active = FALSE, !.retries = @ + 1]
    <2>1. e \in Cells /\ e.active = FALSE
      <3>1. table[position].retries + 1 \in 0 .. MaxRetries
        BY <1>2, LoopFacts DEF Cells
      <3> QED BY <1>2, <3>1 DEF Cells
    <2>2. table' = [table EXCEPT ![position] = e]
      BY DEF Timers!Fire
    <2> QED BY <2>1, <2>2
  <1>4. PICK v \in Timers!Events : events' = Append(events, v) /\ v.sessionID = position
    <2> DEFINE v == [sessionID |-> position, type |-> table[position].type, again |-> TRUE]
    <2>1. v \in Timers!Events
      BY <1>2 DEF Timers!Events, Cells
    <2> QED BY <2>1 DEF Timers!Fire
  <1>5. events' \in Seq(Timers!Events)
    BY <1>4, LoopTypes, AppendFacts
  <1>6. /\ Timers!TypeOK' /\ table'[position] = e
        /\ \A q \in Timers!Sessions \ {position} : table'[q] = table[q]
    BY <1>1, <1>3, <1>5, ScanTypes, LoopTypes
  <1>7. ASSUME NEW q \in Connections PROVE Timers!OpeningInv(q)'
    <2>1. q # position => table'[q] = table[q]
      BY <1>6, LoopFacts
    <2>2. Timers!InFifo(events', q) <=> Timers!InFifo(events, q) \/ position = q
      BY <1>4, LoopTypes, InAppended
    <2>3. Timers!NothingStops(q) => Timers!NothingStops(q)'
      BY <1>1 DEF Timers!NothingStops
    <2>4. Timers!Untimed(q) => Timers!Untimed(q)'
      BY <1>1, <1>2, <2>1, <2>2 DEF Timers!Untimed, Timers!InFifo
    <2>5. Timers!AtTimer(q) => Timers!AtTimer(q)'
      BY <1>1, <2>1, <2>2 DEF Timers!AtTimer, Timers!InFifo
    <2> QED BY <2>3, <2>4, <2>5, TimerFrame
  <1> QED BY <1>6, <1>7 DEF LoopInv

LEMMA GiveUpStep ==
    ASSUME LoopConstants, LoopInv, Timers!Scan, Timers!GiveUp(position),
           UNCHANGED <<sar, tx, rx, asked, state, answered>>
    PROVE  LoopInv'
  <1>1. /\ position \in Timers!Sessions /\ position' \in Timers!Sessions
        /\ UNCHANGED <<update, clears, sets, events>>
    BY ScanCell, LoopTypes DEF Timers!GiveUp
  <1>2. table[position] \in Cells /\ table[position].active /\ position \in Connections
    BY <1>1, LoopTypes DEF Timers!GiveUp
  <1>3. PICK e \in Cells : table' = [table EXCEPT ![position] = e] /\ e.active = FALSE
    <2> DEFINE e == [table[position] EXCEPT !.active = FALSE, !.retries = 0]
    <2>1. e \in Cells /\ e.active = FALSE
      <3>1. 0 \in 0 .. MaxRetries
        BY LoopFacts
      <3> QED BY <1>2, <3>1 DEF Cells
    <2>2. table' = [table EXCEPT ![position] = e]
      BY DEF Timers!GiveUp
    <2> QED BY <2>1, <2>2
  <1>4. releases' = Append(releases, position)
    BY DEF Timers!GiveUp
  <1>5. /\ releases' \in Seq(Connections)
        /\ Len(releases') = Len(releases) + 1 /\ Len(releases) \in Nat
        /\ \A i \in 1 .. Len(releases) : releases'[i] = releases[i]
        /\ releases'[Len(releases) + 1] = position
    BY <1>2, <1>4, LoopTypes, AppendFacts, LenProperties
  <1>6. /\ Timers!TypeOK' /\ table'[position] = e
        /\ \A q \in Timers!Sessions \ {position} : table'[q] = table[q]
    BY <1>1, <1>3, <1>5, ScanTypes, LoopTypes
  <1>7. ASSUME NEW q \in Connections PROVE Timers!OpeningInv(q)'
    <2>1. q # position => table'[q] = table[q]
      BY <1>6, LoopFacts
    <2>2. /\ 1 .. Len(releases) \subseteq 1 .. Len(releases')
          /\ Len(releases) + 1 \in 1 .. Len(releases')
      BY <1>5
    <2>3. Timers!NothingStops(q) => Timers!NothingStops(q)'
      BY <1>1 DEF Timers!NothingStops
    <2>4. Timers!Untimed(q) => Timers!Untimed(q)'
      BY <1>1, <1>2, <2>1 DEF Timers!Untimed, Timers!InFifo
    <2>5. Timers!AtTimer(q) => Timers!AtTimer(q)'
      BY <1>1, <1>5, <2>1, <2>2 DEF Timers!AtTimer, Timers!InFifo
    <2> QED BY <2>3, <2>4, <2>5, TimerFrame
  <1> QED BY <1>6, <1>7 DEF LoopInv

LEMMA PassByStep ==
    ASSUME LoopConstants, LoopInv, Timers!Scan, Timers!PassBy(position),
           UNCHANGED <<sar, tx, rx, asked, state, answered>>
    PROVE  LoopInv'
  <1>1. /\ position' \in Timers!Sessions
        /\ UNCHANGED <<table, update, clears, sets, events, releases>>
    BY ScanCell DEF Timers!PassBy
  <1>2. Timers!TypeOK'
    BY <1>1, LoopTypes DEF Timers!TypeOK, Cells, Sars
  <1>3. ASSUME NEW q \in Connections PROVE Timers!OpeningInv(q)'
    <2>1. /\ Timers!NothingStops(q) => Timers!NothingStops(q)'
          /\ Timers!Untimed(q) => Timers!Untimed(q)'
          /\ Timers!AtTimer(q) => Timers!AtTimer(q)'
      BY <1>1 DEF Timers!NothingStops, Timers!Untimed, Timers!AtTimer, Timers!InFifo
    <2> QED BY <2>1, TimerFrame
  <1> QED BY <1>2, <1>3 DEF LoopInv

LEMMA TimerStepKeeps ==
    ASSUME LoopConstants, LoopInv, Timers!TimerStep
    PROVE  LoopInv'
  <1>1. UNCHANGED <<sar, tx, rx, asked, state, answered>>
    BY DEF Timers!TimerStep, Timers!sessions
  <1>2. CASE Timers!Scan
    BY <1>1, <1>2, ScanCell, CountDownStep, FireStep, GiveUpStep, PassByStep
  <1> QED BY <1>1, <1>2, ApplyClearStep, TakeClearStep, ApplySetStep DEF Timers!TimerStep

(* A release closes the session; nothing of the others changes.            *)
LEMMA ReleaseStep ==
    ASSUME LoopConstants, LoopInv, Timers!Release
    PROVE  LoopInv'
  <1>1. /\ releases # <<>> /\ releases' = Tail(releases)
        /\ state' = [s \in Timers!Sessions |-> IF s = Head(releases) THEN "CLOSED" ELSE state[s]]
        /\ UNCHANGED <<table, position, prevPosition, update, clears, sets, events,
                       sar, tx, rx, asked, answered>>
    BY DEF Timers!Release, Timers!timer
  <1>2. /\ Head(releases) = releases[1] /\ releases' \in Seq(Connections)
        /\ Len(releases') = Len(releases) - 1 /\ Len(releases) \in Nat \ {0}
        /\ \A i \in 1 .. Len(releases) - 1 : releases'[i] = releases[i + 1]
    BY <1>1, LoopTypes, TailFacts
  <1>3. Timers!TypeOK'
    <2>1. state' \in [Timers!Sessions -> Timers!States]
      <3>1. \A s \in Timers!Sessions : state[s] \in Timers!States /\ "CLOSED" \in Timers!States
        BY LoopTypes DEF Timers!States
      <3> QED BY <1>1, <3>1
    <2> QED BY <1>1, <1>2, <2>1, LoopTypes DEF Timers!TypeOK, Cells, Sars
  <1>4. ASSUME NEW q \in Connections PROVE Timers!OpeningInv(q)'
    <2>1. Timers!OpeningInv(q)
      BY DEF LoopInv
    <2>2. state'[q] = IF q = Head(releases) THEN "CLOSED" ELSE state[q]
      BY <1>1, LoopFacts
    <2>3. Timers!Pending(q)' <=> Timers!Pending(q)
      BY <1>1 DEF Timers!Pending
    <2>4. Timers!Untouched(q) => Timers!Untouched(q)'
      BY <1>1, <2>2 DEF Timers!Untouched, Timers!Untimed, Timers!InFifo
    <2>5. CASE q = Head(releases)
      BY <1>1, <2>1, <2>2, <2>3, <2>4, <2>5 DEF Timers!OpeningInv
    <2>6. CASE q # Head(releases)
      <3>1. Timers!OnlyOpening(q) => Timers!OnlyOpening(q)'
        BY <1>1, <2>2, <2>6 DEF Timers!OnlyOpening, Timers!NothingStops
      <3>2. ASSUME NEW i \in 1 .. Len(releases), releases[i] = q
            PROVE  \E j \in 1 .. Len(releases') : releases'[j] = q
        <4>1. i - 1 \in 1 .. Len(releases')
          BY <1>2, <2>6, <3>2
        <4>2. releases'[i - 1] = q
          BY <1>2, <3>2, <4>1
        <4> QED BY <4>1, <4>2
      <3>3. Timers!IsTimed(q) => Timers!IsTimed(q)'
        BY <1>1, <3>2 DEF Timers!IsTimed, Timers!AtTimer, Timers!InFifo
      <3> QED BY <1>1, <2>1, <2>2, <2>3, <2>4, <2>6, <3>1, <3>3 DEF Timers!OpeningInv
    <2> QED BY <2>5, <2>6
  <1> QED BY <1>3, <1>4 DEF LoopInv
-----------------------------------------------------------------------------
(* The TX engine.                                                          *)

LEMMA UsedLengthIs ==
    ASSUME LoopConstants, LoopInv, NEW s \in Connections
    PROVE  /\ Timers!UsedLength(s) \in Nat
           /\ sar[s].acked = 0 /\ sar[s].sent = 1 /\ ~sar[s].fin => Timers!UsedLength(s) = 1
  <1>1. sar[s] \in Sars
    BY LoopTypes, LoopFacts
  <1>2. PICK a \in Nat, n \in Nat, k \in {0, 1} :
           a = sar[s].acked /\ n = sar[s].sent /\ k = IF sar[s].fin THEN 1 ELSE 0
    BY <1>1 DEF Sars
  <1>3. PICK d \in Int : d = n - a - k
    BY <1>2
  <1>4. Timers!UsedLength(s) = d % Window
    BY <1>2, <1>3 DEF Timers!UsedLength
  <1>5. PICK w \in Nat \ {0} : w = Window /\ w > 1
    BY LoopFacts
  <1>6. d % w \in 0 .. w - 1
    BY <1>5, ModFacts
  <1>7. 1 % w = 1
    <2>1. 1 \in 0 .. w - 1 /\ 1 = w * 0 + 1 /\ 0 \in Int /\ 1 \in Int
      BY <1>5
    <2> QED BY <1>5, <2>1, ModIs
  <1>8. a = 0 /\ n = 1 /\ k = 0 => d = 1
    BY <1>2, <1>3
  <1> QED BY <1>2, <1>4, <1>5, <1>6, <1>7, <1>8

(* The engine takes an event: what it then works on.                       *)
LEMMA BeginFacts ==
    ASSUME LoopConstants, LoopInv, NEW s \in Connections,
           NEW type \in Timers!Kinds \cup {"TX", "FIN"}, NEW again \in BOOLEAN,
           Timers!Begin(s, type, again)
    PROVE  /\ tx = None /\ tx' \in Timers!Work /\ tx' # None
           /\ tx'.sessionID = s /\ tx'.type = type /\ tx'.again = again
           /\ tx'.left = IF type = "RT" THEN Timers!UsedLength(s) ELSE 0
           /\ UNCHANGED <<table, position, prevPosition, update, clears, sets, releases, sar, rx, answered>>
  <1>1. /\ tx = None
        /\ tx' = [sessionID |-> s, type |-> type, again |-> again,
                  left |-> IF type = "RT" THEN Timers!UsedLength(s) ELSE 0, segments |-> 0]
        /\ UNCHANGED <<table, position, prevPosition, update, clears, sets, releases, sar, rx, answered>>
    BY DEF Timers!Begin, Timers!timer
  <1>2. (IF type = "RT" THEN Timers!UsedLength(s) ELSE 0) \in Nat
    BY UsedLengthIs
  <1>3. tx' \in Timers!Work
    BY <1>1, <1>2 DEF Timers!Work
  <1> QED BY <1>1, <1>3, LoopFacts

(* For the other sessions, the engine is as idle as before.                *)
LEMMA BeginOthers ==
    ASSUME LoopInv, NEW s \in Connections, NEW q \in Connections, q # s,
           tx = None, tx' # None, tx'.sessionID = s,
           UNCHANGED <<table, update, clears, sets, releases, sar, rx, answered>>,
           Timers!InFifo(events', q) <=> Timers!InFifo(events, q),
           asked' = asked \/ (asked' = None /\ asked.sessionID # q),
           state'[q] = state[q]
    PROVE  Timers!OpeningInv(q)'
  <1>1. Timers!OpeningInv(q)
    BY DEF LoopInv
  <1>2. ~Timers!Pending(q) /\ ~Timers!Pending(q)'
    BY DEF Timers!Pending
  <1>3. Timers!Untouched(q) => Timers!Untouched(q)'
    BY DEF Timers!Untouched, Timers!Untimed, Timers!InFifo
  <1>4. Timers!OnlyOpening(q) => Timers!OnlyOpening(q)'
    BY DEF Timers!OnlyOpening, Timers!NothingStops
  <1>5. Timers!IsTimed(q) => Timers!IsTimed(q)'
    BY DEF Timers!IsTimed, Timers!AtTimer, Timers!InFifo
  <1> QED BY <1>1, <1>2, <1>3, <1>4, <1>5 DEF Timers!OpeningInv

(* An event of a session that has been opened: a retransmission of the     *)
(* one number that an opening has taken has the length 1.                  *)
LEMMA BeginAgain ==
    ASSUME LoopConstants, LoopInv, NEW s \in Connections,
           NEW type \in Timers!Kinds, NEW again \in BOOLEAN, Timers!Begin(s, type, again),
           type \in Timers!Opening => again, ~Timers!Untouched(s), state' = state
    PROVE  Timers!OpeningInv(s)'
  <1>1. /\ tx = None /\ tx' # None
        /\ tx'.sessionID = s /\ tx'.type = type /\ tx'.again = again
        /\ tx'.left = IF type = "RT" THEN Timers!UsedLength(s) ELSE 0
        /\ UNCHANGED <<table, position, prevPosition, update, clears, sets, releases, sar, rx, answered>>
    BY BeginFacts
  <1>2. Timers!OpeningInv(s)
    BY DEF LoopInv
  <1>3. ~Timers!Pending(s) /\ ~Timers!Pending(s)'
    BY <1>1 DEF Timers!Pending
  <1>4. sar[s].sent # 0 /\ sar'[s] = sar[s]
    BY <1>1, <1>2, <1>3 DEF Timers!OpeningInv
  <1>5. ASSUME Timers!OnlyOpening(s) PROVE Timers!OnlyOpening(s)'
    <2>1. sar[s].acked = 0 /\ sar[s].sent = 1 /\ ~sar[s].fin
      <3>1. sar[s].sent \in Nat /\ sar[s].sent <= 1
        BY <1>5, LoopTypes, LoopFacts DEF Timers!OnlyOpening, Sars
      <3> QED BY <1>4, <1>5, <3>1 DEF Timers!OnlyOpening
    <2>2. type = "RT" => tx'.left = 1
      BY <1>1, <2>1, UsedLengthIs
    <2>3. type \in Timers!Opening \/ type = "RT"
      BY DEF Timers!Kinds
    <2> QED BY <1>1, <1>5, <2>2, <2>3 DEF Timers!OnlyOpening, Timers!NothingStops
  <1>6. Timers!IsTimed(s)'
    BY <1>1 DEF Timers!IsTimed
  <1> QED BY <1>1, <1>2, <1>3, <1>4, <1>5, <1>6 DEF Timers!OpeningInv

LEMMA TakeTimerEventStep ==
    ASSUME LoopConstants, LoopInv, Timers!TakeTimerEvent
    PROVE  LoopInv'
  <1>1. events # <<>> /\ events' = Tail(events) /\ asked' = asked /\ state' = state
    BY DEF Timers!TakeTimerEvent
  <1>2. Head(events) \in Timers!Events /\ events' \in Seq(Timers!Events)
    BY <1>1, LoopTypes, TailFacts
  <1>3. PICK s \in Connections, type \in Timers!Kinds :
           s = Head(events).sessionID /\ type = Head(events).type /\ Head(events).again = TRUE
    BY <1>2 DEF Timers!Events
  <1>4. Timers!Begin(s, type, TRUE)
    BY <1>3 DEF Timers!TakeTimerEvent
  <1>5. /\ tx = None /\ tx' \in Timers!Work /\ tx' # None /\ tx'.sessionID = s
        /\ UNCHANGED <<table, position, prevPosition, update, clears, sets, releases, sar, rx, answered>>
    BY <1>4, BeginFacts
  <1>6. Timers!TypeOK'
    BY <1>1, <1>2, <1>5, LoopTypes DEF Timers!TypeOK, Cells, Sars
  <1>7. \A q : Timers!InFifo(events, q) <=> s = q \/ Timers!InFifo(events', q)
    BY <1>1, <1>3, LoopTypes, InTail
  <1>8. ASSUME NEW q \in Connections PROVE Timers!OpeningInv(q)'
    <2>1. CASE q = s
      <3>1. ~Timers!Untouched(s)
        BY <1>7 DEF Timers!Untouched, Timers!Untimed
      <3> QED BY <1>1, <1>4, <2>1, <3>1, BeginAgain
    <2>2. CASE q # s
      BY <1>1, <1>5, <1>7, <2>2, BeginOthers
    <2> QED BY <2>1, <2>2
  <1> QED BY <1>6, <1>8 DEF LoopInv

LEMMA TakeAskedStep ==
    ASSUME LoopConstants, LoopInv, Timers!TakeAsked
    PROVE  LoopInv'
  <1>1. asked # None /\ asked' = None /\ UNCHANGED <<events, state>>
    BY DEF Timers!TakeAsked
  <1>2. asked \in Timers!Asked
    BY <1>1, LoopTypes
  <1>3. PICK s \in Connections, type \in Timers!Kinds, again \in BOOLEAN :
           /\ s = asked.sessionID /\ type = asked.type /\ again = asked.again
           /\ type \in Timers!Opening => again
    BY <1>2 DEF Timers!Asked, Timers!Kinds, Timers!Opening
  <1>4. Timers!Begin(s, type, again)
    BY <1>3 DEF Timers!TakeAsked
  <1>5. /\ tx = None /\ tx' \in Timers!Work /\ tx' # None /\ tx'.sessionID = s
        /\ UNCHANGED <<table, position, prevPosition, update, clears, sets, releases, sar, rx, answered>>
    BY <1>4, BeginFacts
  <1>6. Timers!TypeOK'
    BY <1>1, <1>5, LoopTypes DEF Timers!TypeOK, Cells, Sars
  <1>7. ASSUME NEW q \in Connections PROVE Timers!OpeningInv(q)'
    <2>1. CASE q = s
      <3>1. ~Timers!Untouched(s)
        BY <1>1, <1>3 DEF Timers!Untouched
      <3> QED BY <1>1, <1>3, <1>4, <2>1, <3>1, BeginAgain
    <2>2. CASE q # s
      BY <1>1, <1>3, <1>5, <2>2, BeginOthers
    <2> QED BY <2>1, <2>2
  <1> QED BY <1>6, <1>7 DEF LoopInv

(* A session is opened when nothing of it is anywhere, and has data to     *)
(* send once it has been answered.                                         *)
LEMMA TakeOtherStep ==
    ASSUME LoopConstants, LoopInv, NEW s \in Connections, Timers!TakeOther(s)
    PROVE  LoopInv'
  <1>1. UNCHANGED <<events, asked>>
    BY DEF Timers!TakeOther
  <1>2. PICK type \in Timers!Opening \cup {"TX", "FIN"} :
           /\ Timers!Begin(s, type, FALSE)
           /\ \/ type \in Timers!Opening /\ Timers!Open(s, type)
              \/ type \in {"TX", "FIN"} /\ Timers!Use(s, type)
    BY DEF Timers!TakeOther, Timers!Open, Timers!Use
  <1>3. /\ tx = None /\ tx' \in Timers!Work /\ tx' # None
        /\ tx'.sessionID = s /\ tx'.type = type /\ tx'.again = FALSE
        /\ UNCHANGED <<table, position, prevPosition, update, clears, sets, releases, sar, rx, answered>>
    BY <1>2, BeginFacts DEF Timers!Kinds
  <1>4. s \in Timers!Sessions
    BY LoopFacts
  <1>5. PICK st \in Timers!States : state' = [state EXCEPT ![s] = st]
    <2>1. CASE Timers!Open(s, type)
      <3>1. (IF type = "SYN" THEN "SYN_SENT" ELSE "SYN_RECEIVED") \in Timers!States
        BY DEF Timers!States
      <3> QED BY <2>1, <3>1 DEF Timers!Open
    <2>2. CASE Timers!Use(s, type)
      <3>1. state' = state /\ state[s] \in Timers!States
        BY <1>4, <2>2, LoopTypes DEF Timers!Use
      <3>2. state = [state EXCEPT ![s] = state[s]]
        BY <1>4, LoopTypes
      <3> QED BY <3>1, <3>2
    <2> QED BY <1>2, <2>1, <2>2
  <1>6. /\ state' \in [Timers!Sessions -> Timers!States] /\ state'[s] = st
        /\ \A q \in Timers!Sessions \ {s} : state'[q] = state[q]
    BY <1>4, <1>5, LoopTypes
  <1>7. Timers!TypeOK'
    BY <1>1, <1>3, <1>6, LoopTypes DEF Timers!TypeOK, Cells, Sars
  <1>8. Timers!OpeningInv(s)'
    <2>1. Timers!OpeningInv(s) /\ ~Timers!Pending(s) /\ sar'[s] = sar[s]
      BY <1>3 DEF LoopInv, Timers!Pending
    <2>2. CASE type \in Timers!Opening /\ Timers!Open(s, type)
      <3>1. sar[s].sent = 0 /\ Timers!Untouched(s)
        BY <2>1, <2>2 DEF Timers!OpeningInv, Timers!Open
      <3>2. Timers!Pending(s)'
        BY <1>3, <2>2 DEF Timers!Pending
      <3>3. state'[s] \in {"SYN_SENT", "SYN_RECEIVED"}
        <4>1. state' = [state EXCEPT ![s] = IF type = "SYN" THEN "SYN_SENT" ELSE "SYN_RECEIVED"]
          BY <2>2 DEF Timers!Open
        <4> QED BY <1>4, <4>1, LoopTypes
      <3>4. Timers!NothingStops(s)
        BY <3>1 DEF Timers!Untouched, Timers!Untimed, Timers!InFifo, Timers!NothingStops
      <3>5. Timers!OnlyOpening(s)'
        <4>1. sar'[s].acked = 0 /\ sar'[s].sent <= 1 /\ ~sar'[s].fin
          BY <2>1, <3>1 DEF Timers!Untouched
        <4>2. Timers!NothingStops(s)'
          BY <1>3, <3>4 DEF Timers!NothingStops
        <4>3. rx' # None => rx'.sessionID # s
          BY <1>3, <3>1 DEF Timers!Untouched
        <4> QED BY <1>3, <2>2, <3>3, <4>1, <4>2, <4>3 DEF Timers!OnlyOpening
      <3> QED BY <2>1, <3>1, <3>2, <3>5 DEF Timers!OpeningInv
    <2>3. CASE type \in {"TX", "FIN"} /\ Timers!Use(s, type)
      <3>1. state[s] = "ESTABLISHED" /\ state'[s] = state[s]
        BY <2>3 DEF Timers!Use
      <3>2. sar[s].sent # 0 /\ answered[s]
        BY <2>1, <3>1 DEF Timers!OpeningInv, Timers!Untouched, Timers!OnlyOpening
      <3>3. ~Timers!Pending(s)'
        BY <1>3, <2>3 DEF Timers!Pending, Timers!Opening
      <3> QED BY <1>3, <2>1, <3>2, <3>3 DEF Timers!OpeningInv
    <2> QED BY <1>2, <2>2, <2>3
  <1>9. ASSUME NEW q \in Connections, q # s PROVE Timers!OpeningInv(q)'
    BY <1>1, <1>3, <1>6, <1>9, BeginOthers, LoopFacts DEF Timers!InFifo
  <1> QED BY <1>7, <1>8, <1>9 DEF LoopInv

(* What is sent sets the timer.                                            *)
LEMMA SetTimerFacts ==
    ASSUME LoopInv, NEW s \in Connections, NEW type \in Timers!Kinds, Timers!SetTimer(s, type)
    PROVE  /\ sets' \in Seq(Timers!Sets)
           /\ \A q : Timers!InFifo(sets', q) <=> Timers!InFifo(sets, q) \/ s = q
  <1>1. PICK e \in Timers!Sets : sets' = Append(sets, e) /\ e.sessionID = s
    <2> DEFINE e == [sessionID |-> s, type |-> type]
    <2>1. e \in Timers!Sets
      BY DEF Timers!Sets
    <2> QED BY <2>1 DEF Timers!SetTimer
  <1> QED BY <1>1, LoopTypes, AppendFacts, InAppended

(* What each segment that is sent does to its session.                     *)
LEMMA SendSegmentFacts ==
    ASSUME LoopConstants, LoopInv, Timers!SendSegment, NEW s, s = tx.sessionID
    PROVE  /\ tx # None /\ s \in Connections
           /\ tx' = None \/ (/\ tx' \in Timers!Work /\ tx'.sessionID = s
                             /\ tx'.type \notin Timers!Opening /\ tx.type = "RT")
           /\ \/ sets' = sets /\ tx.type = "RT" /\ tx.left = 0
              \/ /\ sets' \in Seq(Timers!Sets)
                 /\ \A q : Timers!InFifo(sets', q) <=> Timers!InFifo(sets, q) \/ s = q
           /\ \E e \in Sars : /\ sar' = [sar EXCEPT ![s] = e]
                              /\ \/ e = sar[s] /\ ~Timers!Pending(s)
                                 \/ e.sent = 1 /\ e.acked = 0 /\ ~e.fin /\ Timers!Pending(s)
                                 \/ e.sent # 0 /\ tx.type \in {"TX", "FIN"}
           /\ tx.type = "RT" /\ tx.left = 1 /\ ~sar[s].fin => tx' = None
  <1>1. tx # None /\ tx \in Timers!Work /\ s \in Connections
    BY LoopTypes DEF Timers!SendSegment, Timers!SendOpening, Timers!SendData, Timers!SendFin,
                     Timers!ResendPart, Timers!ResendLast, Timers!Work
  <1>2. s \in Timers!Sessions /\ sar[s] \in Sars /\ sar = [sar EXCEPT ![s] = sar[s]]
    BY <1>1, LoopTypes, LoopFacts
  <1>3. sar[s].sent \in Nat /\ sar[s].sent + 1 \in Nat /\ sar[s].sent + 1 # 0
    BY <1>2 DEF Sars
  <1>4. "RT" \in Timers!Kinds /\ \A k \in Timers!Opening : k \in Timers!Kinds /\ k # "RT" /\ k # "TX" /\ k # "FIN"
    BY DEF Timers!Kinds, Timers!Opening
  <1>5. CASE Timers!SendOpening
    <2>1. /\ tx.type \in Timers!Opening /\ tx' = None /\ Timers!SetTimer(s, tx.type)
          /\ sar' = IF tx.again THEN sar
                    ELSE [sar EXCEPT ![s].sent = 1, ![s].acked = 0, ![s].fin = FALSE]
      BY <1>5 DEF Timers!SendOpening
    <2>2. /\ sets' \in Seq(Timers!Sets)
          /\ \A q : Timers!InFifo(sets', q) <=> Timers!InFifo(sets, q) \/ s = q
      BY <1>1, <1>4, <2>1, SetTimerFacts
    <2>3. Timers!Pending(s) <=> ~tx.again
      BY <1>1, <2>1 DEF Timers!Pending
    <2>4. CASE tx.again
      BY <1>1, <1>2, <1>4, <2>1, <2>2, <2>3, <2>4
    <2>5. CASE ~tx.again
      <3> DEFINE e == [sar[s] EXCEPT !.sent = 1, !.acked = 0, !.fin = FALSE]
      <3>1. e \in Sars /\ e.sent = 1 /\ e.acked = 0 /\ e.fin = FALSE
        BY <1>2 DEF Sars
      <3>2. sar' = [sar EXCEPT ![s] = e]
        BY <1>2, <2>1, <2>5, LoopTypes DEF Sars
      <3> HIDE DEF e
      <3> QED BY <1>1, <1>4, <2>1, <2>2, <2>3, <2>5, <3>1, <3>2
    <2> QED BY <2>4, <2>5
  <1>6. CASE Timers!SendData \/ Timers!SendFin
    <2>1. /\ tx.type \in {"TX", "FIN"} /\ tx' = None /\ Timers!SetTimer(s, "RT")
          /\ \/ sar' = sar
             \/ sar' = [sar EXCEPT ![s].sent = @ + 1]
             \/ sar' = [sar EXCEPT ![s].sent = @ + 1, ![s].fin = TRUE]
      BY <1>6 DEF Timers!SendData, Timers!SendFin
    <2>2. /\ sets' \in Seq(Timers!Sets)
          /\ \A q : Timers!InFifo(sets', q) <=> Timers!InFifo(sets, q) \/ s = q
      BY <1>1, <1>4, <2>1, SetTimerFacts
    <2>3. ~Timers!Pending(s)
      BY <1>4, <2>1 DEF Timers!Pending
    <2>4. PICK e \in Sars : sar' = [sar EXCEPT ![s] = e] /\ (e = sar[s] \/ e.sent # 0)
      <3>1. CASE sar' = sar
        BY <1>2, <3>1
      <3>2. CASE sar' = [sar EXCEPT ![s].sent = @ + 1]
        <4> DEFINE e == [sar[s] EXCEPT !.sent = @ + 1]
        <4>1. e \in Sars /\ e.sent # 0
          BY <1>2, <1>3 DEF Sars
        <4>2. sar' = [sar EXCEPT ![s] = e]
          BY <1>2, <3>2, LoopTypes DEF Sars
        <4> QED BY <4>1, <4>2
      <3>3. CASE sar' = [sar EXCEPT ![s].sent = @ + 1, ![s].fin = TRUE]
        <4> DEFINE e == [sar[s] EXCEPT !.sent = @ + 1, !.fin = TRUE]
        <4>1. e \in Sars /\ e.sent # 0
          BY <1>2, <1>3 DEF Sars
        <4>2. sar' = [sar EXCEPT ![s] = e]
          BY <1>2, <3>3, LoopTypes DEF Sars
        <4> QED BY <4>1, <4>2
      <3> QED BY <2>1, <3>1, <3>2, <3>3
    <2> QED BY <1>1, <1>4, <2>1, <2>2, <2>3, <2>4
  <1>7. CASE Timers!ResendPart \/ Timers!ResendLast
    <2>1. /\ tx.type = "RT" /\ sar' = sar
          /\ Timers!SetTimer(s, "RT") \/ (sets' = sets /\ ~(tx.left > 0))
      BY <1>7 DEF Timers!ResendPart, Timers!ResendLast
    <2>2. ~Timers!Pending(s) /\ tx.left \in Nat /\ tx.segments \in 0 .. 3
      BY <1>1, <1>4, <2>1 DEF Timers!Pending, Timers!Work
    <2>3. \/ sets' = sets /\ tx.left = 0
          \/ /\ sets' \in Seq(Timers!Sets)
             /\ \A q : Timers!InFifo(sets', q) <=> Timers!InFifo(sets, q) \/ s = q
      BY <1>1, <1>4, <2>1, <2>2, SetTimerFacts
    <2>4. CASE Timers!ResendPart
      <3>1. tx.left > MSS /\ tx.left - MSS \in Nat
        BY <2>2, <2>4, LoopFacts DEF Timers!ResendPart
      <3>2. ~(tx.left = 1)
        BY <2>2, <3>1, LoopFacts
      <3>3. tx' = None \/ (tx.segments # 3 /\ tx' = [tx EXCEPT !.left = @ - MSS, !.segments = @ + 1])
        BY <2>4 DEF Timers!ResendPart
      <3>4. tx.segments # 3 => tx.segments + 1 \in 0 .. 3
        BY <2>2
      <3>5. tx' = None \/ (tx' \in Timers!Work /\ tx'.sessionID = s /\ tx'.type = "RT")
        BY <1>1, <2>1, <3>1, <3>3, <3>4 DEF Timers!Work
      <3> QED BY <1>1, <1>2, <1>4, <2>1, <2>2, <2>3, <3>2, <3>5
    <2>5. CASE Timers!ResendLast
      <3>1. tx' = IF sar[s].fin THEN [tx EXCEPT !.type = "FIN", !.left = 0, !.segments = 0] ELSE None
        BY <2>5 DEF Timers!ResendLast
      <3>2. ASSUME sar[s].fin PROVE tx' \in Timers!Work /\ tx'.sessionID = s /\ tx'.type = "FIN"
        <4>1. tx' = [tx EXCEPT !.type = "FIN", !.left = 0, !.segments = 0]
          BY <3>1, <3>2
        <4>2. tx' = [sessionID |-> tx.sessionID, type |-> "FIN", again |-> tx.again,
                     left |-> 0, segments |-> 0]
          BY <1>1, <4>1 DEF Timers!Work
        <4>3. tx.sessionID \in Connections /\ tx.again \in BOOLEAN /\ 0 \in Nat /\ 0 \in 0 .. 3
          BY <1>1 DEF Timers!Work
        <4> QED BY <4>2, <4>3 DEF Timers!Work
      <3>3. tx' = None \/ (tx' \in Timers!Work /\ tx'.sessionID = s /\ tx'.type = "FIN")
        BY <3>1, <3>2
      <3> QED BY <1>1, <1>2, <1>4, <2>1, <2>2, <2>3, <3>1, <3>3
    <2> QED BY <1>7, <2>4, <2>5
  <1> QED BY <1>5, <1>6, <1>7 DEF Timers!SendSegment

(* The opening is timed again before the engine leaves it; what would take *)
(* a number belongs to a session that has been answered or closed.         *)
LEMMA SendSegmentStep ==
    ASSUME LoopConstants, LoopInv, Timers!SendSegment
    PROVE  LoopInv'
  <1>1. PICK s : s = tx.sessionID
    OBVIOUS
  <1>2. UNCHANGED <<table, position, prevPosition, update, clears, events, releases, rx, asked,
                    state, answered>>
    BY DEF Timers!SendSegment, Timers!timer, Timers!sessions
  <1>3. /\ tx # None /\ s \in Connections
        /\ tx' = None \/ (/\ tx' \in Timers!Work /\ tx'.sessionID = s
                          /\ tx'.type \notin Timers!Opening /\ tx.type = "RT")
        /\ \/ sets' = sets /\ tx.type = "RT" /\ tx.left = 0
           \/ /\ sets' \in Seq(Timers!Sets)
              /\ \A q : Timers!InFifo(sets', q) <=> Timers!InFifo(sets, q) \/ s = q
        /\ tx.type = "RT" /\ tx.left = 1 /\ ~sar[s].fin => tx' = None
    BY <1>1, SendSegmentFacts
  <1>4. PICK e \in Sars : /\ sar' = [sar EXCEPT ![s] = e]
                          /\ \/ e = sar[s] /\ ~Timers!Pending(s)
                             \/ e.sent = 1 /\ e.acked = 0 /\ ~e.fin /\ Timers!Pending(s)
                             \/ e.sent # 0 /\ tx.type \in {"TX", "FIN"}
    BY <1>1, SendSegmentFacts
  <1>5. s \in Timers!Sessions
    BY <1>3, LoopFacts
  <1>6. /\ sar' \in [Timers!Sessions -> Sars] /\ sar'[s] = e
        /\ \A q \in Timers!Sessions \ {s} : sar'[q] = sar[q]
    BY <1>4, <1>5, LoopTypes
  <1>7. sets' \in Seq(Timers!Sets)
    BY <1>3, LoopTypes
  <1>8. Timers!TypeOK'
    BY <1>2, <1>3, <1>6, <1>7, LoopTypes DEF Timers!TypeOK, Cells, Sars
  <1>9. Timers!OpeningInv(s)'
    <2>1. Timers!OpeningInv(s) /\ (Timers!Pending(s) <=> sar[s].sent = 0)
      BY <1>1, <1>3 DEF LoopInv, Timers!OpeningInv
    <2>2. e.sent # 0
      BY <1>4, <2>1
    <2>3. ~Timers!Pending(s)'
      BY <1>3 DEF Timers!Pending
    <2>4. ASSUME Timers!OnlyOpening(s) PROVE Timers!OnlyOpening(s)' /\ Timers!IsTimed(s)'
      <3>1. tx.type \in Timers!Opening \/ (tx.type = "RT" /\ tx.left = 1)
        BY <1>1, <1>3, <2>4 DEF Timers!OnlyOpening
      <3>2. tx.type \notin {"TX", "FIN"} /\ (tx.type \in Timers!Opening => tx.type # "RT")
        BY <3>1 DEF Timers!Opening
      <3>3. tx' = None
        BY <1>3, <2>4, <3>1, <3>2 DEF Timers!OnlyOpening
      <3>4. Timers!InFifo(sets', s)
        BY <1>3, <3>1, <3>2
      <3>5. e.acked = 0 /\ e.sent <= 1 /\ ~e.fin /\ e.sent \in Nat /\ sar[s].sent \in Nat
            /\ sar[s].sent <= e.sent
        <4>1. e.sent \in Nat /\ sar[s].sent \in Nat
          BY <1>5, LoopTypes DEF Sars
        <4> QED BY <1>4, <2>1, <2>4, <3>2, <4>1 DEF Timers!OnlyOpening
      <3>6. rx # None /\ rx.sessionID = s => rx.prevAck = 0 /\ rx.nextByte <= e.sent
        <4>1. ASSUME rx # None, rx.sessionID = s PROVE rx.nextByte \in Nat
          BY <4>1, LoopTypes DEF Timers!Loads
        <4> QED BY <2>4, <3>5, <4>1 DEF Timers!OnlyOpening
      <3>7. Timers!OnlyOpening(s)'
        BY <1>2, <1>6, <2>4, <3>3, <3>5, <3>6 DEF Timers!OnlyOpening, Timers!NothingStops
      <3>8. Timers!IsTimed(s)'
        BY <3>4 DEF Timers!IsTimed, Timers!AtTimer, Timers!InFifo
      <3> QED BY <3>7, <3>8
    <2> QED BY <1>2, <1>6, <2>1, <2>2, <2>3, <2>4 DEF Timers!OpeningInv
  <1>10. ASSUME NEW q \in Connections, q # s PROVE Timers!OpeningInv(q)'
    <2>1. Timers!OpeningInv(q)
      BY DEF LoopInv
    <2>2. ~Timers!Pending(q) /\ ~Timers!Pending(q)'
      BY <1>1, <1>3, <1>10 DEF Timers!Pending
    <2>3. sar'[q] = sar[q]
      BY <1>6, <1>10, LoopFacts
    <2>4. Timers!InFifo(sets', q) <=> Timers!InFifo(sets, q)
      BY <1>3, <1>10 DEF Timers!InFifo
    <2>5. (tx' # None => tx'.sessionID # q) /\ tx.sessionID # q
      BY <1>1, <1>3, <1>10
    <2>6. Timers!Untouched(q) => Timers!Untouched(q)'
      BY <1>2, <2>3, <2>4 DEF Timers!Untouched, Timers!Untimed, Timers!InFifo
    <2>7. Timers!OnlyOpening(q) => Timers!OnlyOpening(q)'
      BY <1>2, <2>3, <2>5 DEF Timers!OnlyOpening, Timers!NothingStops
    <2>8. Timers!IsTimed(q) => Timers!IsTimed(q)'
      BY <1>2, <2>4, <2>5 DEF Timers!IsTimed, Timers!AtTimer, Timers!InFifo
    <2> QED BY <1>2, <2>1, <2>2, <2>3, <2>5, <2>6, <2>7, <2>8 DEF Timers!OpeningInv
  <1> QED BY <1>8, <1>9, <1>10 DEF LoopInv

LEMMA TxTurnStep ==
    ASSUME LoopConstants, LoopInv, Timers!TxTurn
    PROVE  LoopInv'
  BY SendSegmentStep, TakeTimerEventStep, TakeAskedStep DEF Timers!TxTurn
-----------------------------------------------------------------------------
(* The RX engine.                                                          *)

LEMMA RxLoadStep ==
    ASSUME LoopConstants, LoopInv, NEW s \in Connections, Timers!RxLoad(s)
    PROVE  LoopInv'
  <1>1. /\ state[s] # "CLOSED" /\ rx = None
        /\ rx' = [sessionID |-> s, prevAck |-> sar[s].acked, nextByte |-> sar[s].sent]
        /\ UNCHANGED <<table, position, prevPosition, update, clears, sets, events, releases,
                       sar, tx, asked, state, answered>>
    BY DEF Timers!RxLoad, Timers!timer, Timers!fifos, Timers!sessions
  <1>2. sar[s] \in Sars
    BY LoopTypes, LoopFacts
  <1>3. rx' \in Timers!Loads
    BY <1>1, <1>2 DEF Timers!Loads, Sars
  <1>4. Timers!TypeOK'
    BY <1>1, <1>3, LoopTypes DEF Timers!TypeOK, Cells, Sars
  <1>5. ASSUME NEW q \in Connections PROVE Timers!OpeningInv(q)'
    <2>1. Timers!OpeningInv(q)
      BY DEF LoopInv
    <2>2. Timers!Pending(q)' <=> Timers!Pending(q)
      BY <1>1 DEF Timers!Pending
    <2>3. Timers!Untouched(q) => Timers!Untouched(q)'
      BY <1>1 DEF Timers!Untouched, Timers!Untimed, Timers!InFifo
    <2>4. Timers!OnlyOpening(q) => Timers!OnlyOpening(q)'
      <3>1. sar[s].sent <= sar[s].sent
        BY <1>2 DEF Sars
      <3> QED BY <1>1, <3>1 DEF Timers!OnlyOpening, Timers!NothingStops
    <2>5. Timers!IsTimed(q) => Timers!IsTimed(q)'
      BY <1>1 DEF Timers!IsTimed, Timers!AtTimer, Timers!InFifo
    <2> QED BY <1>1, <2>1, <2>2, <2>3, <2>4, <2>5 DEF Timers!OpeningInv
  <1> QED BY <1>4, <1>5 DEF LoopInv

(* What a segment does to its session: the timer is stopped only if it     *)
(* acknowledges all that was sent, or closes the session.                  *)
Clearing(s) ==
    \/ clears' = clears
    \/ \E c \in Timers!Clears : /\ clears' = Append(clears, c) /\ c.sessionID = s
                                /\ c.stop => answered'[s] \/ state'[s] = "CLOSED"

Acknowledging(s) ==
    \/ sar' = sar
    \/ \E n \in Nat : /\ sar' = [sar EXCEPT ![s].acked = n]
                      /\ \/ n = sar[s].acked \/ answered'[s] \/ state[s] = "ESTABLISHED"
                         \/ Timers!InRange(n) /\ n # rx.nextByte

Moving(s) ==
    \/ state' = state
    \/ \E st \in Timers!States : /\ state' = [state EXCEPT ![s] = st]
                                 /\ st = "ESTABLISHED" => answered'[s]
                                 /\ state[s] = "CLOSED" => st = "CLOSED"

Answering(s) ==
    \/ answered' = answered
    \/ \E b \in BOOLEAN : answered' = [answered EXCEPT ![s] = b] /\ (answered[s] => b)

Asking(s) ==
    asked' = asked \/ (asked = None /\ asked' \in Timers!Asked /\ asked'.sessionID = s)

LEMMA ClearByAckFacts ==
    ASSUME LoopConstants, LoopInv, NEW s \in Connections, s = rx.sessionID,
           NEW ack, Timers!ClearByAck(ack)
    PROVE  /\ Clearing(s) /\ Answering(s)
           /\ ack = rx.nextByte => answered'[s]
  <1>1. s \in Timers!Sessions
    BY LoopFacts
  <1>2. PICK stop \in BOOLEAN : stop = (ack = rx.nextByte)
    OBVIOUS
  <1>3. PICK old \in BOOLEAN : old = answered[s]
    BY <1>1, LoopTypes
  <1>4. answered' = [answered EXCEPT ![s] = old \/ stop]
    BY <1>2, <1>3 DEF Timers!ClearByAck
  <1>5. answered'[s] = (old \/ stop)
    BY <1>1, <1>4, LoopTypes
  <1>6. Answering(s)
    <2>1. (old \/ stop) \in BOOLEAN /\ (answered[s] => old \/ stop)
      BY <1>3
    <2> QED BY <1>4, <2>1 DEF Answering
  <1>7. clears' = Append(clears, [sessionID |-> s, stop |-> stop])
    BY <1>2 DEF Timers!ClearByAck, Timers!ClearTimer
  <1>8. [sessionID |-> s, stop |-> stop] \in Timers!Clears
    BY DEF Timers!Clears
  <1>9. Clearing(s)
    <2>1. PICK c \in Timers!Clears : c = [sessionID |-> s, stop |-> stop]
      BY <1>8
    <2>2. c.sessionID = s /\ (c.stop => answered'[s])
      BY <1>5, <2>1
    <2> QED BY <1>7, <2>1, <2>2 DEF Clearing
  <1> QED BY <1>2, <1>5, <1>6, <1>9

LEMMA RxAckFacts ==
    ASSUME LoopConstants, LoopInv, NEW s \in Connections, s = rx.sessionID,
           NEW ack \in Nat, Timers!RxAck(ack)
    PROVE  Clearing(s) /\ Acknowledging(s) /\ Moving(s) /\ Answering(s) /\ Asking(s)
  <1>1. s \in Timers!Sessions /\ sar[s] \in Sars /\ Timers!ClearByAck(ack)
    BY LoopFacts, LoopTypes DEF Timers!RxAck
  <1>2. Clearing(s) /\ Answering(s) /\ (ack = rx.nextByte => answered'[s])
    BY <1>1, ClearByAckFacts
  <1>3. CASE state[s] \in {"SYN_RECEIVED", "ESTABLISHED"}
    <2>1. /\ Timers!Acked(IF Timers!InRange(ack) THEN ack ELSE sar[s].acked)
          /\ asked' = asked \/ Timers!AskRetransmit(ack)
          /\ IF ack # rx.nextByte THEN state' = state
             ELSE Timers!Becomes("ESTABLISHED") \/ (state[s] = "ESTABLISHED" /\ Timers!Becomes("CLOSED"))
      BY <1>3 DEF Timers!RxAck
    <2>2. PICK n \in Nat : /\ n = IF Timers!InRange(ack) THEN ack ELSE sar[s].acked
                           /\ sar' = [sar EXCEPT ![s].acked = n]
      BY <1>1, <2>1 DEF Timers!Acked, Sars
    <2>3. Acknowledging(s)
      BY <1>2, <2>2 DEF Acknowledging
    <2>4. Moving(s)
      BY <1>2, <1>3, <2>1 DEF Moving, Timers!Becomes, Timers!States
    <2>5. Asking(s)
      <3>1. ASSUME Timers!AskRetransmit(ack) PROVE Asking(s)
        <4>1. asked = None /\ asked' = [sessionID |-> s, type |-> "RT", again |-> FALSE]
          BY <3>1 DEF Timers!AskRetransmit
        <4>2. asked' \in Timers!Asked /\ asked'.sessionID = s
          BY <4>1 DEF Timers!Asked
        <4> QED BY <4>1, <4>2 DEF Asking
      <3> QED BY <2>1, <3>1 DEF Asking
    <2> QED BY <1>2, <2>3, <2>4, <2>5
  <1>4. CASE state[s] \notin {"SYN_RECEIVED", "ESTABLISHED"}
    <2>1. UNCHANGED <<sar, asked, state>>
      BY <1>4 DEF Timers!RxAck
    <2> QED BY <1>2, <2>1 DEF Acknowledging, Moving, Asking
  <1> QED BY <1>3, <1>4

LEMMA RxOtherFacts ==
    ASSUME LoopConstants, LoopInv, NEW s \in Connections, s = rx.sessionID,
           NEW ack \in Nat,
           Timers!RxAckUnread(ack) \/ Timers!RxSynAck(ack) \/ Timers!RxFin(ack)
    PROVE  Clearing(s) /\ Acknowledging(s) /\ Moving(s) /\ Answering(s) /\ Asking(s)
  <1>1. Timers!ClearByAck(ack) /\ asked' = asked
    BY DEF Timers!RxAckUnread, Timers!RxSynAck, Timers!RxFin
  <1>2. Clearing(s) /\ Answering(s) /\ (ack = rx.nextByte => answered'[s]) /\ Asking(s)
    BY <1>1, ClearByAckFacts DEF Asking
  <1>3. CASE Timers!RxAckUnread(ack)
    BY <1>2, <1>3 DEF Timers!RxAckUnread, Acknowledging, Moving
  <1>4. CASE Timers!RxFin(ack)
    BY <1>2, <1>4 DEF Timers!RxFin, Timers!Acked, Acknowledging, Moving
  <1>5. CASE Timers!RxSynAck(ack)
    <2>1. \/ UNCHANGED <<sar, state>>
          \/ /\ state[s] = "SYN_SENT" /\ ack = rx.nextByte
             /\ Timers!Acked(ack) /\ Timers!Becomes("ESTABLISHED")
          \/ Timers!Becomes("CLOSED") /\ sar' = sar
      BY <1>5 DEF Timers!RxSynAck
    <2> QED BY <1>2, <2>1 DEF Timers!Acked, Timers!Becomes, Acknowledging, Moving, Timers!States
  <1> QED BY <1>3, <1>4, <1>5

LEMMA RxSynFacts ==
    ASSUME LoopConstants, LoopInv, NEW s \in Connections, s = rx.sessionID, Timers!RxSyn
    PROVE  Clearing(s) /\ Acknowledging(s) /\ Moving(s) /\ Answering(s) /\ Asking(s)
  <1>1. /\ UNCHANGED <<clears, sar, answered>>
        /\ \/ UNCHANGED <<asked, state>>
           \/ /\ asked = None /\ state' = state
              /\ asked' = [sessionID |-> s, type |-> "SYN_ACK", again |-> TRUE]
           \/ Timers!Becomes("CLOSED") /\ asked' = asked
    BY DEF Timers!RxSyn
  <1>2. [sessionID |-> s, type |-> "SYN_ACK", again |-> TRUE] \in Timers!Asked
    BY DEF Timers!Asked
  <1>3. Moving(s)
    BY <1>1 DEF Timers!Becomes, Moving, Timers!States
  <1>4. \/ asked' = asked
        \/ asked = None /\ asked' = [sessionID |-> s, type |-> "SYN_ACK", again |-> TRUE]
    BY <1>1
  <1>5. Asking(s)
    <2>1. asked' = [sessionID |-> s, type |-> "SYN_ACK", again |-> TRUE]
             => asked' \in Timers!Asked /\ asked'.sessionID = s
      BY <1>2
    <2> QED BY <1>4, <2>1 DEF Asking
  <1> QED BY <1>1, <1>3, <1>5 DEF Clearing, Acknowledging, Answering

LEMMA RxRstFacts ==
    ASSUME LoopConstants, LoopInv, NEW s \in Connections, s = rx.sessionID,
           NEW ack, Timers!RxRst(ack)
    PROVE  Clearing(s) /\ Acknowledging(s) /\ Moving(s) /\ Answering(s) /\ Asking(s)
  <1>1. UNCHANGED <<sar, asked, answered>>
    BY DEF Timers!RxRst
  <1>2. CASE UNCHANGED <<clears, state>>
    BY <1>1, <1>2 DEF Clearing, Acknowledging, Moving, Answering, Asking
  <1>3. CASE Timers!ClearTimer(TRUE) /\ Timers!Becomes("CLOSED")
    <2>1. /\ clears' = Append(clears, [sessionID |-> s, stop |-> TRUE])
          /\ state' = [state EXCEPT ![s] = "CLOSED"]
      BY <1>3 DEF Timers!ClearTimer, Timers!Becomes
    <2>2. state'[s] = "CLOSED"
      BY <2>1, LoopTypes, LoopFacts
    <2>3. PICK c \in Timers!Clears : c = [sessionID |-> s, stop |-> TRUE]
      BY DEF Timers!Clears
    <2>4. Clearing(s)
      BY <2>1, <2>2, <2>3 DEF Clearing
    <2>5. Moving(s)
      BY <2>1 DEF Moving, Timers!States
    <2> QED BY <1>1, <2>4, <2>5 DEF Acknowledging, Answering, Asking
  <1> QED BY <1>2, <1>3 DEF Timers!RxRst

(* A segment that does not acknowledge the opening leaves it timed; one    *)
(* that does, of whatever kind, may stop the timer: the session counts as  *)
(* answered from then on, also if it does not move.                        *)
LEMMA RxTransitionStep ==
    ASSUME LoopConstants, LoopInv, Timers!RxTransition
    PROVE  LoopInv'
  <1>1. /\ rx # None /\ rx' = None
        /\ UNCHANGED <<table, position, prevPosition, update, sets, events, releases, tx>>
    BY DEF Timers!RxTransition, Timers!timer
  <1>2. rx \in Timers!Loads
    BY <1>1, LoopTypes
  <1>3. PICK s \in Connections : s = rx.sessionID
    BY <1>2 DEF Timers!Loads
  <1>4. s \in Timers!Sessions /\ sar[s] \in Sars /\ rx.prevAck \in Nat /\ rx.nextByte \in Nat
    BY <1>2, LoopTypes, LoopFacts DEF Timers!Loads
  <1>5. Clearing(s) /\ Acknowledging(s) /\ Moving(s) /\ Answering(s) /\ Asking(s)
    <2>1. CASE Timers!RxSyn
      BY <1>3, <2>1, RxSynFacts
    <2>2. ASSUME NEW ack \in 0 .. MaxSent,
                 \/ Timers!RxAck(ack) \/ Timers!RxAckUnread(ack) \/ Timers!RxSynAck(ack)
                 \/ Timers!RxFin(ack) \/ Timers!RxRst(ack)
          PROVE  Clearing(s) /\ Acknowledging(s) /\ Moving(s) /\ Answering(s) /\ Asking(s)
      <3>1. ack \in Nat
        BY LoopFacts
      <3> QED BY <1>3, <2>2, <3>1, RxAckFacts, RxOtherFacts, RxRstFacts
    <2> QED BY <2>1, <2>2 DEF Timers!RxTransition
  <1>6. /\ clears' \in Seq(Timers!Clears)
        /\ \A q \in Connections : (\A i \in 1 .. Len(clears) : clears[i] \in Harmless(q))
               /\ (q = s => ~answered'[s] /\ state'[s] # "CLOSED")
              => \A i \in 1 .. Len(clears') : clears'[i] \in Harmless(q)
        /\ \A q \in Connections \ {s} : Timers!InFifo(clears', q) <=> Timers!InFifo(clears, q)
    <2>1. CASE clears' = clears
      BY <2>1, LoopTypes DEF Timers!InFifo
    <2>2. CASE \E c \in Timers!Clears : /\ clears' = Append(clears, c) /\ c.sessionID = s
                                        /\ c.stop => answered'[s] \/ state'[s] = "CLOSED"
      <3>1. PICK c \in Timers!Clears : /\ clears' = Append(clears, c) /\ c.sessionID = s
                                       /\ c.stop => answered'[s] \/ state'[s] = "CLOSED"
        BY <2>2
      <3>2. clears' \in Seq(Timers!Clears)
        BY <3>1, LoopTypes, AppendFacts
      <3>3. \A q : Timers!InFifo(clears', q) <=> Timers!InFifo(clears, q) \/ s = q
        BY <3>1, LoopTypes, InAppended
      <3>4. ASSUME NEW q \in Connections, \A i \in 1 .. Len(clears) : clears[i] \in Harmless(q),
                   q = s => ~answered'[s] /\ state'[s] # "CLOSED"
            PROVE  \A i \in 1 .. Len(clears') : clears'[i] \in Harmless(q)
        <4>1. c \in Harmless(q)
          BY <3>1, <3>4 DEF Harmless
        <4> QED BY <3>1, <3>4, <4>1, LoopTypes, AllAppended
      <3> QED BY <3>2, <3>3, <3>4
    <2> QED BY <1>5, <2>1, <2>2 DEF Clearing
  <1>7. PICK n \in Nat : /\ sar' = [sar EXCEPT ![s].acked = n]
                         /\ \/ n = sar[s].acked \/ answered'[s] \/ state[s] = "ESTABLISHED"
                            \/ Timers!InRange(n) /\ n # rx.nextByte
    <2>1. sar = [sar EXCEPT ![s].acked = sar[s].acked] /\ sar[s].acked \in Nat
      BY <1>4, LoopTypes DEF Sars
    <2> QED BY <1>5, <2>1 DEF Acknowledging
  <1>8. /\ sar' \in [Timers!Sessions -> Sars]
        /\ sar'[s].acked = n /\ sar'[s].sent = sar[s].sent /\ sar'[s].fin = sar[s].fin
        /\ \A q \in Timers!Sessions \ {s} : sar'[q] = sar[q]
    <2> DEFINE e == [sar[s] EXCEPT !.acked = n]
    <2>1. e \in Sars /\ e.acked = n /\ e.sent = sar[s].sent /\ e.fin = sar[s].fin
      BY <1>4 DEF Sars
    <2>2. sar' = [sar EXCEPT ![s] = e]
      BY <1>4, <1>7, LoopTypes DEF Sars
    <2> HIDE DEF e
    <2> QED BY <1>4, <2>1, <2>2, LoopTypes
  <1>9. /\ state' \in [Timers!Sessions -> Timers!States]
        /\ \A q \in Timers!Sessions \ {s} : state'[q] = state[q]
        /\ state'[s] = "ESTABLISHED" => answered'[s] \/ state[s] = "ESTABLISHED"
        /\ state[s] = "CLOSED" => state'[s] = "CLOSED"
    BY <1>4, <1>5, LoopTypes DEF Moving
  <1>10. /\ answered' \in [Timers!Sessions -> BOOLEAN]
         /\ \A q \in Timers!Sessions \ {s} : answered'[q] = answered[q]
         /\ answered[s] => answered'[s]
    BY <1>4, <1>5, LoopTypes DEF Answering
  <1>11. asked' \in Timers!Asked \cup {None}
    BY <1>5, LoopTypes DEF Asking
  <1>12. Timers!TypeOK'
    BY <1>1, <1>6, <1>8, <1>9, <1>10, <1>11, LoopTypes DEF Timers!TypeOK, Cells, Sars
  <1>13. \A q : Timers!Pending(q)' <=> Timers!Pending(q)
    BY <1>1 DEF Timers!Pending
  <1>14. \A q : Timers!IsTimed(q) => Timers!IsTimed(q)'
    <2>1. asked = None \/ asked' = asked
      BY <1>5 DEF Asking
    <2> QED BY <1>1, <2>1 DEF Timers!IsTimed, Timers!AtTimer, Timers!InFifo
  <1>15. Timers!OpeningInv(s)'
    <2>1. Timers!OpeningInv(s) /\ ~Timers!Untouched(s)
      BY <1>1, <1>3 DEF LoopInv, Timers!Untouched
    <2>2. ASSUME state'[s] # "CLOSED", ~answered'[s]
          PROVE  Timers!OnlyOpening(s)' /\ (sar'[s].sent > 0 => Timers!IsTimed(s)')
      <3>1. Timers!OnlyOpening(s) /\ (sar[s].sent > 0 => Timers!IsTimed(s))
        BY <1>9, <1>10, <2>1, <2>2 DEF Timers!OpeningInv
      <3>2. sar[s].acked = 0 /\ rx.prevAck = 0 /\ rx.nextByte <= sar[s].sent /\ sar[s].sent <= 1
            /\ sar[s].sent \in Nat
        BY <1>1, <1>3, <1>4, <3>1 DEF Timers!OnlyOpening, Sars
      <3>3. n = 0
        <4>1. CASE Timers!InRange(n) /\ n # rx.nextByte
          BY <1>4, <3>2, <4>1 DEF Timers!InRange
        <4> QED BY <1>7, <2>2, <3>1, <3>2, <4>1 DEF Timers!OnlyOpening
      <3>4. state'[s] # "ESTABLISHED"
        BY <1>9, <2>2, <3>1 DEF Timers!OnlyOpening
      <3>5. Timers!NothingStops(s)'
        <4>1. \A i \in 1 .. Len(clears) : clears[i] \in Harmless(s)
          BY <3>1, LoopTypes, NothingStopsIs DEF Timers!OnlyOpening
        <4>2. \A i \in 1 .. Len(clears') : clears'[i] \in Harmless(s)
          BY <1>6, <2>2, <4>1
        <4> QED BY <1>1, <3>1, <4>2 DEF Timers!OnlyOpening, Timers!NothingStops, Harmless
      <3>6. Timers!OnlyOpening(s)'
        BY <1>1, <1>8, <3>1, <3>3, <3>4, <3>5 DEF Timers!OnlyOpening
      <3> QED BY <1>8, <1>14, <3>1, <3>6
    <2> QED BY <1>1, <1>8, <1>13, <2>1, <2>2 DEF Timers!OpeningInv
  <1>16. ASSUME NEW q \in Connections, q # s PROVE Timers!OpeningInv(q)'
    <2>1. Timers!OpeningInv(q)
      BY DEF LoopInv
    <2>2. sar'[q] = sar[q] /\ state'[q] = state[q] /\ answered'[q] = answered[q]
      BY <1>8, <1>9, <1>10, <1>16, LoopFacts
    <2>3. asked' # None /\ asked'.sessionID = q => asked # None /\ asked.sessionID = q
      BY <1>5, <1>16 DEF Asking
    <2>4. Timers!Untouched(q) => Timers!Untouched(q)'
      BY <1>1, <1>6, <1>16, <2>2, <2>3 DEF Timers!Untouched, Timers!Untimed, Timers!InFifo
    <2>5. ASSUME Timers!OnlyOpening(q) PROVE Timers!OnlyOpening(q)'
      <3>1. \A i \in 1 .. Len(clears) : clears[i] \in Harmless(q)
        BY <2>5, LoopTypes, NothingStopsIs DEF Timers!OnlyOpening
      <3>2. \A i \in 1 .. Len(clears') : clears'[i] \in Harmless(q)
        BY <1>6, <1>16, <3>1
      <3>3. Timers!NothingStops(q)'
        BY <1>1, <2>5, <3>2 DEF Timers!OnlyOpening, Timers!NothingStops, Harmless
      <3> QED BY <1>1, <2>2, <2>5, <3>3 DEF Timers!OnlyOpening
    <2> QED BY <1>1, <1>13, <1>14, <2>1, <2>2, <2>4, <2>5 DEF Timers!OpeningInv
  <1> QED BY <1>12, <1>15, <1>16 DEF LoopInv
-----------------------------------------------------------------------------
(* The invariant of the loop.                                              *)
THEOREM LoopInvariance == LoopConstants => (Timers!Spec => []LoopInv)
  <1> SUFFICES ASSUME LoopConstants PROVE Timers!Spec => []LoopInv
    OBVIOUS
  <1>1. ASSUME Timers!Init PROVE LoopInv
    <2>1. 0 \in Timers!Sessions
      BY LoopFacts DEF Timers!Sessions
    <2>2. /\ \A s \in Timers!Sessions : table[s] = [active |-> FALSE, time |-> 0, retries |-> 0, type |-> "RT"]
          /\ \A s \in Timers!Sessions : sar[s] = [acked |-> 0, sent |-> 0, fin |-> FALSE]
          /\ \A s \in Timers!Sessions : state[s] = "CLOSED"
          /\ clears = <<>> /\ sets = <<>> /\ events = <<>> /\ releases = <<>>
          /\ update = None /\ tx = None /\ rx = None /\ asked = None /\ position = 0
      BY <1>1 DEF Timers!Init
    <2>3. /\ table \in [Timers!Sessions -> Cells]
          /\ sar \in [Timers!Sessions -> Sars]
          /\ state \in [Timers!Sessions -> Timers!States]
          /\ answered \in [Timers!Sessions -> BOOLEAN]
      <3>1. 0 \in 0 .. MaxRetries
        BY <1>1, LoopFacts
      <3>2. /\ [active |-> FALSE, time |-> 0, retries |-> 0, type |-> "RT"] \in Cells
            /\ [acked |-> 0, sent |-> 0, fin |-> FALSE] \in Sars
            /\ "CLOSED" \in Timers!States
        BY <3>1 DEF Cells, Sars, Timers!Kinds, Timers!States
      <3> QED BY <1>1, <3>2 DEF Timers!Init
    <2>4. Timers!TypeOK
      BY <1>1, <2>1, <2>2, <2>3 DEF Timers!TypeOK, Cells, Sars
    <2>5. ASSUME NEW q \in Connections PROVE Timers!OpeningInv(q)
      <3>1. q \in Timers!Sessions
        BY <1>1, LoopFacts
      <3>2. /\ sar[q].sent = 0 /\ sar[q].acked = 0 /\ sar[q].fin = FALSE
            /\ table[q].active = FALSE /\ state[q] = "CLOSED"
        BY <2>2, <3>1
      <3>3. Len(sets) = 0 /\ Len(events) = 0 /\ Len(clears) = 0
        BY <2>2
      <3>4. Timers!Untouched(q)
        BY <2>2, <3>2, <3>3 DEF Timers!Untouched, Timers!Untimed, Timers!InFifo
      <3> QED BY <2>2, <3>2, <3>4 DEF Timers!OpeningInv
    <2> QED BY <2>4, <2>5 DEF LoopInv
  <1>2. ASSUME LoopInv, [Timers!Next]_Timers!vars PROVE LoopInv'
    <2>1. CASE UNCHANGED Timers!vars
      <3>1. UNCHANGED <<table, position, update, clears, sets, events, releases, sar, tx, rx, asked,
                        state, answered>>
        BY <2>1 DEF Timers!vars, Timers!timer, Timers!fifos, Timers!sessions
      <3>2. ASSUME NEW q \in Connections PROVE Timers!OpeningInv(q)'
        <4>1. /\ Timers!NothingStops(q) => Timers!NothingStops(q)'
              /\ Timers!Untimed(q) => Timers!Untimed(q)'
              /\ Timers!AtTimer(q) => Timers!AtTimer(q)'
          BY <3>1 DEF Timers!NothingStops, Timers!Untimed, Timers!AtTimer, Timers!InFifo
        <4> QED BY <1>2, <3>1, <4>1, TimerFrame
      <3>3. Timers!TypeOK'
        BY <1>2, <3>1 DEF LoopInv, Timers!TypeOK
      <3> QED BY <3>2, <3>3 DEF LoopInv
    <2>2. CASE Timers!Segment
      BY <1>2, <2>2, RxLoadStep DEF Timers!Segment
    <2>3. CASE Timers!Request
      BY <1>2, <2>3, TakeOtherStep DEF Timers!Request
    <2> QED
      BY <1>2, <2>1, <2>2, <2>3, TimerStepKeeps, ReleaseStep, TxTurnStep, RxTransitionStep
      DEF Timers!Next
  <1>3. Timers!Init => LoopInv
    BY <1>1
  <1>4. LoopInv /\ [Timers!Next]_Timers!vars => LoopInv'
    BY <1>2
  <1> QED BY <1>3, <1>4, PTL DEF Timers!Spec

(* Whatever segments and timeouts come in between, an opening that no      *)
(* segment has acknowledged has a timer, a set, an event or a segment      *)
(* under way, or is given up: rxEngTcpFSM stops its timer only for an      *)
(* acknowledgement of it, and retransmit_timer and txEng_metaLoader never  *)
(* drop it.                                                                *)
THEOREM OpeningsAreTimed == LoopConstants => (Timers!Spec => []OpeningIsTimed)
  <1>1. ASSUME LoopConstants, LoopInv PROVE OpeningIsTimed
    <2>1. SUFFICES ASSUME NEW s \in Connections, IsOpening(s), ~answered[s] PROVE IsTimed(s)
      BY DEF OpeningIsTimed
    <2>2. state[s] # "CLOSED" /\ sar[s].sent > 0
      BY <2>1 DEF IsOpening
    <2>3. Timers!IsTimed(s)
      BY <1>1, <2>1, <2>2 DEF LoopInv, Timers!OpeningInv
    <2> QED BY <2>3 DEF Timers!IsTimed, Timers!AtTimer, Timers!InFifo, IsTimed, AtTimer, InFifo
  <1> SUFFICES ASSUME LoopConstants PROVE Timers!Spec => []OpeningIsTimed
    OBVIOUS
  <1>2. LoopInv => OpeningIsTimed
    BY <1>1
  <1> QED BY <1>2, LoopInvariance, PTL

(* The FIFOs and tables of the loop hold what belongs there, of sessions   *)
(* in use, and the scan of retransmit_timer never leaves its table.        *)
THEOREM LoopTypeCorrect == LoopConstants => (Timers!Spec => []Timers!TypeOK)
  <1>1. LoopInv => Timers!TypeOK
    BY DEF LoopInv
  <1> QED BY <1>1, LoopInvariance, PTL
=============================================================================
