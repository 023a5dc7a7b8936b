--------------------------------- MODULE TxPath ---------------------------------
(***************************************************************************)
(* The sending half of one established connection: the stream interface    *)
(* accepts writes of the application on a copy of the acknowledgement      *)
(* (tx_app_table), each accepted write becomes a TX event, the TX engine   *)
(* sends it (Nagle's algorithm off: from the bypass, without waiting for   *)
(* the memory) and sends it again from the memory, the RX engine applies   *)
(* acknowledgements to tx_sar_table, which pushes them to the copy.  The   *)
(* network loses, repeats and reorders segments and acknowledgements.      *)
(* The application closes at any time, also again.                         *)
(*                                                                         *)
(* Bytes of the stream and sequence numbers count from 0.  tx_app_table    *)
(* and the addresses of the buffer have their low bits only, so that what  *)
(* is computed from them is computed modulo Window.  The congestion        *)
(* window, which may only lower the window of the peer, is any of a few    *)
(* values.                                                                 *)
(***************************************************************************)
EXTENDS Integers, Sequences, SequencesExt, FiniteSetsExt

CONSTANTS Window,      \* 2^WINDOW_BITS, the length of the buffer
          MSS,
          Burst,       \* segments that one event sends again at most: 4
          Lengths,     \* of writes
          Congestion,  \* values of the congestion window
          PeerWindow,  \* what the peer advertises at most
          PushDepth,   \* txSar2txApp_ack_push: 2
          MergeDepth,  \* txAppStream2event_mergeEvent, txApp2eventEng_mergeEvent: 2
          EventDepth,  \* txApp2eventEng_setEvent: 4
          SegmentDepth, ReplyDepth, \* bounds: what the network remembers
          MaxBytes,    \* bound: bytes of the stream
          MaxFins,     \* bound: sequence numbers that FINs take
          Unchecked,   \* the acknowledgement of the peer's FIN may be out of range
          None

ASSUME TxPathAssumption ==
    /\ {Window, MSS, Burst, PeerWindow, PushDepth, MergeDepth, EventDepth, SegmentDepth,
        ReplyDepth} \subseteq Nat \ {0}
    /\ Lengths \subseteq 1 .. Window - 1 /\ Congestion \subseteq 1 .. Window - 1
    /\ PeerWindow < Window /\ MaxBytes \in Nat /\ MaxFins \in Nat
    /\ Unchecked \in BOOLEAN

Events == [type : {"TX", "RT", "FIN"}, from : Nat, length : Nat, again : BOOLEAN]
Transmissions == [event : Events, ackd : Nat, not_ackd : Nat, finSent : BOOLEAN, left : Nat,
                  segments : Nat]
ASSUME NoTransmissionAssumption == None \notin Transmissions

VARIABLES
    established,  \* the state of the session is ESTABLISHED
    appTable,     \* tx_app_table: ackd, mempt, min_window
    pushes,       \* txSar2txApp_ack_push
    write,        \* tasi_metaLoader: the write it works on, or None
    finEvents, txEvents,  \* the FIFOs txEventMerger merges
    appEvents,    \* txApp2eventEng_setEvent
    others,       \* events of the RX engine and the timers
    sar,          \* tx_table: ackd, not_ackd, finSent
    tx,           \* txEng_metaLoader: its event and what it read, or None
    finReceived,  \* rx_sar_table is past the peer's FIN
    accepted,     \* bytes accepted from the application
    finAt, fins,  \* history: the number of the first FIN; numbers FINs took
    segments, replies,    \* the network, to the peer and from it
    peer          \* the peer: next byte, right edge, what it got, finished

app  == <<appTable, pushes, write, txEvents, accepted>>
net  == <<segments, replies, peer>>
hist == <<finAt, fins>>
vars == <<established, app, finEvents, appEvents, others, sar, tx, finReceived, hist, net>>

Init ==
    /\ established = TRUE
    /\ \E cong \in Congestion :
          appTable = [ackd |-> 0, mempt |-> 0, min_window |-> Min({cong, PeerWindow})]
    /\ pushes = <<>> /\ write = None
    /\ finEvents = <<>> /\ txEvents = <<>> /\ appEvents = <<>> /\ others = <<>>
    /\ sar = [ackd |-> 0, not_ackd |-> 0, finSent |-> FALSE]
    /\ tx = None /\ finReceived = FALSE
    /\ accepted = 0 /\ finAt = 0 /\ fins = 0
    /\ segments = <<>> /\ replies = <<>>
    /\ peer = [next |-> 0, edge |-> PeerWindow, got |-> <<>>, finished |-> FALSE]
-----------------------------------------------------------------------------
(* tx_app_table: pushes before queries.                                    *)

ApplyPush ==
    /\ pushes # <<>>
    /\ pushes' = Tail(pushes)
    /\ appTable' = [appTable EXCEPT !.ackd = Head(pushes).ackd,
                                    !.min_window = Head(pushes).min_window]
    /\ UNCHANGED <<established, write, txEvents, accepted, finEvents, appEvents, others,
                   sar, tx, finReceived, hist, net>>

AnswerQuery ==
    /\ write # None /\ write.table = None /\ pushes = <<>>
    /\ write' = [write EXCEPT !.table = appTable]
    /\ UNCHANGED <<established, appTable, pushes, txEvents, accepted, finEvents, appEvents,
                   others, sar, tx, finReceived, hist, net>>

tx_app_table == ApplyPush \/ AnswerQuery
-----------------------------------------------------------------------------
(* tasi_metaLoader: READ_REQUEST asks the state table, which answers at    *)
(* once here (in another state the write is refused, which changes         *)
(* nothing), and tx_app_table ...                                          *)

ReadRequest(length) ==
    /\ established /\ write = None /\ accepted + length <= MaxBytes
    /\ write' = [length |-> length, table |-> None]
    /\ UNCHANGED <<established, appTable, pushes, txEvents, accepted, finEvents, appEvents,
                   others, sar, tx, finReceived, hist, net>>

(* Variant: what is under way is not deducted from the window.             *)
UsableWithoutUsed(t) == t.min_window

UsableWindow(t) ==
    LET usedLength == (t.mempt - t.ackd) % Window IN
    IF t.min_window > usedLength THEN t.min_window - usedLength ELSE 0
MaxWriteLength(t) == (t.ackd - t.mempt - 1) % Window

(* Variant: the pointer of the application is not written back.            *)
ReadMetaForgets ==
    LET t == write.table IN
    /\ write # None /\ write.table # None
    /\ write' = None
    /\ IF write.length <= UsableWindow(t) /\ write.length <= MaxWriteLength(t)
         THEN /\ Len(txEvents) < MergeDepth
              /\ txEvents' = Append(txEvents, [type |-> "TX", from |-> accepted,
                                               length |-> write.length, again |-> FALSE])
              /\ accepted' = accepted + write.length
         ELSE UNCHANGED <<txEvents, accepted>>
    /\ UNCHANGED <<established, appTable, pushes, finEvents, appEvents, others, sar, tx,
                   finReceived, hist, net>>

(* ... and READ_META accepts the write if the answer lets it.              *)
ReadMeta ==
    LET t == write.table IN
    /\ write # None /\ write.table # None
    /\ write' = None
    /\ IF write.length <= UsableWindow(t) /\ write.length <= MaxWriteLength(t)
         THEN /\ Len(txEvents) < MergeDepth
              /\ txEvents' = Append(txEvents, [type |-> "TX", from |-> accepted,
                                               length |-> write.length, again |-> FALSE])
              /\ appTable' = [appTable EXCEPT !.mempt = t.mempt + write.length]
              /\ accepted' = accepted + write.length
         ELSE UNCHANGED <<txEvents, appTable, accepted>>
    /\ UNCHANGED <<established, pushes, finEvents, appEvents, others, sar, tx, finReceived, hist,
                   net>>

(* tx_app_if: the application closes the connection: in ESTABLISHED and,   *)
(* once more, in FIN_WAIT_1 and FIN_WAIT_2 (bound: events that may take a  *)
(* number for a FIN).                                                      *)
Fin == [type |-> "FIN", from |-> 0, length |-> 0, again |-> FALSE]

FinsAsked ==
    LET MayTake(e) == ~e.again /\ e.type # "TX" IN
    Len(SelectSeq(finEvents \o appEvents \o others, MayTake))
    + (IF tx # None /\ MayTake(tx.event) THEN 1 ELSE 0)

CloseConnection ==
    /\ ~finReceived
    /\ fins + FinsAsked < MaxFins
    /\ Len(finEvents) < MergeDepth
    /\ established' = FALSE
    /\ finEvents' = Append(finEvents, Fin)
    /\ UNCHANGED <<app, appEvents, others, sar, tx, finReceived, hist, net>>

(* Variant: a full FIFO is not waited for.                                 *)
MergerOverruns ==
    /\ finEvents = <<>> /\ txEvents # <<>>
    /\ txEvents' = Tail(txEvents)
    /\ appEvents' = IF Len(appEvents) < EventDepth THEN Append(appEvents, Head(txEvents)) ELSE appEvents
    /\ UNCHANGED <<established, appTable, pushes, write, accepted, finEvents, others, sar, tx,
                   finReceived, hist, net>>

(* txEventMerger: events of tx_app_if first.                               *)
txEventMerger ==
    /\ Len(appEvents) < EventDepth
    /\ IF finEvents # <<>>
         THEN /\ appEvents' = Append(appEvents, Head(finEvents))
              /\ finEvents' = Tail(finEvents) /\ UNCHANGED txEvents
         ELSE /\ txEvents # <<>>
              /\ appEvents' = Append(appEvents, Head(txEvents))
              /\ txEvents' = Tail(txEvents) /\ UNCHANGED finEvents
    /\ UNCHANGED <<established, appTable, pushes, write, accepted, others, sar, tx, finReceived,
                   hist, net>>
-----------------------------------------------------------------------------
(* tx_sar_table for the TX engine, which it serves before the others.      *)
(* usedLength_rst, what is left to send again, does not count the FIN.     *)
(* What only RT uses is 0 for the other events.                            *)

UsedLengthRst == (sar.not_ackd - sar.ackd - (IF sar.finSent THEN 1 ELSE 0)) % Window
ReadSar(event) ==
    LET rt == event.type = "RT" IN
    [event |-> event, not_ackd |-> sar.not_ackd, finSent |-> sar.finSent, segments |-> 0,
     ackd |-> IF rt THEN sar.ackd ELSE 0, left |-> IF rt THEN UsedLengthRst ELSE 0]
UpdateSar(not_ackd, finSent) ==
    sar' = [sar EXCEPT !.not_ackd = not_ackd, !.finSent = @ \/ finSent]

(* txEng_metaLoader: taking an event (the event engine merges the two      *)
(* FIFOs) reads tx_sar_table.                                              *)

Begin(event) ==
    /\ tx = None
    /\ tx' = ReadSar(event)
    /\ UNCHANGED <<established, app, finEvents, sar, finReceived, hist, net>>

TakeAppEvent ==
    /\ appEvents # <<>>
    /\ Begin(Head(appEvents)) /\ appEvents' = Tail(appEvents) /\ UNCHANGED others

TakeOtherEvent ==
    /\ others # <<>>
    /\ Begin(Head(others)) /\ others' = Tail(others) /\ UNCHANGED appEvents

(* The network delivers the last few segments in any order and number,     *)
(* as long as the peer has not got the end of the stream.                  *)
Carry(queue, depth, x) == Append(IF Len(queue) < depth THEN queue ELSE Tail(queue), x)

Transmit(seq, data, fin) ==
    /\ segments' = IF peer.finished THEN <<>>
                   ELSE Carry(segments, SegmentDepth, [seq |-> seq, data |-> data, fin |-> fin])
    /\ UNCHANGED <<established, app, finEvents, appEvents, others, finReceived, replies, peer>>

(* The bypass hands out the bytes in the order they were accepted.         *)
SendNew ==
    LET e == tx.event IN
    /\ tx # None /\ tx.event.type = "TX"
    /\ Transmit(tx.not_ackd, [k \in 1 .. e.length |-> e.from + k - 1], FALSE)
    /\ UpdateSar(tx.not_ackd + e.length, FALSE)
    /\ tx' = None /\ UNCHANGED hist

(* What the memory holds at the address of a sequence number: the byte     *)
(* accepted last of those that lie there.                                  *)
Stored(n) ==
    LET there == {b \in 0 .. accepted - 1 : b % Window = n % Window} IN
    IF there = {} THEN -1 ELSE Max(there)

(* Variant: the address is made after ackd was moved.                      *)
ResendFromNext(length) == [k \in 1 .. length |-> Stored(tx.ackd + length + k - 1)]
ResendData(length) == [k \in 1 .. length |-> Stored(tx.ackd + k - 1)]

(* RT, RT_CONT: MSS bytes from ackd on, Burst times at most; the FIN       *)
(* follows the last of them.                                               *)
ResendPart ==
    /\ tx # None /\ tx.event.type = "RT" /\ tx.left > MSS
    /\ Transmit(tx.ackd, ResendData(MSS), FALSE)
    /\ tx' = IF tx.segments = Burst - 1 THEN None
             ELSE [tx EXCEPT !.ackd = @ + MSS, !.left = @ - MSS, !.segments = @ + 1]
    /\ UNCHANGED <<sar, hist>>

ResendLast ==
    /\ tx # None /\ tx.event.type = "RT" /\ tx.left <= MSS
    /\ IF tx.left > 0
         THEN Transmit(tx.ackd, ResendData(tx.left), FALSE)
         ELSE UNCHANGED <<established, app, finEvents, appEvents, others, finReceived, net>>
    /\ tx' = IF tx.finSent THEN [tx EXCEPT !.event.type = "FIN", !.ackd = 0, !.left = 0, !.segments = 0]
             ELSE None
    /\ UNCHANGED <<sar, hist>>

Resend == ResendPart \/ ResendLast

(* Variant: the cases are swapped.                                         *)
FinNumberSwapped == IF tx.event.again THEN tx.not_ackd ELSE tx.not_ackd - 1
FinNumber == IF tx.event.again THEN tx.not_ackd - 1 ELSE tx.not_ackd

SendFin ==
    /\ tx # None /\ tx.event.type = "FIN"
    /\ Transmit(FinNumber, <<>>, TRUE)
    /\ IF tx.event.again THEN UNCHANGED <<sar, hist>>
       ELSE /\ UpdateSar(tx.not_ackd + 1, TRUE)
            /\ finAt' = IF tx.finSent THEN finAt ELSE tx.not_ackd
            /\ fins' = fins + 1
    /\ tx' = None

Finish == SendNew \/ Resend \/ SendFin
TxStep == TakeAppEvent \/ TakeOtherEvent \/ Finish

(* retransmit_timer fires for what is not acknowledged, after what is in   *)
(* the event engine has been sent (bound: one event at a time).            *)
RetransmitTimer ==
    /\ others = <<>> /\ tx = None /\ sar.ackd < sar.not_ackd
    /\ others' = <<[type |-> "RT", from |-> 0, length |-> 0, again |-> TRUE]>>
    /\ UNCHANGED <<established, app, finEvents, appEvents, sar, tx, finReceived, hist, net>>
-----------------------------------------------------------------------------
(* rxEngTcpFSM, for acknowledgements r of the peer, any of which may carry *)
(* its FIN: LOAD asks tx_sar_table and TRANSITION writes it, which pushes  *)
(* what changed.  Nobody else writes ackd, and what r acknowledges was     *)
(* sent before the table was asked: the two are one step here.             *)
WriteSar(ack, win) ==
    /\ Len(pushes) < PushDepth
    /\ sar' = [sar EXCEPT !.ackd = ack]
    /\ \E cong \in Congestion :
          pushes' = Append(pushes, [ackd |-> ack, min_window |-> Min({cong, win})])

InRange(ack, prevAck, nextByte) ==
    \/ prevAck <= ack /\ ack <= nextByte
    \/ nextByte < prevAck /\ (prevAck <= ack \/ ack <= nextByte)

(* The third duplicate asks for a fast retransmission, after which a FIN   *)
(* takes a new number (bounds: one event at a time, and those numbers).    *)
FastRetransmit(r) ==
    /\ r.ack = sar.ackd /\ sar.ackd # sar.not_ackd
    /\ others = <<>> /\ fins + FinsAsked < MaxFins
    /\ others' = <<[type |-> "RT", from |-> 0, length |-> 0, again |-> FALSE]>>

RxAck(r) ==
    /\ IF InRange(r.ack, sar.ackd, sar.not_ackd) THEN WriteSar(r.ack, r.win)
                                                  ELSE UNCHANGED <<sar, pushes>>
    /\ UNCHANGED others \/ FastRetransmit(r)
    /\ UNCHANGED <<established, finReceived>>

(* The peer's FIN, when it comes in order, is answered by our own, of      *)
(* whatever its acknowledgement; when it comes again nothing changes.      *)
RxFin(r) ==
    /\ ~finReceived
    /\ Unchecked \/ InRange(r.ack, sar.ackd, sar.not_ackd)
    /\ WriteSar(r.ack, r.win)
    /\ finReceived' = TRUE /\ established' = FALSE
    /\ others' = IF established THEN Append(others, Fin) ELSE others

rxEngTcpFSM ==
    /\ \E i \in 1 .. Len(replies) : RxAck(replies[i]) \/ RxFin(replies[i])
    /\ UNCHANGED <<appTable, write, txEvents, accepted, finEvents, appEvents, tx, hist, net>>
-----------------------------------------------------------------------------
(* The peer and the network (outside).                                     *)

(* The peer takes what comes next and fits its window.                     *)
NewBytes(seg) ==
    IF seg.seq <= peer.next
      THEN SubSeq(seg.data, peer.next - seg.seq + 1, Min({Len(seg.data), peer.edge - seg.seq}))
      ELSE <<>>

Arrives(seg) ==
    IF seg.fin /\ seg.seq = peer.next
      THEN [peer EXCEPT !.next = @ + 1, !.finished = TRUE]
      ELSE [peer EXCEPT !.next = @ + Len(NewBytes(seg)), !.got = @ \o NewBytes(seg)]

PeerReceives ==
    /\ ~peer.finished
    /\ \E i \in 1 .. Len(segments) : peer' = Arrives(segments[i])
    /\ segments' = IF peer'.finished THEN <<>> ELSE segments
    /\ UNCHANGED replies

(* The peer, which has read all it got or nothing, acknowledges.  Behind   *)
(* the end of the stream it gives no more window.                          *)
PeerReplies ==
    /\ \E edge \in {peer.edge, peer.next + PeerWindow} :
          /\ peer.finished => edge = peer.edge
          /\ peer' = [peer EXCEPT !.edge = edge]
          /\ replies' = Carry(replies, ReplyDepth, [ack |-> peer.next,
                                                   win |-> Max({edge - peer.next, 0})])
    /\ UNCHANGED segments

Outside ==
    /\ PeerReceives \/ PeerReplies
    /\ UNCHANGED <<established, app, finEvents, appEvents, others, sar, tx, finReceived, hist>>

Write == \E length \in Lengths : ReadRequest(length)

Next == \/ tx_app_table \/ ReadMeta \/ txEventMerger
        \/ TxStep \/ RetransmitTimer \/ rxEngTcpFSM
        \/ Write \/ CloseConnection \/ Outside

Spec == Init /\ [][Next]_vars

(* Each process runs in each clock cycle.  The events of the application   *)
(* get their turn although those of the RX engine and the timers go first: *)
(* a timer is at least TIME_1s, so their FIFO runs empty again and again.  *)
Fairness ==
    /\ WF_vars(tx_app_table) /\ WF_vars(ReadMeta) /\ WF_vars(txEventMerger)
    /\ SF_vars(TakeAppEvent) /\ WF_vars(TakeOtherEvent \/ Finish)
FairSpec == Spec /\ Fairness
-----------------------------------------------------------------------------
(* Properties.                                                             *)

(* The peer gets the bytes the application wrote, in their order, up to    *)
(* the first FIN: whatever is lost, repeated or sent again from a buffer   *)
(* that is written anew meanwhile.                                         *)
PeerGetsTheStream ==
    \A k \in 1 .. Len(peer.got) : (sar.finSent => k <= finAt) => peer.got[k] = k - 1

(* The peer takes the stream to end behind all that was sent before the    *)
(* first FIN, whichever FIN reaches it: the first, one of a second close   *)
(* or of a fast retransmission, or one that the timer sends again.         *)
FinComesBehind == peer.finished => sar.finSent /\ Len(peer.got) >= finAt

(* What the stream interface accepts fits into the window of the peer,     *)
(* although it decides on a copy of acknowledgement and window.            *)
AcceptedFitsWindow == accepted <= peer.edge

(* The sending half implements the abstract stream; the first FIN ends it. *)
Stream == INSTANCE ByteStream WITH
            accepted <- IF sar.finSent THEN finAt ELSE accepted,
            sent <- IF sar.finSent THEN finAt ELSE sar.not_ackd,
            acked <- IF sar.finSent THEN Min({sar.ackd, finAt}) ELSE sar.ackd,
            closed <- sar.finSent
ImplementsStream == Stream!Spec

(* What was accepted is sent: no event is lost or stuck on its way through *)
(* the two mergers, also if it is behind a FIN (the bound ends the writes).*)
AcceptedIsSent == <>[](sar.not_ackd - fins >= accepted)
=============================================================================
