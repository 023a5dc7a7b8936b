--------------------------------- MODULE RxPath ---------------------------------
(***************************************************************************)
(* The receiving half of established connections.  The payload of a        *)
(* segment waits in a FIFO while three processes judge the segment one     *)
(* after another: its checksum, its port and session, its place in the     *)
(* stream.  Each leaves a verdict in a FIFO of its own - in the code a bit *)
(* without the segment it is about - and rxEngPacketDropper pairs verdicts *)
(* and payloads by their order alone.  The application reads what it was   *)
(* notified of through rx_app_stream_if, which moves its pointer in        *)
(* rx_sar_table; the payload itself comes by the bypass (RX_DDR_BYPASS 1). *)
(*                                                                         *)
(* A segment stands for its words, byte k of a stream is sequence number   *)
(* k; acknowledgements and window of the other direction are left out, and *)
(* with them the TX engine's read of rx_sar_table, which changes nothing.  *)
(***************************************************************************)
EXTENDS Integers, Sequences, SequencesExt, FiniteSetsExt, TcpState

CONSTANTS Sessions,
          Window,        \* 2^WINDOW_BITS
          StreamLength,  \* bound: bytes of each stream
          Lengths,       \* of segments
          Offsets,       \* bound: where they begin
          Kinds,         \* of segments that arrive, beside ACK and FIN_ACK
          Stray,         \* whether any kind of segment may carry payload
          PayloadDepth,  \* rxEng_tcp_payload: 512 words
          MetaDepth,     \* rxEngMetaInfoFifo, rxEng_fsmMetaDataFifo: 8
          VerdictDepth,  \* the three drop FIFOs: 32
          NotifyDepth,   \* rxEng2rxApp_notification: 4
          InFlight,      \* bound: segments being judged
          DataDepth,     \* bound: payloads the application has not fetched
          None

ASSUME RxPathAssumption ==
    /\ {Window, PayloadDepth, MetaDepth, VerdictDepth, NotifyDepth, InFlight, DataDepth} \subseteq Nat \ {0}
    /\ StreamLength \in Nat
    /\ Lengths \subseteq 0 .. Window - 2
    /\ Offsets # {} /\ Offsets \subseteq 0 .. StreamLength - 1
    /\ Kinds \subseteq {"RST", "SYN", "BOGUS"} /\ Stray \in BOOLEAN

Segments == [session : Sessions \cup {None}, kind : {"ACK", "FIN_ACK"} \cup Kinds, seq : Nat,
             length : Nat, fault : {"none", "checksum", "handler"}]
Entries  == [recvd : 0 .. StreamLength + 1, appd : 0 .. Window - 1]
Loaded   == [seg : Segments, sar : Entries]
Readers  == [session : Sessions, length : Nat \ {0}, appd : 0 .. Window - 1]
ASSUME NoEntryAssumption == None \notin Sessions \cup Loaded \cup Readers

VARIABLES
    payload,        \* rxEng_tcp_payload
    metaInfo,       \* rxEngMetaInfoFifo: each with its checksum's result
    valid,          \* rxEngMetaInfoValid
    fsmMeta,        \* rxEng_fsmMetaDataFifo
    fsm,            \* rxEngTcpFSM in TRANSITION: segment and rx_sar entry, or None
    verdicts,       \* checksum, handler and FSM: the drop FIFOs
    dropper,        \* tpf_state
    state,          \* of each session, in the state table
    rx_table,       \* rx_sar_table: recvd, appd
    notifications,  \* rxEng2rxApp_notification
    reader,         \* rx_app_stream_if: session, length, appd, or None
    answers,        \* appRxDataRspIDsession
    data,           \* rxDataRsp
    requested,      \* history: bytes of each stream asked for
    got             \* history: what the application read of each session

judging == <<payload, metaInfo, valid, verdicts, dropper, data>>
reading == <<reader, answers, requested>>
vars    == <<judging, fsmMeta, fsm, state, rx_table, notifications, reading, got>>

Init ==
    /\ payload = <<>> /\ metaInfo = <<>> /\ valid = <<>>
    /\ fsmMeta = <<>> /\ fsm = None
    /\ verdicts = [checksum |-> <<>>, handler |-> <<>>, fsm |-> <<>>]
    /\ dropper = "RD_VERIFY_CHECKSUM"
    /\ state = [s \in Sessions |-> "ESTABLISHED"]
    /\ rx_table = [s \in Sessions |-> [recvd |-> 0, appd |-> 0]]
    /\ notifications = <<>> /\ reader = None
    /\ answers = <<>> /\ data = <<>>
    /\ requested = [s \in Sessions |-> 0]
    /\ got = [s \in Sessions |-> <<>>]
-----------------------------------------------------------------------------
(* Segments.  The network delivers any part of a stream at any time; what  *)
(* is foreign fails the checksum or has a closed port or no session (fault *)
(* "handler").  A FIN is sent into the window the table has advertised.    *)

Segment(s, kind, seq, length) ==
    [session |-> s, kind |-> kind, seq |-> seq, length |-> length, fault |-> "none"]
Foreign(fault) ==
    [Segment(None, "ACK", 0, 1) EXCEPT !.fault = fault]

AdvertisedEdge(s) == requested[s] + Window - 1

Arrivals(s) ==
    {Segment(s, "ACK", seq, length) : seq \in Offsets, length \in Lengths \ {0}}
    \cup {Segment(s, "ACK", 0, 0)}
    \cup {Segment(s, "FIN_ACK", StreamLength - length, length) :
             length \in {n \in Lengths : n <= StreamLength /\ StreamLength <= AdvertisedEdge(s)}}
    \cup {Segment(s, kind, Max(Offsets), length) :
             kind \in Kinds, length \in IF Stray THEN {0, 1} ELSE {0}}

OfTheStream(seg) == seg.kind = "ACK" => seg.seq + seg.length <= StreamLength

One(x) == IF x = None THEN 0 ELSE 1
Waiting == Len(metaInfo) + Len(valid) + Len(fsmMeta) + One(fsm)

(* rxEngGetMetaData: the payload, if any, into its FIFO, the rest on.      *)
rxEngGetMetaData(seg) ==
    /\ Waiting < InFlight
    /\ Len(metaInfo) < MetaDepth
    /\ metaInfo' = Append(metaInfo, seg)
    /\ IF seg.length # 0
         THEN Len(payload) < PayloadDepth /\ payload' = Append(payload, seg)
         ELSE UNCHANGED payload
    /\ UNCHANGED <<valid, verdicts, dropper, data,
                   fsmMeta, fsm, state, rx_table, notifications, reading, got>>

Arrive ==
    \/ \E s \in Sessions : \E seg \in Arrivals(s) : OfTheStream(seg) /\ rxEngGetMetaData(seg)
    \/ \E fault \in {"checksum", "handler"} : rxEngGetMetaData(Foreign(fault))
-----------------------------------------------------------------------------
(* Verdicts.                                                               *)

(* Variant: a segment without payload is judged too.                       *)
JudgeAlways(who, seg, drop) ==
    /\ Len(verdicts[who]) < VerdictDepth
    /\ verdicts' = [verdicts EXCEPT ![who] = Append(@, drop)]

Judge(who, seg, drop) ==
    IF seg.length = 0 THEN UNCHANGED verdicts
    ELSE /\ Len(verdicts[who]) < VerdictDepth
         /\ verdicts' = [verdicts EXCEPT ![who] = Append(@, drop)]

(* The checksum: a segment that fails ends here.                           *)
rxEngVerifyCheckSum ==
    /\ metaInfo # <<>>
    /\ LET seg == Head(metaInfo) IN
       /\ Judge("checksum", seg, seg.fault = "checksum")
       /\ valid' = IF seg.fault = "checksum" THEN valid ELSE Append(valid, seg)
    /\ Len(valid) < MetaDepth
    /\ metaInfo' = Tail(metaInfo)
    /\ UNCHANGED <<payload, dropper, data,
                   fsmMeta, fsm, state, rx_table, notifications, reading, got>>

(* rxEngMetadataHandler waits for the port table and, if the port is open, *)
(* for the session lookup; both answer a segment at a time.                *)
rxEngMetadataHandler ==
    /\ valid # <<>>
    /\ LET seg == Head(valid) IN
       /\ Judge("handler", seg, seg.fault = "handler")
       /\ IF seg.fault = "handler"
            THEN UNCHANGED fsmMeta
            ELSE Len(fsmMeta) < MetaDepth /\ fsmMeta' = Append(fsmMeta, seg)
    /\ valid' = Tail(valid)
    /\ UNCHANGED <<payload, metaInfo, dropper, data,
                   fsm, state, rx_table, notifications, reading, got>>
-----------------------------------------------------------------------------
(* rxEngTcpFSM.  The lock on the session's entry of the state table is its *)
(* own from LOAD to the write of TRANSITION.  rx_sar_table serves its      *)
(* queues in order and only the FSM writes recvd, only rx_app_stream_if    *)
(* appd, so a request to it may take effect when it is made.               *)

Load ==
    /\ fsm = None /\ fsmMeta # <<>>
    /\ fsm' = [seg |-> Head(fsmMeta), sar |-> rx_table[Head(fsmMeta).session]]
    /\ fsmMeta' = Tail(fsmMeta)
    /\ UNCHANGED <<judging, state, rx_table, notifications, reading, got>>

(* Variant: the application pointer does not limit what is accepted.       *)
FreeSpaceIgnored(sar) == Window

FreeSpace(sar) == (sar.appd - sar.recvd - 1) % Window
InOrder   == fsm.seg.seq = fsm.sar.recvd
Receiving == {"ESTABLISHED", "SYN_RECEIVED", "FIN_WAIT_1", "CLOSING", "LAST_ACK"}
Finishing == {"ESTABLISHED", "FIN_WAIT_1", "FIN_WAIT_2"}

Received(recvd) == rx_table' = [rx_table EXCEPT ![fsm.seg.session].recvd = recvd]
Notify(length, closed) ==
    /\ Len(notifications) < NotifyDepth
    /\ notifications' = Append(notifications, [session |-> fsm.seg.session, length |-> length,
                                               closed |-> closed])
WriteState(kind, ackOk) ==
    LET s == fsm.seg.session IN
    state' = [state EXCEPT ![s] = RxState(kind, state[s], ackOk, InOrder)]

Refuse == Judge("fsm", fsm.seg, TRUE) /\ UNCHANGED <<rx_table, notifications>>

(* Case 1: data in order that the application has room for.                *)
Ack(ackOk) ==
    LET seg == fsm.seg IN
    /\ IF state[seg.session] \in Receiving /\ seg.length # 0
            /\ InOrder /\ FreeSpace(fsm.sar) > seg.length
         THEN /\ Received(seg.seq + seg.length)
              /\ Notify(seg.length, FALSE)
              /\ Judge("fsm", seg, FALSE)
         ELSE Refuse
    /\ WriteState("ACK", ackOk)

(* Case 5: a FIN in order; its payload is not compared with the free space.*)
Fin(ackOk) ==
    LET seg == fsm.seg IN
    /\ IF state[seg.session] \in Finishing /\ InOrder
         THEN /\ Received(seg.seq + seg.length + 1)
              /\ IF seg.length # 0 \/ state[seg.session] = "ESTABLISHED"
                   THEN Notify(seg.length, TRUE) ELSE UNCHANGED notifications
              /\ Judge("fsm", seg, FALSE)
         ELSE Refuse
    /\ WriteState("FIN_ACK", ackOk)

(* The other cases of established connections: a SYN, a RST, bogus flags.  *)
(* None of them writes a verdict.                                          *)
OtherCase(kind, ackOk) ==
    /\ IF kind = "RST" /\ InOrder THEN Notify(0, TRUE) ELSE UNCHANGED notifications
    /\ WriteState(kind, ackOk)
    /\ UNCHANGED <<verdicts, rx_table>>

Transition ==
    /\ fsm # None
    /\ \E ackOk \in BOOLEAN :
          \/ fsm.seg.kind = "ACK" /\ Ack(ackOk)
          \/ fsm.seg.kind = "FIN_ACK" /\ Fin(ackOk)
          \/ fsm.seg.kind \in Kinds /\ OtherCase(fsm.seg.kind, ackOk)
    /\ fsm' = None
    /\ UNCHANGED <<payload, metaInfo, valid, dropper, data, fsmMeta, reading, got>>

(* tx_app_if: the application closes its half.                             *)
CloseConnection(s) ==
    /\ ~(fsm # None /\ fsm.seg.session = s)
    /\ state[s] = "ESTABLISHED"
    /\ state' = [state EXCEPT ![s] = CloseState(@)]
    /\ UNCHANGED <<judging, fsmMeta, fsm, rx_table, notifications, reading, got>>
-----------------------------------------------------------------------------
(* rxEngPacketDropper: one verdict of each process, until one says drop.   *)

ReadVerdict(here, who, next) ==
    /\ dropper = here /\ verdicts[who] # <<>>
    /\ dropper' = IF Head(verdicts[who]) THEN "DROP" ELSE next
    /\ verdicts' = [verdicts EXCEPT ![who] = Tail(@)]
    /\ UNCHANGED <<payload, data>>

Forward ==
    /\ dropper = "FWD" /\ payload # <<>> /\ Len(data) < DataDepth
    /\ data' = Append(data, Head(payload))
    /\ payload' = Tail(payload) /\ dropper' = "RD_VERIFY_CHECKSUM"
    /\ UNCHANGED verdicts

Drop ==
    /\ dropper = "DROP" /\ payload # <<>>
    /\ payload' = Tail(payload) /\ dropper' = "RD_VERIFY_CHECKSUM"
    /\ UNCHANGED <<verdicts, data>>

rxEngPacketDropper ==
    /\ \/ ReadVerdict("RD_VERIFY_CHECKSUM", "checksum", "RD_META_HANDLER")
       \/ ReadVerdict("RD_META_HANDLER", "handler", "RD_FSM_DROP")
       \/ ReadVerdict("RD_FSM_DROP", "fsm", "FWD")
       \/ Forward \/ Drop
    /\ UNCHANGED <<metaInfo, valid, fsmMeta, fsm, state, rx_table,
                   notifications, reading, got>>
-----------------------------------------------------------------------------
(* The application asks for what it is notified of.  rx_app_stream_if      *)
(* reads the pointer, unless there is nothing to read ...                  *)

AskPointer ==
    /\ reader = None /\ notifications # <<>>
    /\ notifications' = Tail(notifications)
    /\ LET r == Head(notifications) IN
       reader' = IF r.length = 0 THEN None
                 ELSE [session |-> r.session, length |-> r.length, appd |-> rx_table[r.session].appd]
    /\ UNCHANGED <<judging, fsmMeta, fsm, state, rx_table, answers, requested, got>>

(* Variant: the request is answered, the pointer stays.                    *)
MovePointerForgets ==
    /\ reader # None
    /\ answers' = Append(answers, reader.session)
    /\ requested' = [requested EXCEPT ![reader.session] = @ + reader.length]
    /\ reader' = None
    /\ UNCHANGED <<judging, fsmMeta, fsm, state, rx_table, notifications, got>>

(* ... and moves it at once, before the application has the data.          *)
MovePointer ==
    /\ reader # None
    /\ answers' = Append(answers, reader.session)
    /\ rx_table' = [rx_table EXCEPT ![reader.session].appd = (reader.appd + reader.length) % Window]
    /\ requested' = [requested EXCEPT ![reader.session] = @ + reader.length]
    /\ reader' = None
    /\ UNCHANGED <<judging, fsmMeta, fsm, state, notifications, got>>

(* It takes the next payload for the answer to its request.                *)
Bytes(seg) == [k \in 1 .. seg.length |-> <<seg.session, seg.seq + k - 1>>]
AppTakes ==
    /\ answers # <<>> /\ data # <<>>
    /\ LET s == Head(answers) IN
       got' = [got EXCEPT ![s] = @ \o Bytes(Head(data))]
    /\ answers' = Tail(answers) /\ data' = Tail(data)
    /\ UNCHANGED <<payload, metaInfo, valid, verdicts, dropper,
                   fsmMeta, fsm, state, rx_table, notifications,
                   reader, requested>>
-----------------------------------------------------------------------------
rxEngTcpFSM == Load \/ Transition
rx_app_stream_if == AskPointer \/ MovePointer

Next ==
    \/ Arrive \/ rxEngVerifyCheckSum \/ rxEngMetadataHandler
    \/ rxEngTcpFSM \/ rxEngPacketDropper
    \/ (\E s \in Sessions : CloseConnection(s))
    \/ rx_app_stream_if \/ AppTakes

Spec == Init /\ [][Next]_vars

(* The processes run in each clock cycle, the application reads, and the   *)
(* peer sends again what is still missing.                                 *)
Missing(s) ==
    LET recvd == rx_table[s].recvd IN
    IF recvd < StreamLength
      THEN Segment(s, "ACK", recvd, Max({n \in Lengths : recvd + n <= StreamLength}))
      ELSE Segment(s, "FIN_ACK", recvd, 0)

Fairness ==
    /\ WF_vars(rxEngVerifyCheckSum) /\ WF_vars(rxEngMetadataHandler)
    /\ WF_vars(Load) /\ WF_vars(Transition)
    /\ WF_vars(rxEngPacketDropper)
    /\ WF_vars(AskPointer) /\ WF_vars(MovePointer) /\ WF_vars(AppTakes)
    /\ \A s \in Sessions : SF_vars(rxEngGetMetaData(Missing(s)))
FairSpec == Spec /\ Fairness
-----------------------------------------------------------------------------
(* Properties.                                                             *)

(* rx_engine.cpp:986, "Drops packets if their metadata did not match / are *)
(* invalid": what the application reads in answer to its requests is the   *)
(* stream of the session, in order and once - so each verdict was about    *)
(* the payload it was applied to.                                          *)
DeliveredIsStream ==
    \A s \in Sessions : \A k \in 1 .. Len(got[s]) : got[s][k] = <<s, k - 1>>

(* rx_engine.cpp:757, "makes sure that app pointer is not overtaken": the  *)
(* bytes accepted and not asked for fit into the buffer, whatever arrives  *)
(* and whenever the application moves its pointer.                         *)
UnreadFits ==
    \A s \in Sessions : Min({rx_table[s].recvd, StreamLength}) - requested[s] < Window

(* A connection that is not reset ends with the whole stream received, and *)
(* the application has all that was received: no payload, verdict or       *)
(* notification is left behind and no window stays closed.                 *)
StreamIsDelivered ==
    <>[](\A s \in Sessions :
            /\ Len(got[s]) = Min({rx_table[s].recvd, StreamLength})
            /\ rx_table[s].recvd = StreamLength + 1 \/ state[s] = "CLOSED")
=============================================================================
