------------------------------ MODULE PortTable ------------------------------
(***************************************************************************)
(* The port table (port_table.cpp) and the life of a port around it.  The  *)
(* lower half of the port numbers is listened on, the upper half is handed *)
(* out for connections the application opens.  Four processes:             *)
(*   listening_port_table   listen requests, then checks of low ports      *)
(*   free_port_table        releases, then checks of high ports, then the  *)
(*                          search for a free port                         *)
(*   check_in_multiplexer   sends a check to one of the two tables         *)
(*   check_out_multiplexer  merges their answers in the order of requests  *)
(* Around them the RX engine keeps the segments whose check is in progress *)
(* in a FIFO of their own (segments), tx_app_if opens connections with the *)
(* free ports, and the session lookup controller releases the port of a    *)
(* connection that ends.                                                   *)
(* A port number is two bytes; HostBytes is the number of values of one,   *)
(* 256 in the code.                                                        *)
(***************************************************************************)
EXTENDS Integers, Sequences, FiniteSets

CONSTANTS HostBytes,      \* values of a byte
          CallDepth,      \* depth of the FIFOs of calls and releases, 4
          CheckDepth,     \* depth of the FIFOs of checks, 8 to 32
          Addressed,      \* the ports that segments arrive for
          Requested       \* the ports the application asks to listen on

ASSUME HostBytesAssumption == HostBytes \in Nat \ {0} /\ HostBytes % 2 = 0
ASSUME PortFifoAssumption  == CallDepth \in Nat \ {0} /\ CheckDepth \in Nat \ {0}

Half  == (HostBytes * HostBytes) \div 2             \* 32768
Ports == 0 .. 2 * Half - 1
Cells == 0 .. Half - 1                              \* the low 15 bits

byteSwap16(p) == (p % HostBytes) * HostBytes + p \div HostBytes
ASSUME RequestedAssumption == Addressed \subseteq Ports /\ Requested \subseteq Ports

IsLow(p) == p < Half
Cell(p)  == p % Half

VARIABLES
    listeningPortTable, freePortTable, cursor,      \* pt_cursor
    listenReq, listenRsp,          \* between the application and the table
    releaseReq,                    \* sLookup2portTable_releasePort
    freePort,                      \* portTable2txApp_free_port
    checkReq,                      \* rxEng2portTable_req
    listenCheck, usedCheck,        \* pt_portCheckListening/Used_req_fifo
    dstFifo,                       \* pt_dstFifo: TRUE for the listening table
    listenAnswer, usedAnswer,      \* pt_portCheckListening/Used_rsp_fifo
    cmState,                       \* cm_fsmState
    checkRsp,                      \* portTable2rxEng_rsp
    segments,                      \* the RX engine's metaDataFifo, and whether
                                   \* the port was open when the segment came
    connections                    \* the ports of the open connections

tables  == <<listeningPortTable, freePortTable, cursor>>
checks  == <<checkReq, listenCheck, usedCheck, dstFifo, listenAnswer, usedAnswer,
             cmState, checkRsp, segments>>
calls   == <<listenReq, listenRsp, releaseReq, freePort, connections>>
vars    == <<tables, checks, calls>>

Init ==
    /\ listeningPortTable = [c \in Cells |-> FALSE]
    /\ freePortTable = [c \in Cells |-> FALSE]
    /\ cursor = 0
    /\ listenReq = <<>> /\ listenRsp = <<>> /\ releaseReq = <<>> /\ freePort = <<>>
    /\ checkReq = <<>> /\ listenCheck = <<>> /\ usedCheck = <<>> /\ dstFifo = <<>>
    /\ listenAnswer = <<>> /\ usedAnswer = <<>> /\ cmState = "READ_DST"
    /\ checkRsp = <<>> /\ segments = <<>>
    /\ connections = {}

HasRoom(fifo) == Len(fifo) < CallDepth
HasSpace(fifo) == Len(fifo) < CheckDepth
-----------------------------------------------------------------------------
(* listening_port_table.                                                   *)

(* A port is opened once, and only in the lower half.                      *)
Listen ==
    LET p == Head(listenReq)
        opens == IsLow(p) /\ ~listeningPortTable[Cell(p)] IN
    /\ listenReq # <<>> /\ HasRoom(listenRsp)
    /\ listeningPortTable' = [listeningPortTable EXCEPT ![Cell(p)] = @ \/ opens]
    /\ listenRsp' = Append(listenRsp, opens)
    /\ listenReq' = Tail(listenReq)
    /\ UNCHANGED <<freePortTable, cursor, checks, releaseReq, freePort, connections>>

CheckListening ==
    /\ listenReq = <<>> /\ listenCheck # <<>> /\ HasSpace(listenAnswer)
    /\ listenAnswer' = Append(listenAnswer, listeningPortTable[Head(listenCheck)])
    /\ listenCheck' = Tail(listenCheck)
    /\ UNCHANGED <<tables, calls, checkReq, usedCheck, dstFifo, usedAnswer, cmState,
                   checkRsp, segments>>

ListeningPortTable == Listen \/ CheckListening
-----------------------------------------------------------------------------
(* free_port_table: the cursor moves in every cycle, whatever the cycle is *)
(* used for.                                                               *)

MoveCursor == cursor' = (cursor + 1) % Half

ReleasePort ==
    LET p == Head(releaseReq) IN
    /\ releaseReq # <<>>
    /\ releaseReq' = Tail(releaseReq)
    /\ freePortTable' = IF IsLow(p) THEN freePortTable
                                    ELSE [freePortTable EXCEPT ![Cell(p)] = FALSE]
    /\ MoveCursor
    /\ UNCHANGED <<listeningPortTable, checks, listenReq, listenRsp, freePort, connections>>

CheckUsed ==
    /\ releaseReq = <<>> /\ usedCheck # <<>> /\ HasSpace(usedAnswer)
    /\ usedAnswer' = Append(usedAnswer, freePortTable[Head(usedCheck)])
    /\ usedCheck' = Tail(usedCheck)
    /\ MoveCursor
    /\ UNCHANGED <<listeningPortTable, freePortTable, calls, checkReq, listenCheck,
                   dstFifo, listenAnswer, cmState, checkRsp, segments>>

(* Variant: the cursor stays on a port that is in use.                     *)
SearchFromFreeOnly ==
    /\ releaseReq = <<>> /\ usedCheck = <<>>
    /\ ~freePortTable[cursor] /\ HasRoom(freePort)
    /\ freePortTable' = [freePortTable EXCEPT ![cursor] = TRUE]
    /\ freePort' = Append(freePort, Half + cursor)
    /\ MoveCursor
    /\ UNCHANGED <<listeningPortTable, checks, listenReq, listenRsp, releaseReq, connections>>

SearchFreePort ==
    /\ releaseReq = <<>> /\ usedCheck = <<>>
    /\ IF ~freePortTable[cursor] /\ HasRoom(freePort)
         THEN /\ freePortTable' = [freePortTable EXCEPT ![cursor] = TRUE]
              /\ freePort' = Append(freePort, Half + cursor)
         ELSE UNCHANGED <<freePortTable, freePort>>
    /\ MoveCursor
    /\ UNCHANGED <<listeningPortTable, checks, listenReq, listenRsp, releaseReq, connections>>

FreePortTable == ReleasePort \/ CheckUsed \/ SearchFreePort
-----------------------------------------------------------------------------
(* The multiplexers.  A segment carries its port in network byte order.    *)
CheckIn ==
    LET p == byteSwap16(Head(checkReq)) IN
    /\ checkReq # <<>> /\ HasSpace(dstFifo)
    /\ checkReq' = Tail(checkReq)
    /\ dstFifo' = Append(dstFifo, IsLow(p))
    /\ IF IsLow(p)
         THEN /\ HasSpace(listenCheck) /\ listenCheck' = Append(listenCheck, Cell(p))
              /\ UNCHANGED usedCheck
         ELSE /\ HasSpace(usedCheck) /\ usedCheck' = Append(usedCheck, Cell(p))
              /\ UNCHANGED listenCheck
    /\ UNCHANGED <<tables, calls, listenAnswer, usedAnswer, cmState, checkRsp, segments>>

ReadDst ==
    /\ cmState = "READ_DST" /\ dstFifo # <<>>
    /\ dstFifo' = Tail(dstFifo)
    /\ cmState' = IF Head(dstFifo) THEN "READ_LISTENING" ELSE "READ_USED"
    /\ UNCHANGED <<tables, calls, checkReq, listenCheck, usedCheck, listenAnswer,
                   usedAnswer, checkRsp, segments>>

(* Variant: an answer is passed on as soon as it is there.                 *)
ReadsAnyState(state) == TRUE
Reads(state) == cmState = state

ReadListening ==
    /\ Reads("READ_LISTENING") /\ listenAnswer # <<>> /\ HasSpace(checkRsp)
    /\ checkRsp' = Append(checkRsp, Head(listenAnswer))
    /\ listenAnswer' = Tail(listenAnswer)
    /\ cmState' = "READ_DST"
    /\ UNCHANGED <<tables, calls, checkReq, listenCheck, usedCheck, dstFifo,
                   usedAnswer, segments>>

ReadUsed ==
    /\ Reads("READ_USED") /\ usedAnswer # <<>> /\ HasSpace(checkRsp)
    /\ checkRsp' = Append(checkRsp, Head(usedAnswer))
    /\ usedAnswer' = Tail(usedAnswer)
    /\ cmState' = "READ_DST"
    /\ UNCHANGED <<tables, calls, checkReq, listenCheck, usedCheck, dstFifo,
                   listenAnswer, segments>>

CheckOut == ReadDst \/ ReadListening \/ ReadUsed
-----------------------------------------------------------------------------
(* Around the table.                                                       *)

IsOpen(p) == IF IsLow(p) THEN listeningPortTable[Cell(p)] ELSE freePortTable[Cell(p)]

(* rxEngVerifyCheckSum passes a segment on and asks for its port.          *)
SegmentArrives(p) ==
    /\ HasSpace(checkReq) /\ HasSpace(segments)
    /\ checkReq' = Append(checkReq, byteSwap16(p))
    /\ segments' = Append(segments, [port |-> p, wasOpen |-> IsOpen(p)])
    /\ UNCHANGED <<tables, calls, listenCheck, usedCheck, dstFifo, listenAnswer,
                   usedAnswer, cmState, checkRsp>>

(* rxEngMetadataHandler takes the answer with the oldest segment; if the   *)
(* port is open the segment may create a connection.                       *)
SegmentChecked ==
    /\ checkRsp # <<>> /\ segments # <<>>
    /\ checkRsp' = Tail(checkRsp)
    /\ segments' = Tail(segments)
    /\ connections' \in
          {connections} \union
          (IF Head(checkRsp) THEN {connections \union {Head(segments).port}} ELSE {})
    /\ UNCHANGED <<tables, checkReq, listenCheck, usedCheck, dstFifo, listenAnswer,
                   usedAnswer, cmState, listenReq, listenRsp, releaseReq, freePort>>

ListenCall(p) ==
    /\ HasRoom(listenReq)
    /\ listenReq' = Append(listenReq, p)
    /\ UNCHANGED <<tables, checks, listenRsp, releaseReq, freePort, connections>>

ListenReturns ==
    /\ listenRsp # <<>>
    /\ listenRsp' = Tail(listenRsp)
    /\ UNCHANGED <<tables, checks, listenReq, releaseReq, freePort, connections>>

(* tx_app_if opens a connection from the next free port.                   *)
OpenConnection ==
    /\ freePort # <<>>
    /\ freePort' = Tail(freePort)
    /\ connections' = connections \union {Head(freePort)}
    /\ UNCHANGED <<tables, checks, listenReq, listenRsp, releaseReq>>

(* A connection ends; its tuple holds the port in network byte order, and  *)
(* so does the release.                                                    *)
EndConnection(p) ==
    /\ p \in connections /\ HasRoom(releaseReq)
    /\ connections' = connections \ {p}
    /\ releaseReq' = Append(releaseReq, byteSwap16(p))
    /\ UNCHANGED <<tables, checks, listenReq, listenRsp, freePort>>

Arrival ==
    \/ \E p \in Addressed : SegmentArrives(p)
    \/ \E p \in Requested : ListenCall(p)
    \/ \E p \in Ports : EndConnection(p)
    \/ OpenConnection

Next ==
    \/ ListeningPortTable \/ FreePortTable \/ CheckIn \/ CheckOut
    \/ SegmentChecked \/ ListenReturns \/ Arrival

Spec == Init /\ [][Next]_vars

(* Every process runs in every clock cycle.                                *)
Fairness ==
    /\ WF_vars(ListeningPortTable) /\ WF_vars(FreePortTable)
    /\ WF_vars(CheckIn) /\ WF_vars(CheckOut)
    /\ WF_vars(SegmentChecked) /\ WF_vars(ListenReturns)

FairSpec == Spec /\ Fairness
-----------------------------------------------------------------------------
(* Properties.                                                             *)

(* An answer belongs to the oldest segment: the two tables answer at their *)
(* own pace, yet no segment gets the answer of another.  For a listening   *)
(* port, which is never closed again, the answer is what the table said at *)
(* some moment between the segment's arrival and now.                      *)
AnswerFitsSegment ==
    checkRsp # <<>> /\ segments # <<>> /\ IsLow(Head(segments).port) =>
        /\ Head(checkRsp) => IsOpen(Head(segments).port)
        /\ Head(segments).wasOpen => Head(checkRsp)

(* Every segment waiting for its check has exactly one request or answer   *)
(* on the way, and every entry of pt_dstFifo a check in its table.         *)
ChecksAreCounted ==
    /\ Len(segments) = Len(checkReq) + Len(dstFifo) + Len(checkRsp)
                       + (IF cmState = "READ_DST" THEN 0 ELSE 1)
    /\ Cardinality({j \in DOMAIN dstFifo : dstFifo[j]})
          + (IF cmState = "READ_LISTENING" THEN 1 ELSE 0)
       = Len(listenCheck) + Len(listenAnswer)
    /\ Cardinality({j \in DOMAIN dstFifo : ~dstFifo[j]})
          + (IF cmState = "READ_USED" THEN 1 ELSE 0)
       = Len(usedCheck) + Len(usedAnswer)

(* Once segments and calls pause, every segment has been checked and the   *)
(* search has filled the FIFO of free ports or found that there are none.  *)
SettlesWhenIdle ==
    <>[][~Arrival]_vars =>
        <>[](/\ segments = <<>> /\ listenReq = <<>>
             /\ ~HasRoom(freePort) \/ \A c \in Cells : freePortTable[c])
=============================================================================
