---------------------------- MODULE SessionLookup ----------------------------
(***************************************************************************)
(* The session lookup controller (session_lookup_controller.cpp): five     *)
(* processes around an external content-addressable memory (CAM) that maps *)
(* a connection's tuple to its session ID.                                 *)
(*   sessionIdManager             hands out IDs, the released ones first   *)
(*   lookupReplyHandler           looks tuples up, one at a time, and      *)
(*                                creates a session on a permitted miss    *)
(*   updateRequestSender          sends inserts and deletes to the CAM     *)
(*   updateReplyHandler           forwards the replies to inserts          *)
(*   reverseLookupTableInterface  keeps the tuple of every ID and frees it *)
(* The clients are the RX engine and tx_app_if, which look up, the state   *)
(* table, which releases, and the TX engine, which asks for a tuple.       *)
(* slc_queryCache and slc_insertTuples never hold more than the one lookup *)
(* in progress and are the variable query.  A write to a full FIFO stalls. *)
(***************************************************************************)
EXTENDS Naturals, SequencesExt

CONSTANTS MaxSessions,  \* MAX_SESSIONS
          Tuples,       \* three-tuples: their IP, their port, my port
          FifoDepth,    \* depth of the FIFOs, 4 in the code
          Queried,      \* the sessions whose tuple the TX engine asks for
          None

Sessions == 0 .. MaxSessions - 1
Sources  == {"RX", "TX_APP"}

ASSUME MaxSessionsAssumption == MaxSessions \in Nat \ {0}
ASSUME LookupFifoAssumption  == FifoDepth \in Nat \ {0}
ASSUME QueriedAssumption     == Queried \subseteq Sessions
ASSUME NoneAssumption        == None \notin Sessions \union Tuples

VARIABLES
    counter, freeList, finFifo,      \* sessionIdManager
    fsm, query,                      \* lookupReplyHandler
    insertReq, deleteReq, used,      \* updateRequestSender
    insertRsp,                       \* from updateReplyHandler
    reverseTable, tupleValid, revInsert,
    cam, camLookup, camHit, camUpdate, camDone,  \* the CAM and its channels
    lookups, replies,                \* per source: its requests, its replies
    releaseReq, releasePort,         \* from the state table, to the port table
    revReq, revRsp                   \* from and to the TX engine

ids     == <<counter, freeList, finFifo>>
handler == <<fsm, query, camLookup, camHit>>
updates == <<insertReq, deleteReq, used, camUpdate, camDone, insertRsp, cam>>
reverse == <<reverseTable, tupleValid, revInsert>>
outside == <<lookups, replies, releaseReq, releasePort, revReq, revRsp>>
vars    == <<ids, handler, updates, reverse, outside>>

Init ==
    /\ counter = 0 /\ freeList = <<>> /\ finFifo = <<>>
    /\ fsm = "LUP_REQ" /\ query = None
    /\ insertReq = <<>> /\ deleteReq = <<>> /\ used = 0
    /\ insertRsp = <<>> /\ revInsert = <<>>
    /\ reverseTable = [s \in Sessions |-> None]
    /\ tupleValid = [s \in Sessions |-> FALSE]
    /\ cam = [t \in Tuples |-> None]
    /\ camLookup = <<>> /\ camHit = <<>> /\ camUpdate = <<>> /\ camDone = <<>>
    /\ lookups = [c \in Sources |-> <<>>] /\ replies = [c \in Sources |-> <<>>]
    /\ releaseReq = <<>> /\ releasePort = <<>>
    /\ revReq = <<>> /\ revRsp = <<>>

HasRoom(fifo) == Len(fifo) < FifoDepth
-----------------------------------------------------------------------------
(* sessionIdManager.  The free list has room for every ID (16384).         *)
RecycleID ==
    /\ finFifo # <<>>
    /\ freeList' = Append(freeList, Head(finFifo))
    /\ finFifo' = Tail(finFifo)
    /\ UNCHANGED <<counter, handler, updates, reverse, outside>>

NewID ==
    /\ finFifo = <<>> /\ counter < MaxSessions
    /\ freeList' = Append(freeList, counter)
    /\ counter' = counter + 1
    /\ UNCHANGED <<finFifo, handler, updates, reverse, outside>>

SessionIdManager == RecycleID \/ NewID
-----------------------------------------------------------------------------
(* lookupReplyHandler.                                                     *)

(* LUP_REQ: the application's lookups go first.                            *)
LookupRequest(c) ==
    /\ fsm = "LUP_REQ" /\ lookups[c] # <<>>
    /\ c = "RX" => lookups["TX_APP"] = <<>>
    /\ HasRoom(camLookup)
    /\ query' = Head(lookups[c])
    /\ lookups' = [lookups EXCEPT ![c] = Tail(@)]
    /\ camLookup' = Append(camLookup, Head(lookups[c]).tuple)
    /\ fsm' = "LUP_RSP"
    /\ UNCHANGED <<camHit, ids, updates, reverse, replies, releaseReq,
                   releasePort, revReq, revRsp>>

MayCreate == ~Head(camHit).hit /\ query.allowCreation /\ freeList # <<>>

(* LUP_RSP, a permitted miss: the next free ID is inserted.                *)
CreateSession ==
    /\ fsm = "LUP_RSP" /\ camHit # <<>> /\ MayCreate
    /\ HasRoom(insertReq)
    /\ insertReq' = Append(insertReq, [op        |-> "INSERT",
                                       tuple     |-> query.tuple,
                                       sessionID |-> Head(freeList)])
    /\ freeList' = Tail(freeList)
    /\ camHit' = Tail(camHit)
    /\ fsm' = "UPD_RSP"
    /\ UNCHANGED <<counter, finFifo, query, camLookup, deleteReq, used, camUpdate,
                   camDone, insertRsp, cam, reverse, outside>>

(* LUP_RSP, otherwise: the CAM's reply is forwarded.                       *)
ForwardReply ==
    /\ fsm = "LUP_RSP" /\ camHit # <<>> /\ ~MayCreate
    /\ HasRoom(replies[query.source])
    /\ replies' = [replies EXCEPT ![query.source] = Append(@, Head(camHit))]
    /\ camHit' = Tail(camHit)
    /\ query' = None
    /\ fsm' = "LUP_REQ"
    /\ UNCHANGED <<camLookup, ids, updates, reverse, lookups, releaseReq,
                   releasePort, revReq, revRsp>>

(* UPD_RSP: the CAM has the new session; its ID goes to the source and to  *)
(* the reverse table.                                                      *)
SessionCreated ==
    LET done == Head(insertRsp) IN
    /\ fsm = "UPD_RSP" /\ insertRsp # <<>>
    /\ HasRoom(replies[query.source]) /\ HasRoom(revInsert)
    /\ replies' = [replies EXCEPT ![query.source] =
                      Append(@, [sessionID |-> done.sessionID, hit |-> TRUE])]
    /\ revInsert' = Append(revInsert, [done EXCEPT !.tuple = query.tuple])
    /\ insertRsp' = Tail(insertRsp)
    /\ query' = None
    /\ fsm' = "LUP_REQ"
    /\ UNCHANGED <<camLookup, camHit, ids, insertReq, deleteReq, used, camUpdate,
                   camDone, cam, reverseTable, tupleValid, lookups, releaseReq,
                   releasePort, revReq, revRsp>>

LookupReplyHandler ==
    \/ \E c \in Sources : LookupRequest(c)
    \/ CreateSession \/ ForwardReply \/ SessionCreated
-----------------------------------------------------------------------------
(* updateRequestSender: inserts go first.  A deleted ID is given back as   *)
(* soon as the delete is sent.                                             *)
SendInsert ==
    /\ insertReq # <<>> /\ HasRoom(camUpdate)
    /\ camUpdate' = Append(camUpdate, Head(insertReq))
    /\ insertReq' = Tail(insertReq)
    /\ used' = used + 1
    /\ UNCHANGED <<deleteReq, camDone, insertRsp, cam, ids, handler, reverse, outside>>

DeleteStep(request, recycled, count) ==
    /\ insertReq = <<>> /\ deleteReq # <<>>
    /\ HasRoom(camUpdate) /\ HasRoom(finFifo)
    /\ camUpdate' = camUpdate \o request
    /\ finFifo' = finFifo \o recycled
    /\ used' = used - count
    /\ deleteReq' = Tail(deleteReq)
    /\ UNCHANGED <<counter, freeList, insertReq, camDone, insertRsp, cam,
                   handler, reverse, outside>>

(* Variants: the ID of a deleted session stays counted; it is not given    *)
(* back; the CAM is not told.                                              *)
SendDeleteUncounted == DeleteStep(<<Head(deleteReq)>>, <<Head(deleteReq).sessionID>>, 0)
SendDeleteKeepsID   == DeleteStep(<<Head(deleteReq)>>, <<>>, 1)
SendDeleteSkipsCam  == DeleteStep(<<>>, <<Head(deleteReq).sessionID>>, 1)

SendDelete == DeleteStep(<<Head(deleteReq)>>, <<Head(deleteReq).sessionID>>, 1)

UpdateRequestSender == SendInsert \/ SendDelete

(* Variant: only the replies to inserts are taken from the CAM.            *)
UpdateReplyInsertsOnly ==
    /\ camDone # <<>> /\ Head(camDone).op = "INSERT"
    /\ HasRoom(insertRsp) /\ insertRsp' = Append(insertRsp, Head(camDone))
    /\ camDone' = Tail(camDone)
    /\ UNCHANGED <<insertReq, deleteReq, used, camUpdate, cam, ids, handler,
                   reverse, outside>>

UpdateReplyHandler ==
    LET done == Head(camDone) IN
    /\ camDone # <<>>
    /\ camDone' = Tail(camDone)
    /\ IF done.op = "INSERT"
         THEN HasRoom(insertRsp) /\ insertRsp' = Append(insertRsp, done)
         ELSE UNCHANGED insertRsp
    /\ UNCHANGED <<insertReq, deleteReq, used, camUpdate, cam, ids, handler,
                   reverse, outside>>
-----------------------------------------------------------------------------
(* reverseLookupTableInterface: inserts, then releases, then queries.      *)
ReverseInsert ==
    LET new == Head(revInsert) IN
    /\ revInsert # <<>>
    /\ reverseTable' = [reverseTable EXCEPT ![new.sessionID] = new.tuple]
    /\ tupleValid' = [tupleValid EXCEPT ![new.sessionID] = TRUE]
    /\ revInsert' = Tail(revInsert)
    /\ UNCHANGED <<ids, handler, updates, outside>>

InsertsDone == revInsert = <<>>

ReleaseStep(frees, validAfter) ==
    LET s == Head(releaseReq) IN
    /\ InsertsDone /\ releaseReq # <<>>
    /\ releaseReq' = Tail(releaseReq)
    /\ tupleValid' = [tupleValid EXCEPT ![s] = validAfter]
    /\ IF frees
         THEN /\ HasRoom(releasePort) /\ HasRoom(deleteReq)
              /\ releasePort' = Append(releasePort, reverseTable[s])
              /\ deleteReq' = Append(deleteReq, [op        |-> "DELETE",
                                                 tuple     |-> reverseTable[s],
                                                 sessionID |-> s])
         ELSE UNCHANGED <<releasePort, deleteReq>>
    /\ UNCHANGED <<reverseTable, revInsert, insertReq, used, camUpdate, camDone,
                   insertRsp, cam, ids, handler, lookups, replies, revReq, revRsp>>

(* Variants: every release frees the ID of a session that was ever in use; *)
(* the tuple stays valid.                                                  *)
ReleaseUnchecked == ReleaseStep(reverseTable[Head(releaseReq)] # None, FALSE)
ReleaseKeepsValid == ReleaseStep(tupleValid[Head(releaseReq)], TRUE)

(* Only the first release of a session frees its ID and its port.          *)
ReleaseSession == ReleaseStep(tupleValid[Head(releaseReq)], FALSE)

ReverseQuery ==
    /\ revInsert = <<>> /\ releaseReq = <<>> /\ revReq # <<>>
    /\ HasRoom(revRsp)
    /\ revReq' = Tail(revReq)
    /\ revRsp' = Append(revRsp, reverseTable[Head(revReq)])
    /\ UNCHANGED <<ids, handler, updates, reverse, lookups, replies, releaseReq, releasePort>>

ReverseTableInterface == ReverseInsert \/ ReleaseSession \/ ReverseQuery
-----------------------------------------------------------------------------
(* The CAM: lookups and updates travel on channels of their own and are    *)
(* each handled in order.                                                  *)
CamLooksUp ==
    LET found == cam[Head(camLookup)] IN
    /\ camLookup # <<>> /\ HasRoom(camHit)
    /\ camHit' = Append(camHit, [sessionID |-> found, hit |-> found # None])
    /\ camLookup' = Tail(camLookup)
    /\ UNCHANGED <<fsm, query, ids, updates, reverse, outside>>

CamUpdates ==
    LET u == Head(camUpdate) IN
    /\ camUpdate # <<>> /\ HasRoom(camDone)
    /\ cam' = [cam EXCEPT ![u.tuple] = IF u.op = "INSERT" THEN u.sessionID ELSE None]
    /\ camDone' = Append(camDone, u)
    /\ camUpdate' = Tail(camUpdate)
    /\ UNCHANGED <<insertReq, deleteReq, used, insertRsp, ids, handler, reverse, outside>>
-----------------------------------------------------------------------------
(* The clients.                                                            *)

(* rxEngMetadataHandler looks a segment's tuple up, permits creation for a *)
(* SYN and waits for the reply before it looks at the next segment;        *)
(* tx_app_if looks up what it opens.                                       *)
Waits(c) == \/ lookups[c] # <<>> \/ replies[c] # <<>>
            \/ query # None /\ query.source = c

Lookup(c, t, allowCreation) ==
    /\ HasRoom(lookups[c])
    /\ c = "RX" => ~Waits(c)
    /\ lookups' = [lookups EXCEPT ![c] =
          Append(@, [tuple |-> t, allowCreation |-> allowCreation, source |-> c])]
    /\ UNCHANGED <<ids, handler, updates, reverse, replies, releaseReq, releasePort,
                   revReq, revRsp>>

TakeReply(c) ==
    /\ replies[c] # <<>>
    /\ replies' = [replies EXCEPT ![c] = Tail(@)]
    /\ UNCHANGED <<ids, handler, updates, reverse, lookups, releaseReq, releasePort,
                   revReq, revRsp>>

(* The state table releases whatever session it is told to, and may do so  *)
(* more than once.                                                         *)
Release(s) ==
    /\ HasRoom(releaseReq)
    /\ releaseReq' = Append(releaseReq, s)
    /\ UNCHANGED <<ids, handler, updates, reverse, lookups, replies, releasePort,
                   revReq, revRsp>>

TakeReleasedPort ==
    /\ releasePort # <<>>
    /\ releasePort' = Tail(releasePort)
    /\ UNCHANGED <<ids, handler, updates, reverse, lookups, replies, releaseReq,
                   revReq, revRsp>>

AskTuple(s) ==
    /\ revReq = <<>> /\ revRsp = <<>>
    /\ revReq' = Append(revReq, s)
    /\ UNCHANGED <<ids, handler, updates, reverse, lookups, replies, releaseReq,
                   releasePort, revRsp>>

TakeTuple ==
    /\ revRsp # <<>>
    /\ revRsp' = Tail(revRsp)
    /\ UNCHANGED <<ids, handler, updates, reverse, lookups, replies, releaseReq,
                   releasePort, revReq>>

Arrival ==
    \/ \E t \in Tuples : \/ Lookup("TX_APP", t, TRUE)
                         \/ \E syn \in BOOLEAN : Lookup("RX", t, syn)
    \/ \E s \in Sessions : Release(s)
    \/ \E s \in Queried : AskTuple(s)

Taking == TakeReleasedPort \/ TakeTuple \/ \E c \in Sources : TakeReply(c)

Next ==
    \/ SessionIdManager \/ LookupReplyHandler
    \/ UpdateRequestSender \/ UpdateReplyHandler \/ ReverseTableInterface
    \/ CamLooksUp \/ CamUpdates
    \/ Arrival \/ Taking

Spec == Init /\ [][Next]_vars

(* Every process runs in every clock cycle, the CAM answers and the        *)
(* clients take what they are sent.                                        *)
Fairness ==
    /\ WF_vars(SessionIdManager) /\ WF_vars(LookupReplyHandler)
    /\ WF_vars(UpdateRequestSender) /\ WF_vars(UpdateReplyHandler)
    /\ WF_vars(ReverseTableInterface)
    /\ WF_vars(CamLooksUp) /\ WF_vars(CamUpdates)
    /\ WF_vars(TakeReleasedPort) /\ WF_vars(TakeTuple)
    /\ \A c \in Sources : WF_vars(TakeReply(c))

FairSpec == Spec /\ Fairness
-----------------------------------------------------------------------------
(* Properties.                                                             *)

(* The updates on their way to the CAM and back to the reverse table.      *)
Inserting == {r \in ToSet(insertReq) \cup ToSet(camUpdate) \cup ToSet(camDone)
                        \cup ToSet(insertRsp) \cup ToSet(revInsert) : r.op = "INSERT"}
Deleting  == {r \in ToSet(deleteReq) \cup ToSet(camUpdate) : r.op = "DELETE"}

CountOf(s, fifo) == Cardinality({i \in DOMAIN fifo : fifo[i] = s})
RequestsOf(s, op, fifo) ==
    Cardinality({i \in DOMAIN fifo : fifo[i].op = op /\ fifo[i].sessionID = s})
OneIf(condition) == IF condition THEN 1 ELSE 0

(* Every session ID is in exactly one place - not handed out yet, free, on *)
(* its way to or from the reverse table, or in use there - however often   *)
(* the state table releases it: no ID is lost, none is given to two        *)
(* connections.                                                            *)
IdsConserved ==
    \A s \in Sessions :
        1 =   OneIf(s >= counter) + CountOf(s, freeList) + CountOf(s, finFifo)
            + RequestsOf(s, "INSERT", insertReq) + RequestsOf(s, "INSERT", camUpdate)
            + RequestsOf(s, "INSERT", camDone) + RequestsOf(s, "INSERT", insertRsp)
            + RequestsOf(s, "INSERT", revInsert) + OneIf(tupleValid[s])
            + RequestsOf(s, "DELETE", deleteReq)

(* regSessionCount, which software reads, counts the IDs that are handed   *)
(* out, and never wraps below zero.                                        *)
CountIsExact ==
    /\ used >= 0
    /\ used + Len(insertReq) + Len(freeList) + Len(finFifo) = counter

(* The CAM and the reverse table agree: a session in use is found under    *)
(* its tuple, and what the CAM finds is in use, or its insertion or        *)
(* deletion is still on the way.                                           *)
TablesAgree ==
    /\ \A s \in Sessions : tupleValid[s] => cam[reverseTable[s]] = s
    /\ \A t \in Tuples : cam[t] # None =>
          \/ tupleValid[cam[t]] /\ reverseTable[cam[t]] = t
          \/ \E r \in Inserting \cup Deleting : r.tuple = t /\ r.sessionID = cam[t]

(* A hit the CAM reports may be for a session that has been released       *)
(* meanwhile, but when lookupReplyHandler forwards it the ID has not been  *)
(* given to another connection.                                            *)
HitIsNotReused ==
    \A i \in DOMAIN camHit : camHit[i].hit =>
        /\ \A r \in Inserting : r.sessionID = camHit[i].sessionID => r.tuple = query.tuple
        /\ tupleValid[camHit[i].sessionID]
              => reverseTable[camHit[i].sessionID] = query.tuple

(* The reverse table, through which sessions are released and segments     *)
(* addressed, is a directory: an ID is only given to a connection when it  *)
(* belongs to none and the connection has none.                            *)
ReverseView == INSTANCE SessionDirectory
    WITH owner <- [s \in Sessions |-> IF tupleValid[s] THEN reverseTable[s] ELSE None]
ReverseDirectory == ReverseView!Spec

(* A lookup in progress is always answered: the inserts it waits for and   *)
(* the deletes they share the CAM with never block each other.             *)
LookupIsAnswered == fsm # "LUP_REQ" ~> fsm = "LUP_REQ"

(* The ID of a session that was in use when it was released becomes free   *)
(* again.                                                                  *)
ReleasedIsRecycled ==
    \A s \in Sessions :
        (\E i \in DOMAIN deleteReq : deleteReq[i].sessionID = s)
            ~> (\E i \in DOMAIN freeList : freeList[i] = s)
=============================================================================
