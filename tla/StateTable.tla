----------------------------- MODULE StateTable -----------------------------
(***************************************************************************)
(* The state table of the TCP offload engine (state_table.cpp) and the     *)
(* processes that use it, each a hardware process running concurrently     *)
(* and talking to the table through bounded FIFOs:                         *)
(*   "rx"   rxEngTcpFSM, which reads the state of a session, decides and   *)
(*          writes it back (a read locks the entry, the write unlocks it), *)
(*   "tx"   tx_app_if, which does the same for a close request and writes  *)
(*          SYN_SENT without reading for an open request,                  *)
(*   tasi_metaLoader, which reads without locking,                         *)
(*   the retransmit and close timers, which close a session.               *)
(* The table is one process: each of its steps takes the first branch of   *)
(* its if-chain whose condition holds.  A branch whose output FIFO is full *)
(* stalls the process.                                                     *)
(* A register guarded by a flag (stt_rxSessionID by stt_rxSessionLocked)   *)
(* is one variable here, None when the flag is false: the code never reads *)
(* the register then.                                                      *)
(***************************************************************************)
EXTENDS TcpState, Naturals, Sequences

CONSTANTS Sessions,    \* the session IDs, 0 .. MAX_SESSIONS - 1 in the code
          FifoDepth,   \* depth of the FIFOs around the table, 2 in toe.cpp
          None         \* the value of a register whose flag is false

Clients == {"rx", "tx"}
Other(c) == IF c = "rx" THEN "tx" ELSE "rx"

(* stateQuery: a read carries no state of interest.                        *)
Query == [id : Sessions, state : SessionState, write : BOOLEAN]
Read(s)     == [id |-> s, state |-> "CLOSED", write |-> FALSE]
Write(s, v) == [id |-> s, state |-> v, write |-> TRUE]

ASSUME FifoDepthAssumption == FifoDepth \in Nat \ {0}
ASSUME NoneAssumption      == None \notin Sessions /\ None \notin Query

VARIABLES
    stateTable,  \* state_table
    holds,       \* stt_rxSessionLocked/ID and stt_txSessionLocked/ID
    delayed,     \* stt_rxWait/Access and stt_txWait/Access
    closing,     \* stt_closeWait and stt_closeSessionID
    req,         \* rxEng2stateTable_upd_req, txApp2stateTable_upd_req
    rsp,         \* stateTable2rxEng_upd_rsp, stateTable2TxApp_upd_rsp
    streamReq,   \* txApp2stateTable_req
    streamRsp,   \* stateTable2txApp_rsp
    timerReq,    \* timer2stateTable_releaseState
    release,     \* stateTable2sLookup_releaseSession
    asked        \* the session a client waits for (TRANSITION, CLOSE_CONN):
                 \* fsm_meta.sessionID, tai_closeSessionID

table == <<stateTable, holds, delayed, closing>>
fifos == <<req, rsp, streamReq, streamRsp, timerReq, release>>
vars  == <<table, fifos, asked>>

TypeOK ==
    /\ stateTable \in [Sessions -> SessionState]
    /\ holds \in [Clients -> Sessions \union {None}]
    /\ delayed \in [Clients -> Query \union {None}]
    /\ closing \in Sessions \union {None}
    /\ req \in [Clients -> Seq(Query)]
    /\ rsp \in [Clients -> Seq(SessionState)]
    /\ streamReq \in Seq(Sessions)
    /\ streamRsp \in Seq(SessionState)
    /\ timerReq \in Seq(Sessions)
    /\ release \in Seq(Sessions)
    /\ asked \in [Clients -> Sessions \union {None}]

Init ==
    /\ stateTable = [s \in Sessions |-> "CLOSED"]
    /\ holds = [c \in Clients |-> None]
    /\ delayed = [c \in Clients |-> None]
    /\ closing = None
    /\ req = [c \in Clients |-> <<>>]
    /\ rsp = [c \in Clients |-> <<>>]
    /\ streamReq = <<>>
    /\ streamRsp = <<>>
    /\ timerReq = <<>>
    /\ release = <<>>
    /\ asked = [c \in Clients |-> None]

HasRoom(fifo) == Len(fifo) < FifoDepth
-----------------------------------------------------------------------------
(* The table process.                                                      *)

(* A write changes the entry and unlocks it; only the RX engine's CLOSED   *)
(* gives the session ID back.                                              *)
PerformWrite(c, q) ==
    /\ stateTable' = [stateTable EXCEPT ![q.id] = q.state]
    /\ holds' = [holds EXCEPT ![c] = None]
    /\ IF c = "rx" /\ q.state = "CLOSED"
         THEN HasRoom(release) /\ release' = Append(release, q.id)
         ELSE UNCHANGED release
    /\ UNCHANGED rsp

(* A read replies with the entry and locks it.                             *)
PerformRead(c, q) ==
    /\ HasRoom(rsp[c])
    /\ rsp' = [rsp EXCEPT ![c] = Append(@, stateTable[q.id])]
    /\ holds' = [holds EXCEPT ![c] = q.id]
    /\ UNCHANGED <<stateTable, release>>

Perform(c, q) == IF q.write THEN PerformWrite(c, q) ELSE PerformRead(c, q)

Accepts(c) == req[c] # <<>> /\ delayed[c] = None

(* Variant: the other client's lock is not looked at.                      *)
RequestUnchecked(c) ==
    /\ Accepts(c)
    /\ req' = [req EXCEPT ![c] = Tail(@)]
    /\ Perform(c, Head(req[c]))
    /\ UNCHANGED <<delayed, closing, streamReq, streamRsp, timerReq, asked>>

(* A new request of c: performed, or delayed if the other client holds the *)
(* session.                                                                *)
Request(c) ==
    LET q == Head(req[c]) IN
    /\ Accepts(c)
    /\ req' = [req EXCEPT ![c] = Tail(@)]
    /\ IF holds[Other(c)] = q.id
         THEN /\ delayed' = [delayed EXCEPT ![c] = q]
              /\ UNCHANGED <<stateTable, holds, rsp, release>>
         ELSE Perform(c, q) /\ UNCHANGED delayed
    /\ UNCHANGED <<closing, streamReq, streamRsp, timerReq, asked>>

(* The delayed request of c, once the other client has unlocked.           *)
Delayed(c) ==
    /\ delayed[c] # None
    /\ holds[Other(c)] # delayed[c].id
    /\ Perform(c, delayed[c])
    /\ delayed' = [delayed EXCEPT ![c] = None]
    /\ UNCHANGED <<closing, req, streamReq, streamRsp, timerReq, asked>>

(* The application stream's read: no lock taken, no lock respected.        *)
StreamRead ==
    /\ streamReq # <<>>
    /\ HasRoom(streamRsp)
    /\ streamReq' = Tail(streamReq)
    /\ streamRsp' = Append(streamRsp, stateTable[Head(streamReq)])
    /\ UNCHANGED <<table, req, rsp, timerReq, release, asked>>

(* Variant: only the RX engine's lock stops a timer.                       *)
HeldByRx(s) == holds["rx"] = s

Held(s) == \E c \in Clients : holds[c] = s

CloseSession(s) ==
    /\ HasRoom(release)
    /\ stateTable' = [stateTable EXCEPT ![s] = "CLOSED"]
    /\ release' = Append(release, s)

(* Variant: a timer closes a session whoever holds it.                     *)
TimerRequestUnchecked ==
    /\ timerReq # <<>> /\ closing = None
    /\ timerReq' = Tail(timerReq)
    /\ CloseSession(Head(timerReq))
    /\ UNCHANGED <<holds, delayed, closing, req, rsp, streamReq, streamRsp, asked>>

(* A timer closes a session, at once or - if a client holds it - later.    *)
TimerRequest ==
    LET s == Head(timerReq) IN
    /\ timerReq # <<>> /\ closing = None
    /\ timerReq' = Tail(timerReq)
    /\ IF Held(s) THEN closing' = s /\ UNCHANGED <<stateTable, release>>
                  ELSE CloseSession(s) /\ UNCHANGED closing
    /\ UNCHANGED <<holds, delayed, req, rsp, streamReq, streamRsp, asked>>

(* Variants: the delayed close forgets to give the ID back; it forgets     *)
(* that it is done.                                                        *)
DelayedCloseKeepsID ==
    /\ closing # None
    /\ ~Held(closing)
    /\ stateTable' = [stateTable EXCEPT ![closing] = "CLOSED"]
    /\ closing' = None
    /\ UNCHANGED <<holds, delayed, fifos, asked>>

DelayedCloseForever ==
    /\ closing # None
    /\ ~Held(closing)
    /\ CloseSession(closing)
    /\ UNCHANGED <<holds, delayed, closing, req, rsp, streamReq, streamRsp, timerReq, asked>>

DelayedClose ==
    /\ closing # None
    /\ ~Held(closing)
    /\ CloseSession(closing)
    /\ closing' = None
    /\ UNCHANGED <<holds, delayed, req, rsp, streamReq, streamRsp, timerReq, asked>>

(* The if-chain: a branch runs when the conditions before it are false.    *)
(* The delayed requests come after every new one.                          *)
NoNewRequest ==
    /\ \A c \in Clients : ~Accepts(c)
    /\ streamReq = <<>>
    /\ timerReq = <<>> \/ closing # None

StateTableProcess ==
    \/ Request("tx")
    \/ ~Accepts("tx") /\ StreamRead
    \/ ~Accepts("tx") /\ streamReq = <<>> /\ Request("rx")
    \/ (\A c \in Clients : ~Accepts(c)) /\ streamReq = <<>> /\ TimerRequest
    \/ NoNewRequest /\ Delayed("tx")
    \/ NoNewRequest /\ delayed["tx"] = None /\ Delayed("rx")
    \/ NoNewRequest /\ (\A c \in Clients : delayed[c] = None) /\ DelayedClose
-----------------------------------------------------------------------------
(* The clients.                                                            *)

Send(c, q) == HasRoom(req[c]) /\ req' = [req EXCEPT ![c] = Append(@, q)]

(* A client asks for the state of s: LOAD of the RX engine for a segment,  *)
(* IDLE of tx_app_if for a close request.                                  *)
Ask(c, s) ==
    /\ asked[c] = None
    /\ Send(c, Read(s))
    /\ asked' = [asked EXCEPT ![c] = s]
    /\ UNCHANGED <<table, rsp, streamReq, streamRsp, timerReq, release>>

(* ... and answers the reply with v, its decision.                         *)
Answer(c, v) ==
    /\ asked[c] # None /\ rsp[c] # <<>>
    /\ rsp' = [rsp EXCEPT ![c] = Tail(@)]
    /\ Send(c, Write(asked[c], v))
    /\ asked' = [asked EXCEPT ![c] = None]
    /\ UNCHANGED <<table, streamReq, streamRsp, timerReq, release>>

(* Variant: the FSM writes only a state that changed.                      *)
RxTransitionSparing ==
    /\ rsp["rx"] # <<>>
    /\ \E v \in RxSuccessors[Head(rsp["rx"])] :
          IF v # Head(rsp["rx"])
            THEN Answer("rx", v)
            ELSE /\ rsp' = [rsp EXCEPT !["rx"] = Tail(@)]
                 /\ asked' = [asked EXCEPT !["rx"] = None]
                 /\ UNCHANGED <<table, req, streamReq, streamRsp, timerReq, release>>

(* TRANSITION of the RX engine: the FSM decides.                           *)
RxTransition ==
    /\ rsp["rx"] # <<>>
    /\ \E v \in RxSuccessors[Head(rsp["rx"])] : Answer("rx", v)

(* CLOSE_CONN of tx_app_if.                                                *)
TxCloseConn ==
    /\ rsp["tx"] # <<>>
    /\ Answer("tx", CloseState(Head(rsp["tx"])))

(* IDLE of tx_app_if, the lookup of an open request hit: a blind write.    *)
TxOpen(s) ==
    /\ asked["tx"] = None
    /\ Send("tx", Write(s, "SYN_SENT"))
    /\ UNCHANGED <<table, rsp, streamReq, streamRsp, timerReq, release, asked>>

(* tasi_metaLoader reads the state of the session it wants to send on and  *)
(* waits for the reply before it looks at the next send request.           *)
StreamAsk(s) ==
    /\ streamReq = <<>> /\ streamRsp = <<>>
    /\ streamReq' = Append(streamReq, s)
    /\ UNCHANGED <<table, req, rsp, streamRsp, timerReq, release, asked>>

StreamReply ==
    /\ streamRsp # <<>>
    /\ streamRsp' = Tail(streamRsp)
    /\ UNCHANGED <<table, req, rsp, streamReq, timerReq, release, asked>>

(* A timer expires for s.                                                  *)
TimerExpires(s) ==
    /\ HasRoom(timerReq)
    /\ timerReq' = Append(timerReq, s)
    /\ UNCHANGED <<table, req, rsp, streamReq, streamRsp, release, asked>>

(* The session lookup controller takes a released ID.                      *)
TakeRelease ==
    /\ release # <<>>
    /\ release' = Tail(release)
    /\ UNCHANGED <<table, req, rsp, streamReq, streamRsp, timerReq, asked>>

(* What comes from outside: segments, application calls, expiries.         *)
Arrival ==
    \E s \in Sessions : \/ \E c \in Clients : Ask(c, s)
                        \/ TxOpen(s)
                        \/ StreamAsk(s)
                        \/ TimerExpires(s)

ClientStep == RxTransition \/ TxCloseConn \/ StreamReply \/ TakeRelease

Next == Arrival \/ ClientStep \/ StateTableProcess

Spec == Init /\ [][Next]_vars

(* Every hardware process runs in every clock cycle.                       *)
Fairness ==
    /\ WF_vars(StateTableProcess)
    /\ WF_vars(RxTransition)
    /\ WF_vars(TxCloseConn)
    /\ WF_vars(StreamReply)
    /\ WF_vars(TakeRelease)

FairSpec == Spec /\ Fairness
-----------------------------------------------------------------------------
(* The inductive invariant behind the properties below.                    *)

Decisions(c, v) == IF c = "rx" THEN RxSuccessors[v] ELSE {CloseState(v)}

IsOpenWrite(c, q) == c = "tx" /\ q.write /\ q.state = "SYN_SENT"

IsAskedRead(c, q) == ~q.write /\ q.id = asked[c] /\ rsp[c] = <<>>

(* While c holds a session: either its reply is on the way, or its         *)
(* decision about the present state of that session is its next request.   *)
HolderIsDeciding(c) ==
    holds[c] # None =>
        /\ delayed[c] = None
        /\ \/ /\ asked[c] = holds[c]
              /\ rsp[c] = <<stateTable[holds[c]]>>
              /\ req[c] = <<>>
           \/ /\ rsp[c] = <<>>
              /\ req[c] # <<>>
              /\ req[c][1].write
              /\ req[c][1].id = holds[c]
              /\ req[c][1].state \in Decisions(c, stateTable[holds[c]])

(* Everything else c has pending is a write of SYN_SENT or, in last place, *)
(* the read it waits for.                                                  *)
PendingIsExplained(c) ==
    /\ holds[c] = None => rsp[c] = <<>>
    /\ \A i \in 1 .. Len(req[c]) :
          \/ i = 1 /\ holds[c] # None
          \/ IsOpenWrite(c, req[c][i])
          \/ i = Len(req[c]) /\ IsAskedRead(c, req[c][i])
    /\ delayed[c] # None =>
          \/ IsOpenWrite(c, delayed[c])
          \/ req[c] = <<>> /\ IsAskedRead(c, delayed[c])

PipelineInv ==
    \A c \in Clients : HolderIsDeciding(c) /\ PendingIsExplained(c)
-----------------------------------------------------------------------------
(* Properties.                                                             *)

(* The two read-modify-write clients never hold the same session: the      *)
(* check of the other client's lock before every access (stt_rxSession-    *)
(* Locked, stt_txSessionLocked) excludes them from each other.             *)
LockExclusion ==
    \A s \in Sessions : ~(holds["rx"] = s /\ holds["tx"] = s)

(* A held lock is always about to be released: its holder has the reply    *)
(* still to answer, or its write is the next request the table will take   *)
(* from it.  No path of the clients forgets the write that unlocks, and    *)
(* that write is never itself delayed.                                     *)
ReplyInFlight(c) == rsp[c] # <<>> /\ asked[c] = holds[c]

UnlockNext(c) ==
    /\ delayed[c] = None
    /\ req[c] # <<>>
    /\ Head(req[c]).write
    /\ Head(req[c]).id = holds[c]

LockIsOwed ==
    \A c \in Clients : holds[c] # None => ReplyInFlight(c) \/ UnlockNext(c)

(* Nobody changes a session between a client's read and its write: the     *)
(* reply a client is about to decide on is still the state of the session. *)
ReplyIsCurrent ==
    \A c \in Clients :
        rsp[c] # <<>> => asked[c] # None /\ Head(rsp[c]) = stateTable[asked[c]]

(* A session that becomes CLOSED gives its ID back in the same step,       *)
(* whoever closed it; tx_app_if, whose writes release nothing, never       *)
(* closes one even when it writes back a state it read earlier.            *)
ClosedIsReleased ==
    [][\A s \in Sessions :
          stateTable[s] # "CLOSED" /\ stateTable'[s] = "CLOSED"
             => release' = Append(release, s)]_vars

(* Reading, deciding and writing back is one step of the session's state   *)
(* machine, for every client and every interleaving.                       *)
Atomic == INSTANCE SessionState WITH state <- stateTable
AtomicSpec == Atomic!Spec

(* If segments, calls and expiries pause, everything pending is served:    *)
(* no lock is left held, no delayed request left waiting.                  *)
Quiescent ==
    /\ \A c \in Clients : /\ holds[c] = None /\ delayed[c] = None
                          /\ asked[c] = None
                          /\ req[c] = <<>> /\ rsp[c] = <<>>
    /\ closing = None /\ timerReq = <<>> /\ release = <<>>
    /\ streamReq = <<>> /\ streamRsp = <<>>

DrainsWhenIdle == <>[][~Arrival]_vars => <>[]Quiescent
=============================================================================
