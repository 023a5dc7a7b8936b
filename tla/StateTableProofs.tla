-------------------------- MODULE StateTableProofs --------------------------
(***************************************************************************)
(* Theorems about the two tables that several processes share.  About      *)
(* StateTable: its type invariant, the exclusion between the two clients   *)
(* that lock, and the atomicity of read-modify-write (StateTable           *)
(* implements SessionState), for any set of sessions and any FIFO depth.   *)
(* About ArpServer (Arp), for any subnet and any depths of its FIFOs (of   *)
(* at least three between genARPDiscovery and arp_table): each question    *)
(* has one answer, and the two processes never wait for each other.        *)
(***************************************************************************)
EXTENDS StateTable, OneAnswerEach, CommonLemmas

USE FifoDepthAssumption, NoneAssumption

(* The decisions of the FSM and of tx_app_if stay among the states.        *)
LEMMA DecisionsAreStates ==
    ASSUME NEW v \in SessionState
    PROVE  RxSuccessors[v] \subseteq SessionState /\ CloseState(v) \in SessionState
  <1>1. ASSUME NEW k \in PacketKind, NEW a \in BOOLEAN, NEW b \in BOOLEAN
        PROVE  RxState(k, v, a, b) \in SessionState
    <2>1. OnAck(v, a) \in SessionState
      BY DEF OnAck, AckMove, Follow, SessionState
    <2>2. OnSyn(v, b) \in SessionState
      BY DEF OnSyn, SynMove, Follow, SessionState
    <2>3. OnSynAck(v, a) \in SessionState
      BY DEF OnSynAck, Follow, SessionState
    <2>4. OnFin(v, a, b) \in SessionState
      BY DEF OnFin, FinMove, Follow, SessionState
    <2>5. OnRst(v, a, b) \in SessionState
      BY DEF OnRst, SessionState
    <2> QED BY <2>1, <2>2, <2>3, <2>4, <2>5 DEF RxState, PacketKind
  <1>2. CloseState(v) \in SessionState
    BY DEF CloseState, SessionState
  <1> QED BY <1>1, <1>2 DEF RxSuccessors
-----------------------------------------------------------------------------
LEMMA SuccessorsAreStates ==
    ASSUME NEW f \in Seq(SessionState), f # <<>>
    PROVE  /\ RxSuccessors[Head(f)] \subseteq SessionState
           /\ CloseState(Head(f)) \in SessionState
  <1>1. Head(f) \in SessionState BY TailFacts
  <1> QED BY <1>1, DecisionsAreStates

LEMMA QueriesAreTyped ==
    ASSUME NEW s \in Sessions, NEW v \in SessionState
    PROVE  Read(s) \in Query /\ Write(s, v) \in Query
  BY DEF Read, Write, Query, SessionState

(* A request performed by the table keeps the types.                       *)
LEMMA PerformTypes ==
    ASSUME TypeOK, NEW c \in Clients, NEW q \in Query, Perform(c, q)
    PROVE  /\ stateTable' \in [Sessions -> SessionState]
           /\ holds' \in [Clients -> Sessions \union {None}]
           /\ rsp' \in [Clients -> Seq(SessionState)]
           /\ release' \in Seq(Sessions)
  <1>1. q.id \in Sessions /\ q.state \in SessionState
    BY DEF Query
  <1>2. CASE q.write
    <2>1. Append(release, q.id) \in Seq(Sessions)
      BY <1>1, AppendFacts DEF TypeOK
    <2> QED BY <1>1, <1>2, <2>1 DEF TypeOK, Perform, PerformWrite
  <1>3. CASE ~q.write
    <2>1. Append(rsp[c], stateTable[q.id]) \in Seq(SessionState)
      BY <1>1, AppendFacts DEF TypeOK
    <2> QED BY <1>1, <1>3, <2>1 DEF TypeOK, Perform, PerformRead
  <1> QED BY <1>2, <1>3

LEMMA AnswerTypes ==
    ASSUME TypeOK, NEW c \in Clients, NEW v \in SessionState, Answer(c, v)
    PROVE  TypeOK'
  <1>1. asked[c] \in Sessions
    BY DEF TypeOK, Answer
  <1>2. Write(asked[c], v) \in Query
    BY <1>1, QueriesAreTyped
  <1>3. Append(req[c], Write(asked[c], v)) \in Seq(Query)
    BY <1>2, AppendFacts DEF TypeOK
  <1>4. Tail(rsp[c]) \in Seq(SessionState)
    BY TailFacts DEF TypeOK, Answer
  <1> QED BY <1>3, <1>4 DEF TypeOK, Answer, Send, table

(* Type correctness of the table, its FIFOs and its clients.               *)
THEOREM TypeCorrect == Spec => []TypeOK
  <1>1. Init => TypeOK
    BY EmptySeq DEF Init, TypeOK, SessionState
  <1>2. TypeOK /\ [Next]_vars => TypeOK'
    <2> SUFFICES ASSUME TypeOK, [Next]_vars PROVE TypeOK'
      OBVIOUS
    <2>1. ASSUME NEW c \in Clients, NEW s \in Sessions, Ask(c, s) PROVE TypeOK'
      <3>1. Append(req[c], Read(s)) \in Seq(Query)
        BY QueriesAreTyped, AppendFacts DEF TypeOK, SessionState
      <3> QED BY <2>1, <3>1 DEF TypeOK, Ask, Send, table
    <2>2. ASSUME NEW s \in Sessions, TxOpen(s) PROVE TypeOK'
      <3>1. Append(req["tx"], Write(s, "SYN_SENT")) \in Seq(Query)
        BY QueriesAreTyped, AppendFacts DEF TypeOK, SessionState, Clients
      <3> QED BY <2>2, <3>1 DEF TypeOK, TxOpen, Send, table, Clients
    <2>3. ASSUME NEW s \in Sessions, StreamAsk(s) PROVE TypeOK'
      <3>1. Append(streamReq, s) \in Seq(Sessions)
        BY AppendFacts DEF TypeOK
      <3> QED BY <2>3, <3>1 DEF TypeOK, StreamAsk, table
    <2>4. ASSUME NEW s \in Sessions, TimerExpires(s) PROVE TypeOK'
      <3>1. Append(timerReq, s) \in Seq(Sessions)
        BY AppendFacts DEF TypeOK
      <3> QED BY <2>4, <3>1 DEF TypeOK, TimerExpires, table
    <2>5. ASSUME RxTransition PROVE TypeOK'
      <3>1. PICK v \in RxSuccessors[Head(rsp["rx"])] : Answer("rx", v)
        BY <2>5 DEF RxTransition
      <3>2. v \in SessionState
        BY <2>5, <3>1, SuccessorsAreStates DEF RxTransition, TypeOK, Clients
      <3> QED BY <3>1, <3>2, AnswerTypes DEF Clients
    <2>6. ASSUME TxCloseConn PROVE TypeOK'
      <3>1. CloseState(Head(rsp["tx"])) \in SessionState
        BY <2>6, SuccessorsAreStates DEF TxCloseConn, TypeOK, Clients
      <3> QED BY <2>6, <3>1, AnswerTypes DEF TxCloseConn, Clients
    <2>7. ASSUME StreamReply PROVE TypeOK'
      <3>1. Tail(streamRsp) \in Seq(SessionState)
        BY <2>7, TailFacts DEF TypeOK, StreamReply
      <3> QED BY <2>7, <3>1 DEF TypeOK, StreamReply, table
    <2>8. ASSUME TakeRelease PROVE TypeOK'
      <3>1. Tail(release) \in Seq(Sessions)
        BY <2>8, TailFacts DEF TypeOK, TakeRelease
      <3> QED BY <2>8, <3>1 DEF TypeOK, TakeRelease, table
    <2>9. ASSUME NEW c \in Clients, Request(c) PROVE TypeOK'
      <3>1. Head(req[c]) \in Query /\ Tail(req[c]) \in Seq(Query)
        BY <2>9, TailFacts DEF TypeOK, Request, Accepts
      <3>2. CASE holds[Other(c)] = Head(req[c]).id
        <4>1. /\ delayed' = [delayed EXCEPT ![c] = Head(req[c])]
              /\ req' = [req EXCEPT ![c] = Tail(@)]
              /\ UNCHANGED <<stateTable, holds, rsp, release>>
              /\ UNCHANGED <<closing, streamReq, streamRsp, timerReq, asked>>
          BY <2>9, <3>2 DEF Request
        <4> QED BY <3>1, <4>1 DEF TypeOK
      <3>3. CASE holds[Other(c)] # Head(req[c]).id
        <4>1. Perform(c, Head(req[c])) /\ UNCHANGED delayed
          BY <2>9, <3>3 DEF Request
        <4> QED BY <2>9, <3>1, <4>1, PerformTypes DEF TypeOK, Request
      <3> QED BY <3>2, <3>3
    <2>10. ASSUME NEW c \in Clients, Delayed(c) PROVE TypeOK'
      <3>1. delayed[c] \in Query
        BY <2>10 DEF TypeOK, Delayed
      <3> QED BY <2>10, <3>1, PerformTypes DEF TypeOK, Delayed
    <2>11. ASSUME StreamRead PROVE TypeOK'
      <3>1. Head(streamReq) \in Sessions /\ Tail(streamReq) \in Seq(Sessions)
        BY <2>11, TailFacts DEF TypeOK, StreamRead
      <3>2. Append(streamRsp, stateTable[Head(streamReq)]) \in Seq(SessionState)
        BY <3>1, AppendFacts DEF TypeOK
      <3> QED BY <2>11, <3>1, <3>2 DEF TypeOK, StreamRead, table
    <2>12. ASSUME TimerRequest PROVE TypeOK'
      <3>1. Head(timerReq) \in Sessions /\ Tail(timerReq) \in Seq(Sessions)
        BY <2>12, TailFacts DEF TypeOK, TimerRequest
      <3>2. Append(release, Head(timerReq)) \in Seq(Sessions)
        BY <3>1, AppendFacts DEF TypeOK
      <3> QED BY <2>12, <3>1, <3>2 DEF TypeOK, TimerRequest, CloseSession, SessionState
    <2>13. ASSUME DelayedClose PROVE TypeOK'
      <3>1. Append(release, closing) \in Seq(Sessions)
        BY <2>13, AppendFacts DEF TypeOK, DelayedClose
      <3> QED BY <2>13, <3>1 DEF TypeOK, DelayedClose, CloseSession, SessionState
    <2>14. CASE UNCHANGED vars
      BY <2>14 DEF vars, table, fifos, TypeOK
    <2> QED
      BY <2>1, <2>2, <2>3, <2>4, <2>5, <2>6, <2>7, <2>8, <2>9, <2>10, <2>11,
         <2>12, <2>13, <2>14
      DEF Next, Arrival, ClientStep, StateTableProcess, Clients
  <1> QED BY <1>1, <1>2, PTL DEF Spec
-----------------------------------------------------------------------------
(* The inductive invariant.  PipelineInv says of each client what its lock *)
(* and its pending requests can be; LockExclusion is what lets the table   *)
(* change one client's session without touching the other's.               *)
IInv == TypeOK /\ PipelineInv /\ LockExclusion

PipelineOf(c) == HolderIsDeciding(c) /\ PendingIsExplained(c)

LEMMA OtherClient ==
    ASSUME NEW c \in Clients
    PROVE  /\ Other(c) \in Clients /\ Other(c) # c
           /\ \A d \in Clients : d = c \/ d = Other(c)
  BY DEF Clients, Other

LEMMA ExclusionBetween ==
    ASSUME NEW c \in Clients
    PROVE  LockExclusion <=>
              \A s \in Sessions : ~(holds[c] = s /\ holds[Other(c)] = s)
  BY DEF Clients, Other, LockExclusion

(* A step that leaves a client's registers, its FIFOs and the session it   *)
(* holds alone keeps what is said of that client.                          *)
LEMMA Frame ==
    ASSUME NEW c \in Clients, PipelineOf(c),
           req'[c] = req[c], rsp'[c] = rsp[c], delayed'[c] = delayed[c],
           holds'[c] = holds[c], asked'[c] = asked[c],
           holds[c] # None => stateTable'[holds[c]] = stateTable[holds[c]]
    PROVE  PipelineOf(c)'
  BY DEF PipelineOf, HolderIsDeciding, PendingIsExplained, IsOpenWrite, IsAskedRead, Decisions

(* The head of a client's queue is its unlocking write, an open write, or  *)
(* the last thing it has pending, a read.                                  *)
LEMMA HeadOfQueue ==
    ASSUME TypeOK, NEW c \in Clients, PipelineOf(c), Accepts(c)
    PROVE  /\ Head(req[c]) = req[c][1] /\ Head(req[c]) \in Query
           /\ Tail(req[c]) \in Seq(Query)
           /\ Len(Tail(req[c])) = Len(req[c]) - 1
           /\ \A i \in 1 .. Len(Tail(req[c])) : Tail(req[c])[i] = req[c][i + 1]
           /\ Len(req[c]) \in Nat \ {0}
           /\ rsp[c] = <<>>
           /\ holds[c] # None => /\ Head(req[c]).write /\ Head(req[c]).id = holds[c]
                                 /\ Head(req[c]).state \in Decisions(c, stateTable[holds[c]])
           /\ holds[c] = None => \/ IsOpenWrite(c, Head(req[c]))
                                 \/ Len(req[c]) = 1 /\ IsAskedRead(c, Head(req[c]))
  <1>1. req[c] \in Seq(Query) /\ req[c] # <<>>
    BY DEF TypeOK, Accepts
  <1>2. /\ Head(req[c]) = req[c][1] /\ Head(req[c]) \in Query
        /\ Tail(req[c]) \in Seq(Query)
        /\ Len(Tail(req[c])) = Len(req[c]) - 1
        /\ \A i \in 1 .. Len(req[c]) - 1 : Tail(req[c])[i] = req[c][i + 1]
        /\ Len(req[c]) \in Nat \ {0}
    BY <1>1, TailFacts
  <1>3. rsp[c] = <<>>
    BY <1>1 DEF PipelineOf, HolderIsDeciding, PendingIsExplained
  <1>4. holds[c] # None => /\ Head(req[c]).write /\ Head(req[c]).id = holds[c]
                           /\ Head(req[c]).state \in Decisions(c, stateTable[holds[c]])
    BY <1>1, <1>2 DEF PipelineOf, HolderIsDeciding
  <1>5. holds[c] = None => \/ IsOpenWrite(c, Head(req[c]))
                           \/ Len(req[c]) = 1 /\ IsAskedRead(c, Head(req[c]))
    <2>1. 1 \in 1 .. Len(req[c])
      BY <1>2
    <2> QED BY <1>2, <2>1 DEF PipelineOf, PendingIsExplained
  <1> QED BY <1>2, <1>3, <1>4, <1>5

(* What stays behind it is explained too.                                  *)
LEMMA TailOfQueue ==
    ASSUME TypeOK, NEW c \in Clients, PipelineOf(c), Accepts(c)
    PROVE  /\ Len(req[c]) = 1 => Tail(req[c]) = <<>>
           /\ \A i \in 1 .. Len(Tail(req[c])) :
                 \/ IsOpenWrite(c, Tail(req[c])[i])
                 \/ i = Len(Tail(req[c])) /\ IsAskedRead(c, Tail(req[c])[i])
  <1>1. req[c] \in Seq(Query) /\ req[c] # <<>>
    BY DEF TypeOK, Accepts
  <1>2. Len(req[c]) = 1 => Tail(req[c]) = <<>>
    BY <1>1, TailFacts
  <1>3. ASSUME NEW i \in 1 .. Len(Tail(req[c]))
        PROVE  \/ IsOpenWrite(c, Tail(req[c])[i])
               \/ i = Len(Tail(req[c])) /\ IsAskedRead(c, Tail(req[c])[i])
    <2>1. /\ i + 1 \in 1 .. Len(req[c]) /\ i + 1 # 1
          /\ Tail(req[c])[i] = req[c][i + 1]
          /\ i + 1 = Len(req[c]) <=> i = Len(Tail(req[c]))
      BY HeadOfQueue
    <2> QED BY <2>1 DEF PipelineOf, PendingIsExplained
  <1> QED BY <1>2, <1>3

(* What a read and a write performed by the table change.                  *)
LEMMA PerformEffect ==
    ASSUME TypeOK, NEW c \in Clients, NEW q \in Query, Perform(c, q)
    PROVE  /\ q.write => /\ stateTable' = [stateTable EXCEPT ![q.id] = q.state]
                         /\ holds'[c] = None /\ rsp'[c] = rsp[c]
           /\ ~q.write => /\ stateTable' = stateTable
                          /\ holds'[c] = q.id
                          /\ rsp'[c] = Append(rsp[c], stateTable[q.id])
           /\ holds'[Other(c)] = holds[Other(c)] /\ rsp'[Other(c)] = rsp[Other(c)]
           /\ \A s \in Sessions : s # q.id => stateTable'[s] = stateTable[s]
  BY OtherClient DEF TypeOK, Perform, PerformWrite, PerformRead, Query

(* Performing a request of c respects the other client and the exclusion.  *)
LEMMA PerformKeepsOther ==
    ASSUME IInv, NEW c \in Clients, NEW q \in Query, Perform(c, q),
           holds[Other(c)] # q.id, asked' = asked,
           req'[Other(c)] = req[Other(c)], delayed'[Other(c)] = delayed[Other(c)]
    PROVE  PipelineOf(Other(c))' /\ LockExclusion'
  <1>1. PipelineOf(Other(c)) /\ Other(c) \in Clients
    BY OtherClient DEF IInv, PipelineInv, PipelineOf
  <1>2. holds[Other(c)] # None => stateTable'[holds[Other(c)]] = stateTable[holds[Other(c)]]
    BY <1>1, PerformEffect DEF IInv, TypeOK
  <1>3. PipelineOf(Other(c))'
    BY <1>1, <1>2, PerformEffect, Frame DEF IInv
  <1>4. holds'[c] \in {None, q.id} /\ holds'[Other(c)] = holds[Other(c)]
    BY PerformEffect DEF IInv
  <1>5. LockExclusion'
    BY <1>4, ExclusionBetween DEF Clients, Other, LockExclusion
  <1> QED BY <1>3, <1>5

LEMMA RequestKeepsInv ==
    ASSUME IInv, NEW c \in Clients, Request(c)
    PROVE  (PipelineInv /\ LockExclusion)'
  <1> DEFINE q == Head(req[c])
  <1>1. TypeOK /\ PipelineOf(c) /\ Accepts(c) /\ delayed[c] = None
    BY DEF IInv, PipelineInv, PipelineOf, Request, Accepts
  <1>2. q \in Query /\ q.id \in Sessions
    BY <1>1, HeadOfQueue DEF Query
  <1>3. /\ req'[c] = Tail(req[c]) /\ req'[Other(c)] = req[Other(c)]
        /\ asked' = asked
    BY <1>1, OtherClient DEF Request, TypeOK
  <1>4. CASE holds[Other(c)] = q.id
    <2>1. /\ delayed' = [delayed EXCEPT ![c] = q]
          /\ UNCHANGED <<stateTable, holds, rsp>>
      BY <1>4 DEF Request
    <2>2. holds[c] = None /\ rsp[c] = <<>>
      BY <1>1, <1>2, <1>4, HeadOfQueue, ExclusionBetween DEF IInv
    <2>3. PipelineOf(c)'
      <3>1. HolderIsDeciding(c)'
        BY <2>1, <2>2 DEF HolderIsDeciding
      <3>2. delayed'[c] = q
        BY <1>1, <2>1 DEF TypeOK
      <3>3. \/ IsOpenWrite(c, q)
            \/ Tail(req[c]) = <<>> /\ IsAskedRead(c, q)
        BY <1>1, <2>2, HeadOfQueue, TailOfQueue
      <3>4. PendingIsExplained(c)'
        BY <1>1, <1>3, <2>1, <2>2, <3>2, <3>3, TailOfQueue
        DEF PendingIsExplained, IsOpenWrite, IsAskedRead
      <3> QED BY <3>1, <3>4 DEF PipelineOf
    <2>4. PipelineOf(Other(c))'
      <3>1. PipelineOf(Other(c))
        BY OtherClient DEF IInv, PipelineInv, PipelineOf
      <3>2. delayed'[Other(c)] = delayed[Other(c)]
        BY <1>1, <2>1, OtherClient DEF TypeOK
      <3> QED BY <1>3, <2>1, <3>1, <3>2, Frame, OtherClient
    <2>5. LockExclusion'
      BY <2>1 DEF IInv, LockExclusion
    <2> QED BY <2>3, <2>4, <2>5, OtherClient DEF PipelineInv, PipelineOf
  <1>5. CASE holds[Other(c)] # q.id
    <2>1. Perform(c, q) /\ delayed' = delayed
      BY <1>5 DEF Request
    <2>2. PipelineOf(Other(c))' /\ LockExclusion'
      BY <1>2, <1>3, <1>5, <2>1, PerformKeepsOther
    <2>3. CASE q.write
      <3>1. holds'[c] = None /\ rsp'[c] = <<>>
        BY <1>1, <1>2, <2>1, <2>3, HeadOfQueue, PerformEffect
      <3>3. PipelineOf(c)'
        BY <1>1, <1>3, <2>1, <3>1, HeadOfQueue, TailOfQueue
        DEF PipelineOf, HolderIsDeciding, PendingIsExplained, IsOpenWrite, IsAskedRead
      <3> QED BY <2>2, <3>3, OtherClient DEF PipelineInv, PipelineOf
    <2>4. CASE ~q.write
      <3>1. /\ holds[c] = None /\ Len(req[c]) = 1 /\ IsAskedRead(c, q)
            /\ Tail(req[c]) = <<>>
        BY <1>1, <2>4, HeadOfQueue, TailOfQueue DEF IsOpenWrite
      <3>2. /\ rsp'[c] = <<stateTable[q.id]>> /\ holds'[c] = q.id
            /\ stateTable' = stateTable
        BY <1>1, <1>2, <2>1, <2>4, <3>1, PerformEffect DEF IsAskedRead
      <3>3. PipelineOf(c)'
        BY <1>1, <1>2, <1>3, <2>1, <3>1, <3>2
        DEF PipelineOf, HolderIsDeciding, PendingIsExplained, IsAskedRead
      <3> QED BY <2>2, <3>3, OtherClient DEF PipelineInv, PipelineOf
    <2> QED BY <2>3, <2>4
  <1> QED BY <1>4, <1>5

LEMMA DelayedKeepsInv ==
    ASSUME IInv, NEW c \in Clients, Delayed(c)
    PROVE  (PipelineInv /\ LockExclusion)'
  <1> DEFINE q == delayed[c]
  <1>1. TypeOK /\ PipelineOf(c)
    BY DEF IInv, PipelineInv, PipelineOf
  <1>2. /\ q \in Query /\ q.id \in Sessions
        /\ holds[c] = None /\ rsp[c] = <<>>
        /\ IsOpenWrite(c, q) \/ (req[c] = <<>> /\ IsAskedRead(c, q))
    BY <1>1 DEF Delayed, TypeOK, Query, PipelineOf, HolderIsDeciding, PendingIsExplained
  <1>3. /\ req' = req /\ asked' = asked
        /\ delayed'[c] = None /\ delayed'[Other(c)] = delayed[Other(c)]
        /\ Perform(c, q) /\ holds[Other(c)] # q.id
    BY <1>1, OtherClient DEF Delayed, TypeOK
  <1>4. PipelineOf(Other(c))' /\ LockExclusion'
    BY <1>2, <1>3, PerformKeepsOther
  <1>5. CASE q.write
    <2>1. holds'[c] = None /\ rsp'[c] = <<>>
      BY <1>1, <1>2, <1>3, <1>5, PerformEffect
    <2>2. PipelineOf(c)'
      BY <1>1, <1>2, <1>3, <2>1
      DEF PipelineOf, HolderIsDeciding, PendingIsExplained, IsOpenWrite, IsAskedRead
    <2> QED BY <1>4, <2>2, OtherClient DEF PipelineInv, PipelineOf
  <1>6. CASE ~q.write
    <2>1. req[c] = <<>> /\ q.id = asked[c]
      BY <1>2, <1>6 DEF IsOpenWrite, IsAskedRead
    <2>2. rsp'[c] = <<stateTable'[q.id]>> /\ holds'[c] = q.id
      BY <1>1, <1>2, <1>3, <1>6, PerformEffect
    <2>3. PipelineOf(c)'
      BY <1>2, <1>3, <2>1, <2>2 DEF PipelineOf, HolderIsDeciding, PendingIsExplained
    <2> QED BY <1>4, <2>3, OtherClient DEF PipelineInv, PipelineOf
  <1> QED BY <1>5, <1>6

(* A timer closes only sessions that no client holds.                      *)
LEMMA CloseKeepsInv ==
    ASSUME IInv, NEW s \in Sessions, ~Held(s),
           stateTable' = [stateTable EXCEPT ![s] = "CLOSED"],
           UNCHANGED <<holds, delayed, req, rsp, asked>>
    PROVE  (PipelineInv /\ LockExclusion)'
  <1>1. ASSUME NEW c \in Clients PROVE PipelineOf(c)'
    <2>1. PipelineOf(c)
      BY DEF IInv, PipelineInv, PipelineOf
    <2>2. holds[c] # None => stateTable'[holds[c]] = stateTable[holds[c]]
      BY DEF Held, IInv, TypeOK
    <2> QED BY <2>1, <2>2, Frame
  <1> QED BY <1>1 DEF IInv, PipelineInv, PipelineOf, LockExclusion

(* A client puts a request q behind the ones it has pending.               *)
LEMMA SendKeepsPending ==
    ASSUME IInv, NEW c \in Clients, NEW q \in Query, Send(c, q), asked[c] = None,
           UNCHANGED <<stateTable, holds, delayed, rsp>>,
           \/ IsOpenWrite(c, q) /\ asked' = asked
           \/ ~q.write /\ asked' = [asked EXCEPT ![c] = q.id]
    PROVE  (PipelineInv /\ LockExclusion)'
  <1>1. PipelineOf(c) /\ req[c] \in Seq(Query) /\ Len(req[c]) \in Nat
    BY LenProperties DEF IInv, PipelineInv, PipelineOf, TypeOK
  <1>2. req' = [req EXCEPT ![c] = Append(@, q)] /\ q.id \in Sessions
    BY DEF Send, Query
  <1>3. /\ req'[c] # <<>> /\ Len(req'[c]) = Len(req[c]) + 1
        /\ \A i \in 1 .. Len(req[c]) : req'[c][i] = req[c][i]
        /\ req'[c][Len(req'[c])] = q
    <2>1. req'[c] = Append(req[c], q)
      BY <1>2 DEF IInv, TypeOK
    <2>2. /\ Append(req[c], q) # <<>>
          /\ Len(Append(req[c], q)) = Len(req[c]) + 1
          /\ \A i \in 1 .. Len(req[c]) : Append(req[c], q)[i] = req[c][i]
          /\ Append(req[c], q)[Len(req[c]) + 1] = q
      BY <1>1, AppendFacts
    <2> QED BY <2>1, <2>2
  <1>4. PipelineOf(Other(c))'
    <2>1. PipelineOf(Other(c))
      BY OtherClient DEF IInv, PipelineInv, PipelineOf
    <2>2. /\ req'[Other(c)] = req[Other(c)] /\ asked'[Other(c)] = asked[Other(c)]
      BY <1>2, OtherClient DEF IInv, TypeOK
    <2> QED BY <2>1, <2>2, Frame, OtherClient
  <1>5. rsp[c] = <<>> /\ (holds[c] # None => req[c] # <<>>)
    BY <1>1 DEF PipelineOf, HolderIsDeciding, PendingIsExplained
  <1>6. delayed[c] # None => IsOpenWrite(c, delayed[c])
    <2>1. delayed[c] # None => delayed[c].id # None
      BY DEF IInv, TypeOK, Query
    <2> QED BY <1>1, <2>1 DEF PipelineOf, PendingIsExplained, IsAskedRead
  <1>7. HolderIsDeciding(c)'
    <2>1. req[c] # <<>> => 1 \in 1 .. Len(req[c])
      BY <1>1, EmptySeq
    <2> QED BY <1>1, <1>3, <1>5, <2>1 DEF PipelineOf, HolderIsDeciding
  <1>8. PendingIsExplained(c)'
    <2>1. ASSUME NEW i \in 1 .. Len(req'[c])
          PROVE  \/ i = 1 /\ holds[c] # None
                 \/ IsOpenWrite(c, req'[c][i])
                 \/ i = Len(req'[c]) /\ ~q.write /\ req'[c][i] = q
      <3>1. CASE i = Len(req'[c])
        <4>1. CASE IsOpenWrite(c, q)
          BY <1>3, <3>1, <4>1
        <4>2. CASE ~q.write
          BY <1>3, <3>1, <4>2
        <4> QED BY <4>1, <4>2
      <3>2. CASE i # Len(req'[c])
        <4>1. i \in 1 .. Len(req[c]) /\ req'[c][i] = req[c][i]
          BY <1>1, <1>3, <3>2
        <4>2. req[c][i] \in Query
          BY <1>1, <4>1, ElementOfSeq
        <4>3. ~IsAskedRead(c, req[c][i])
          BY <4>2 DEF IsAskedRead, Query
        <4> QED BY <1>1, <4>1, <4>3 DEF PipelineOf, PendingIsExplained
      <3> QED BY <3>1, <3>2
    <2>2. ~q.write => asked'[c] = q.id
      BY DEF IsOpenWrite, IInv, TypeOK
    <2> QED BY <1>5, <1>6, <2>1, <2>2 DEF PendingIsExplained, IsOpenWrite, IsAskedRead
  <1>9. LockExclusion'
    BY DEF IInv, LockExclusion
  <1> QED BY <1>4, <1>7, <1>8, <1>9, OtherClient DEF PipelineInv, PipelineOf

(* A client answers the reply it waited for with a decision about it.      *)
LEMMA AnswerKeepsInv ==
    ASSUME IInv, NEW c \in Clients, NEW v \in SessionState, Answer(c, v),
           v \in Decisions(c, Head(rsp[c]))
    PROVE  (PipelineInv /\ LockExclusion)'
  <1>1. PipelineOf(c)
    BY DEF IInv, PipelineInv, PipelineOf
  <1>2. /\ holds[c] # None /\ holds[c] = asked[c] /\ asked[c] \in Sessions
        /\ delayed[c] = None /\ req[c] = <<>>
        /\ rsp[c] = <<stateTable[holds[c]]>>
    BY <1>1 DEF Answer, PipelineOf, HolderIsDeciding, PendingIsExplained, IInv, TypeOK
  <1>3. req'[c] = <<Write(asked[c], v)>> /\ rsp'[c] = <<>>
    BY <1>2 DEF Answer, Send, IInv, TypeOK
  <1>4. PipelineOf(c)'
    BY <1>2, <1>3 DEF Answer, table, Write, PipelineOf, HolderIsDeciding, PendingIsExplained
  <1>5. PipelineOf(Other(c))'
    <2>1. PipelineOf(Other(c))
      BY OtherClient DEF IInv, PipelineInv, PipelineOf
    <2>2. /\ req'[Other(c)] = req[Other(c)] /\ asked'[Other(c)] = asked[Other(c)]
          /\ rsp'[Other(c)] = rsp[Other(c)]
      BY OtherClient DEF Answer, Send, IInv, TypeOK
    <2> QED BY <2>1, <2>2, Frame, OtherClient DEF Answer, table
  <1>6. LockExclusion'
    BY DEF IInv, LockExclusion, Answer, table
  <1> QED BY <1>4, <1>5, <1>6, OtherClient DEF PipelineInv, PipelineOf
-----------------------------------------------------------------------------
LEMMA InitInv == Init => IInv
  <1> SUFFICES ASSUME Init PROVE IInv
    OBVIOUS
  <1>1. TypeOK
    BY EmptySeq DEF Init, TypeOK, SessionState
  <1>2. PipelineInv
    BY EmptySeq DEF Init, PipelineInv, HolderIsDeciding, PendingIsExplained
  <1>3. LockExclusion
    BY DEF Init, LockExclusion, Clients
  <1> QED BY <1>1, <1>2, <1>3 DEF IInv

LEMMA StepInv == IInv /\ TypeOK' /\ [Next]_vars => IInv'
  <1> SUFFICES ASSUME IInv, TypeOK', [Next]_vars
               PROVE  (PipelineInv /\ LockExclusion)'
    BY DEF IInv
  <1>1. ASSUME NEW c \in Clients, NEW s \in Sessions, Ask(c, s)
        PROVE  (PipelineInv /\ LockExclusion)'
    <2>1. Read(s) \in Query /\ ~Read(s).write /\ Read(s).id = s
      BY QueriesAreTyped DEF Read, SessionState
    <2> QED BY <1>1, <2>1, SendKeepsPending DEF Ask, table
  <1>2. ASSUME NEW s \in Sessions, TxOpen(s)
        PROVE  (PipelineInv /\ LockExclusion)'
    <2>1. Write(s, "SYN_SENT") \in Query /\ IsOpenWrite("tx", Write(s, "SYN_SENT"))
      BY QueriesAreTyped DEF Write, IsOpenWrite, SessionState
    <2> QED BY <1>2, <2>1, SendKeepsPending DEF TxOpen, table, Clients
  <1>3. ASSUME RxTransition PROVE (PipelineInv /\ LockExclusion)'
    <2>1. PICK v \in RxSuccessors[Head(rsp["rx"])] : Answer("rx", v)
      BY <1>3 DEF RxTransition
    <2>2. v \in SessionState
      BY <1>3, <2>1, SuccessorsAreStates DEF RxTransition, IInv, TypeOK, Clients
    <2> QED BY <2>1, <2>2, AnswerKeepsInv DEF Decisions, Clients
  <1>4. ASSUME TxCloseConn PROVE (PipelineInv /\ LockExclusion)'
    <2>1. CloseState(Head(rsp["tx"])) \in SessionState
      BY <1>4, SuccessorsAreStates DEF TxCloseConn, IInv, TypeOK, Clients
    <2> QED BY <1>4, <2>1, AnswerKeepsInv DEF TxCloseConn, Decisions, Clients
  <1>5. ASSUME NEW c \in Clients, Request(c) PROVE (PipelineInv /\ LockExclusion)'
    BY <1>5, RequestKeepsInv
  <1>6. ASSUME NEW c \in Clients, Delayed(c) PROVE (PipelineInv /\ LockExclusion)'
    BY <1>6, DelayedKeepsInv
  <1>7. ASSUME TimerRequest PROVE (PipelineInv /\ LockExclusion)'
    <2>1. Head(timerReq) \in Sessions
      BY <1>7, TailFacts DEF IInv, TypeOK, TimerRequest
    <2>2. CASE Held(Head(timerReq))
      <3>1. UNCHANGED <<stateTable, holds, delayed, req, rsp, asked>>
        BY <1>7, <2>2 DEF TimerRequest
      <3> QED BY <3>1, Frame DEF IInv, PipelineInv, PipelineOf, LockExclusion
    <2>3. CASE ~Held(Head(timerReq))
      <3>1. /\ stateTable' = [stateTable EXCEPT ![Head(timerReq)] = "CLOSED"]
            /\ UNCHANGED <<holds, delayed, req, rsp, asked>>
        BY <1>7, <2>3 DEF TimerRequest, CloseSession
      <3> QED BY <2>1, <2>3, <3>1, CloseKeepsInv
    <2> QED BY <2>2, <2>3
  <1>8. ASSUME DelayedClose PROVE (PipelineInv /\ LockExclusion)'
    BY <1>8, CloseKeepsInv DEF DelayedClose, CloseSession, IInv, TypeOK
  <1>9. ASSUME StreamReply \/ TakeRelease \/ StreamRead \/ UNCHANGED vars
               \/ \E s \in Sessions : StreamAsk(s) \/ TimerExpires(s)
        PROVE  (PipelineInv /\ LockExclusion)'
    <2>1. UNCHANGED <<stateTable, holds, delayed, req, rsp, asked>>
      BY <1>9 DEF StreamReply, TakeRelease, StreamRead, StreamAsk, TimerExpires,
                  vars, table, fifos
    <2> QED BY <2>1, Frame DEF IInv, PipelineInv, PipelineOf, LockExclusion
  <1> QED
    BY <1>1, <1>2, <1>3, <1>4, <1>5, <1>6, <1>7, <1>8, <1>9
    DEF Next, Arrival, ClientStep, StateTableProcess, Clients

THEOREM Invariance == Spec => []IInv
  <1>1. IInv /\ TypeOK' /\ [Next]_vars => IInv'
    BY StepInv
  <1> QED BY InitInv, <1>1, TypeCorrect, PTL DEF Spec

(* The RX engine's FSM and tx_app_if never hold the same session.          *)
THEOREM Exclusion == Spec => []LockExclusion
  <1>1. IInv => LockExclusion
    BY DEF IInv
  <1> QED BY <1>1, Invariance, PTL

(* A held lock has its unlocking write on the way.                         *)
THEOREM NoLostLock == Spec => []LockIsOwed
  <1>1. IInv => LockIsOwed
    <2> SUFFICES ASSUME IInv, NEW c \in Clients, holds[c] # None
                 PROVE  ReplyInFlight(c) \/ UnlockNext(c)
      BY DEF LockIsOwed
    <2>1. HolderIsDeciding(c)
      BY DEF IInv, PipelineInv
    <2>2. CASE req[c] = <<>>
      <3>1. rsp[c] = <<stateTable[holds[c]]>> /\ asked[c] = holds[c]
        BY <2>1, <2>2 DEF HolderIsDeciding
      <3>2. Len(rsp[c]) = 1
        BY <3>1
      <3>3. rsp[c] # <<>>
        BY <3>2, EmptySeq
      <3> QED BY <3>1, <3>3 DEF ReplyInFlight
    <2>3. CASE req[c] # <<>>
      <3>1. Head(req[c]) = req[c][1]
        BY <2>3, TailFacts DEF IInv, TypeOK
      <3> QED BY <2>1, <2>3, <3>1 DEF HolderIsDeciding, UnlockNext
    <2> QED BY <2>2, <2>3
  <1> QED BY <1>1, Invariance, PTL

(* A reply on its way to a client is still the state of the session.       *)
THEOREM StableReply == Spec => []ReplyIsCurrent
  <1>1. IInv => ReplyIsCurrent
    <2> SUFFICES ASSUME IInv, NEW c \in Clients, rsp[c] # <<>>
                 PROVE  asked[c] # None /\ Head(rsp[c]) = stateTable[asked[c]]
      BY DEF ReplyIsCurrent
    <2>1. HolderIsDeciding(c) /\ PendingIsExplained(c)
      BY DEF IInv, PipelineInv
    <2> QED BY <2>1 DEF HolderIsDeciding, PendingIsExplained
  <1> QED BY <1>1, Invariance, PTL
-----------------------------------------------------------------------------
(* A write the table performs is one step of the session's state machine:  *)
(* the FSM's or tx_app_if's decision about the state the session has now,  *)
(* or an open.                                                             *)
ReleasedStep ==
    \A s \in Sessions : stateTable[s] # "CLOSED" /\ stateTable'[s] = "CLOSED"
                           => release' = Append(release, s)

LEMMA SameDecisions == Atomic!RxSuccessors = RxSuccessors
  BY DEF Atomic!RxSuccessors, RxSuccessors, Atomic!RxState, RxState,
     Atomic!PacketKind, PacketKind, Atomic!OnAck, OnAck, Atomic!OnSyn, OnSyn,
     Atomic!OnSynAck, OnSynAck, Atomic!OnFin, OnFin, Atomic!OnRst, OnRst,
     Atomic!Follow, Follow, Atomic!AckMove, AckMove, Atomic!SynMove, SynMove,
     Atomic!FinMove, FinMove, Atomic!SessionState, SessionState

LEMMA PerformIsAtomic ==
    ASSUME IInv, NEW c \in Clients, NEW q \in Query, Perform(c, q),
           \/ ~q.write
           \/ IsOpenWrite(c, q)
           \/ q.state \in Decisions(c, stateTable[q.id])
    PROVE  [Atomic!Next]_stateTable /\ ReleasedStep
  <1>1. q.id \in Sessions /\ TypeOK
    BY DEF Query, IInv
  <1>2. CASE ~q.write
    BY <1>2 DEF Perform, PerformRead, ReleasedStep
  <1>3. CASE q.write
    <2>1. /\ stateTable' = [stateTable EXCEPT ![q.id] = q.state]
          /\ c = "rx" /\ q.state = "CLOSED" => release' = Append(release, q.id)
      BY <1>3 DEF Perform, PerformWrite
    <2>2. CASE IsOpenWrite(c, q)
      <3>1. Atomic!Open(q.id)
        BY <2>1, <2>2 DEF IsOpenWrite, Atomic!Open
      <3>2. ReleasedStep
        BY <1>1, <2>1, <2>2 DEF IsOpenWrite, ReleasedStep, TypeOK
      <3> QED BY <1>1, <3>1, <3>2 DEF Atomic!Next
    <2>3. CASE c = "rx" /\ q.state \in RxSuccessors[stateTable[q.id]]
      <3>1. Atomic!Segment(q.id)
        BY <2>1, <2>3, SameDecisions DEF Atomic!Segment
      <3>2. ReleasedStep
        BY <1>1, <2>1, <2>3 DEF ReleasedStep, TypeOK
      <3> QED BY <1>1, <3>1, <3>2 DEF Atomic!Next
    <2>4. CASE c = "tx" /\ q.state = CloseState(stateTable[q.id])
      <3>1. Atomic!Close(q.id)
        BY <1>1, <2>1, <2>4 DEF Atomic!Close, Atomic!CloseState, CloseState,
           Atomic!ClosableStates, ClosableStates, TypeOK
      <3>2. q.state = "CLOSED" => stateTable[q.id] = "CLOSED"
        BY <2>4 DEF CloseState
      <3>3. ReleasedStep
        BY <1>1, <2>1, <3>2 DEF ReleasedStep, TypeOK
      <3> QED BY <1>1, <3>1, <3>3 DEF Atomic!Next
    <2> QED BY <1>3, <2>2, <2>3, <2>4 DEF Decisions, Clients
  <1> QED BY <1>2, <1>3

LEMMA CloseIsAtomic ==
    ASSUME IInv, NEW s \in Sessions, CloseSession(s)
    PROVE  [Atomic!Next]_stateTable /\ ReleasedStep
  <1>1. Atomic!Expire(s)
    BY DEF CloseSession, Atomic!Expire
  <1>2. ReleasedStep
    BY DEF CloseSession, ReleasedStep, IInv, TypeOK
  <1> QED BY <1>1, <1>2 DEF Atomic!Next

LEMMA StepIsAtomic == IInv /\ [Next]_vars => [Atomic!Next]_stateTable /\ ReleasedStep
  <1> SUFFICES ASSUME IInv, [Next]_vars
               PROVE  [Atomic!Next]_stateTable /\ ReleasedStep
    OBVIOUS
  <1>1. ASSUME NEW c \in Clients, Request(c)
        PROVE  [Atomic!Next]_stateTable /\ ReleasedStep
    <2>1. TypeOK /\ PipelineOf(c) /\ Accepts(c)
      BY <1>1 DEF IInv, PipelineInv, PipelineOf, Request
    <2>2. /\ Head(req[c]) \in Query
          /\ \/ ~Head(req[c]).write
             \/ IsOpenWrite(c, Head(req[c]))
             \/ Head(req[c]).state \in Decisions(c, stateTable[Head(req[c]).id])
      BY <2>1, HeadOfQueue DEF IsAskedRead
    <2>3. CASE Perform(c, Head(req[c]))
      BY <2>2, <2>3, PerformIsAtomic
    <2>4. CASE UNCHANGED stateTable
      BY <2>4 DEF ReleasedStep
    <2> QED BY <1>1, <2>3, <2>4 DEF Request
  <1>2. ASSUME NEW c \in Clients, Delayed(c)
        PROVE  [Atomic!Next]_stateTable /\ ReleasedStep
    <2>1. /\ delayed[c] \in Query /\ Perform(c, delayed[c])
          /\ IsOpenWrite(c, delayed[c]) \/ ~delayed[c].write
      BY <1>2 DEF IInv, PipelineInv, PendingIsExplained, IsAskedRead, Delayed, TypeOK
    <2> QED BY <2>1, PerformIsAtomic
  <1>3. ASSUME TimerRequest PROVE [Atomic!Next]_stateTable /\ ReleasedStep
    <2>1. Head(timerReq) \in Sessions
      BY <1>3, TailFacts DEF IInv, TypeOK, TimerRequest
    <2>2. CloseSession(Head(timerReq)) \/ UNCHANGED stateTable
      BY <1>3 DEF TimerRequest
    <2> QED BY <2>1, <2>2, CloseIsAtomic DEF ReleasedStep
  <1>4. ASSUME DelayedClose PROVE [Atomic!Next]_stateTable /\ ReleasedStep
    BY <1>4, CloseIsAtomic DEF DelayedClose, IInv, TypeOK
  <1>5. CASE UNCHANGED stateTable
    BY <1>5 DEF ReleasedStep
  <1> QED
    BY <1>1, <1>2, <1>3, <1>4, <1>5
    DEF Next, Arrival, ClientStep, StateTableProcess, Clients, Ask, TxOpen, StreamAsk,
        TimerExpires, RxTransition, TxCloseConn, Answer, StreamReply, TakeRelease,
        StreamRead, vars, table, fifos

(* The table implements the atomic session state machine: every write is a *)
(* decision about the state the session has when it is written.            *)
THEOREM Atomicity == Spec => AtomicSpec
  <1>1. Init => Atomic!Init
    BY DEF Init, Atomic!Init
  <1>2. IInv /\ [Next]_vars => [Atomic!Next]_stateTable
    BY StepIsAtomic
  <1> QED BY <1>1, <1>2, Invariance, PTL DEF Spec, AtomicSpec, Atomic!Spec

(* A session that becomes CLOSED gives its ID back in the same step.       *)
THEOREM Releases == Spec => ClosedIsReleased
  <1>1. IInv /\ [Next]_vars => ReleasedStep
    BY StepIsAtomic
  <1>2. IInv /\ [Next]_vars => [ReleasedStep]_vars
    BY <1>1
  <1>3. [ReleasedStep]_vars <=>
        [\A s \in Sessions : stateTable[s] # "CLOSED" /\ stateTable'[s] = "CLOSED"
                                => release' = Append(release, s)]_vars
    BY DEF ReleasedStep
  <1> QED BY <1>2, <1>3, Invariance, PTL DEF Spec, ClosedIsReleased
-----------------------------------------------------------------------------
(* The ARP server, which has a state and constants of its own.  Its table  *)
(* too is asked by one process and kept by others: questions and answers   *)
(* balance, and its two processes never wait for each other.               *)
CONSTANTS Nets, MyNet, Local, LastOctet, Gateway, Asked, Hosts, ArpDepth, PortDepth, HostScans
VARIABLES arpTable, inserts, arpRequests, arpReplies, sending, idle, ip_lsb, arp_scan, arp_scan_1d

Arp == INSTANCE ArpServer
ArpConstants == Arp!ConstantsOK

BetweenThem == Len(toTable) + Len(fromTable)

(* While a scan waits, the answer it waits for is between the two.         *)
ScanIsAnswered == state = "WAIT_RESPONSE" => BetweenThem >= 1

ArpInv == Arp!TypeOK /\ AnswersCounted /\ RoomInv /\ ScanIsAnswered

LEMMA ArpFacts ==
    ASSUME ArpConstants
    PROVE  /\ LastOctet \in Nat /\ MyNet \in Nets /\ Gateway \in Arp!Addresses
           /\ Asked \subseteq Arp!Addresses /\ Hosts \subseteq Arp!Addresses
           /\ Depth \in Nat /\ Depth >= 3 /\ ArpDepth \in Nat \ {0} /\ PortDepth \in Nat \ {0}
  BY DEF ArpConstants, Arp!ConstantsOK

LEMMA ArpAddresses ==
    ASSUME ArpConstants
    PROVE
    /\ \A ip \in Arp!Addresses : ip.octet \in Arp!Octets /\ Arp!NextHop(ip) \in Arp!Addresses
    /\ \A o \in Arp!Octets : [net |-> MyNet, octet |-> o] \in Arp!Addresses
  BY ArpFacts DEF Arp!Addresses, Arp!NextHop

(* The lengths of the FIFOs that the counts are about.                     *)
LEMMA ArpLengths ==
    ASSUME Arp!TypeOK
    PROVE  /\ Len(requests) \in Nat /\ Len(toTable) \in Nat /\ Len(fromTable) \in Nat
           /\ Len(answers) \in Nat /\ Len(questions) \in Nat
           /\ Len(inserts) \in Nat /\ Len(arpRequests) \in Nat
  BY DEF Arp!TypeOK
-----------------------------------------------------------------------------
LEMMA ArpForwardRequestStep ==
    ASSUME ArpConstants, ArpInv, Arp!ForwardRequest,
           UNCHANGED <<arpTable, inserts, arpRequests, Arp!sender, questions>>
    PROVE  ArpInv'
  <1>1. Arp!TypeOK BY DEF ArpInv
  <1>2. /\ state = "FWD" /\ state' = "FWD_ANSWER" /\ idle' \in BOOLEAN
        /\ UNCHANGED <<fromTable, answers, ip_lsb, arp_scan, arp_scan_1d>>
    BY DEF Arp!ForwardRequest
  <1>3. CASE requests # <<>>
    <2>1. /\ Len(toTable) < Depth
          /\ toTable' = Append(toTable, Head(requests)) /\ requests' = Tail(requests)
      BY <1>3 DEF Arp!ForwardRequest
    <2>2. /\ Head(requests) \in Arp!Addresses
          /\ requests' \in Seq(Arp!Addresses) /\ Len(requests') = Len(requests) - 1
      BY <1>1, <1>3, <2>1, TailFacts DEF Arp!TypeOK
    <2>3. toTable' \in Seq(Arp!Addresses) /\ Len(toTable') = Len(toTable) + 1
      BY <1>1, <2>1, <2>2, AppendFacts DEF Arp!TypeOK
    <2>4. Arp!TypeOK'
      BY <1>1, <1>2, <2>1, <2>2, <2>3, ArpLengths, ArpFacts DEF Arp!TypeOK, Arp!sender
    <2>5. /\ Len(toTable') = Len(toTable) + 1 /\ Len(requests') = Len(requests) - 1
          /\ Len(fromTable') = Len(fromTable) /\ Len(answers') = Len(answers)
          /\ Len(questions') = Len(questions)
      BY <1>2, <2>2, <2>3
    <2>6. AnswersCounted' /\ ScanIsAnswered'
      BY <1>1, <1>2, <2>5, ArpLengths DEF ArpInv, AnswersCounted, Scanning, ScanIsAnswered
    <2>7. RoomInv'
      BY <1>1, <1>2, <2>5, ArpLengths, ArpFacts DEF ArpInv, RoomInv
    <2> QED BY <2>4, <2>6, <2>7 DEF ArpInv
  <1>4. CASE requests = <<>>
    <2>1. UNCHANGED <<toTable, requests>>
      BY <1>4 DEF Arp!ForwardRequest
    <2>2. Arp!TypeOK'
      BY <1>1, <1>2, <2>1 DEF Arp!TypeOK, Arp!sender
    <2>3. AnswersCounted' /\ ScanIsAnswered'
      BY <1>1, <1>2, <2>1, <2>2, ArpLengths, ArpFacts
      DEF ArpInv, AnswersCounted, Scanning, ScanIsAnswered, BetweenThem
    <2>4. RoomInv'
      BY <1>1, <1>2, <2>1, <2>2, ArpLengths, ArpFacts
      DEF ArpInv, RoomInv
    <2> QED BY <2>2, <2>3, <2>4 DEF ArpInv
  <1> QED BY <1>3, <1>4

LEMMA ArpForwardAnswerStep ==
    ASSUME ArpConstants, ArpInv, Arp!ForwardAnswer,
           UNCHANGED <<arpTable, inserts, arpRequests, Arp!sender, questions>>
    PROVE  ArpInv'
  <1>1. Arp!TypeOK BY DEF ArpInv
  <1>2. /\ state = "FWD_ANSWER" /\ state' \in {"SETUP", "FWD"}
        /\ arp_scan' \in {0, 1} /\ arp_scan_1d' \in {0, 1}
        /\ UNCHANGED <<toTable, requests, idle, ip_lsb>>
    BY <1>1 DEF Arp!ForwardAnswer, Arp!TypeOK
  <1>s. Scanning = 0 /\ Scanning' = 0 /\ ScanIsAnswered'
    BY <1>2 DEF Scanning, ScanIsAnswered
  <1>3. CASE fromTable # <<>>
    <2>1. /\ Len(answers) < PortDepth
          /\ answers' = Append(answers, Head(fromTable)) /\ fromTable' = Tail(fromTable)
      BY <1>3 DEF Arp!ForwardAnswer
    <2>2. /\ Head(fromTable) \in Arp!Answers
          /\ fromTable' \in Seq(Arp!Answers) /\ Len(fromTable') = Len(fromTable) - 1
      BY <1>1, <1>3, <2>1, TailFacts DEF Arp!TypeOK
    <2>3. answers' \in Seq(Arp!Answers) /\ Len(answers') = Len(answers) + 1
      BY <1>1, <2>1, <2>2, AppendFacts DEF Arp!TypeOK
    <2>4. Arp!TypeOK'
      BY <1>1, <1>2, <2>1, <2>2, <2>3, ArpLengths, ArpFacts DEF Arp!TypeOK, Arp!sender
    <2>5. AnswersCounted'
      <3>1. /\ Len(requests') = Len(requests) /\ Len(toTable') = Len(toTable)
            /\ Len(questions') = Len(questions)
        BY <1>2
      <3>2. Len(questions) = Len(requests) + Len(toTable) + Len(fromTable) + Len(answers)
        BY <1>1, <1>s, ArpLengths DEF ArpInv, AnswersCounted
      <3>3. Len(questions') = Len(requests') + Len(toTable') + Len(fromTable') + Len(answers')
        BY <1>1, <2>2, <2>3, <3>1, <3>2, ArpLengths
      <3> QED BY <1>1, <1>s, <3>1, <3>3, ArpLengths DEF AnswersCounted
    <2>6. RoomInv'
      BY <1>1, <1>2, <2>2, ArpLengths, ArpFacts DEF ArpInv, RoomInv
    <2> QED BY <1>s, <2>4, <2>5, <2>6 DEF ArpInv
  <1>4. CASE fromTable = <<>>
    <2>1. UNCHANGED <<fromTable, answers>>
      BY <1>4 DEF Arp!ForwardAnswer
    <2>2. Arp!TypeOK'
      BY <1>1, <1>2, <2>1 DEF Arp!TypeOK, Arp!sender
    <2>3. Len(fromTable) = 0 /\ Len(toTable) <= Depth
      BY <1>1, <1>4 DEF Arp!TypeOK
    <2>4. AnswersCounted'
      BY <1>1, <1>2, <1>s, <2>1 DEF ArpInv, AnswersCounted
    <2>5. RoomInv'
      BY <1>1, <1>2, <2>1, <2>3, ArpLengths, ArpFacts DEF RoomInv
    <2> QED BY <1>s, <2>2, <2>4, <2>5 DEF ArpInv
  <1> QED BY <1>3, <1>4

LEMMA ArpSetupStep ==
    ASSUME ArpConstants, ArpInv, Arp!Setup,
           UNCHANGED <<arpTable, inserts, arpRequests, Arp!sender, questions>>
    PROVE  ArpInv'
  <1>1. Arp!TypeOK BY DEF ArpInv
  <1>2. Arp!TypeOK'
    BY <1>1, ArpFacts DEF Arp!TypeOK, Arp!Setup, Arp!sender, Arp!Octets
  <1> QED
    BY <1>1, <1>2, ArpLengths
    DEF ArpInv, Arp!Setup, AnswersCounted, Scanning, RoomInv, ScanIsAnswered, BetweenThem

LEMMA ArpGenIpStep ==
    ASSUME ArpConstants, ArpInv, Arp!GenIp,
           UNCHANGED <<arpTable, inserts, arpRequests, Arp!sender, questions>>
    PROVE  ArpInv'
  <1>1. Arp!TypeOK BY DEF ArpInv
  <1>2. /\ state = "GEN_IP" /\ state' = "WAIT_RESPONSE" /\ arp_scan_1d' = arp_scan
        /\ Len(toTable) < Depth
        /\ UNCHANGED <<requests, answers, fromTable, idle, arp_scan>>
    BY DEF Arp!GenIp
  <1>3. toTable' \in Seq(Arp!Addresses) /\ Len(toTable') = Len(toTable) + 1
    <2>1. [net |-> MyNet, octet |-> ip_lsb] \in Arp!Addresses
      BY <1>1, ArpAddresses DEF Arp!TypeOK
    <2> QED BY <1>1, <2>1, AppendFacts DEF Arp!TypeOK, Arp!GenIp
  <1>4. ip_lsb' \in Arp!Octets
    BY <1>1, ArpFacts DEF Arp!TypeOK, Arp!GenIp, Arp!NextOctet, Arp!Octets
  <1>5. Arp!TypeOK'
    BY <1>1, <1>2, <1>3, <1>4, ArpLengths, ArpFacts DEF Arp!TypeOK, Arp!sender
  <1>6. Scanning = 0 /\ Scanning' = 1
    BY <1>2 DEF Scanning
  <1>7. AnswersCounted'
    BY <1>1, <1>2, <1>3, <1>6, ArpLengths DEF ArpInv, AnswersCounted
  <1>8. RoomInv'
    BY <1>1, <1>2, <1>3, ArpLengths, ArpFacts DEF ArpInv, RoomInv
  <1>9. ScanIsAnswered'
    BY <1>1, <1>2, <1>3, ArpLengths DEF ScanIsAnswered, BetweenThem
  <1> QED BY <1>5, <1>7, <1>8, <1>9 DEF ArpInv

LEMMA ArpWaitResponseStep ==
    ASSUME ArpConstants, ArpInv, Arp!WaitResponse,
           UNCHANGED <<arpTable, inserts, arpRequests, Arp!sender, questions>>
    PROVE  ArpInv'
  <1>1. Arp!TypeOK BY DEF ArpInv
  <1>2. /\ state = "WAIT_RESPONSE" /\ arp_scan_1d' = arp_scan
        /\ UNCHANGED <<requests, answers, toTable, idle, ip_lsb, arp_scan>>
    BY DEF Arp!WaitResponse
  <1>3. CASE fromTable # <<>>
    <2>1. fromTable' = Tail(fromTable) /\ state' \in {"FWD", "GEN_IP"}
      BY <1>3 DEF Arp!WaitResponse
    <2>2. fromTable' \in Seq(Arp!Answers) /\ Len(fromTable') = Len(fromTable) - 1
      BY <1>1, <1>3, <2>1, TailFacts DEF Arp!TypeOK
    <2>3. Arp!TypeOK'
      BY <1>1, <1>2, <2>1, <2>2, ArpLengths, ArpFacts DEF Arp!TypeOK, Arp!sender
    <2>4. AnswersCounted' /\ ScanIsAnswered'
      BY <1>1, <1>2, <2>1, <2>2, <2>3, ArpLengths, ArpFacts
      DEF ArpInv, AnswersCounted, Scanning, ScanIsAnswered, BetweenThem
    <2>5. RoomInv'
      BY <1>1, <1>2, <2>1, <2>2, <2>3, ArpLengths, ArpFacts
      DEF ArpInv, RoomInv
    <2> QED BY <2>3, <2>4, <2>5 DEF ArpInv
  <1>4. CASE fromTable = <<>>
    <2>1. UNCHANGED <<fromTable, state>>
      BY <1>4 DEF Arp!WaitResponse
    <2>2. Arp!TypeOK'
      BY <1>1, <1>2, <2>1 DEF Arp!TypeOK, Arp!sender
    <2>3. AnswersCounted' /\ ScanIsAnswered'
      BY <1>2, <2>1, <2>2
      DEF ArpInv, AnswersCounted, Scanning, ScanIsAnswered, BetweenThem
    <2>4. RoomInv'
      BY <1>2, <2>1, <2>2
      DEF ArpInv, RoomInv
    <2> QED BY <2>2, <2>3, <2>4 DEF ArpInv
  <1> QED BY <1>3, <1>4
-----------------------------------------------------------------------------
(* What a step leaves alone when it is none of genARPDiscovery's and moves *)
(* no question or answer.                                                  *)
LEMMA ArpOtherStep ==
    ASSUME ArpConstants, ArpInv, Arp!TypeOK',
           UNCHANGED <<requests, answers, toTable, fromTable, state, questions>>
    PROVE  ArpInv'
  BY DEF ArpInv, AnswersCounted, Scanning, RoomInv, ScanIsAnswered, BetweenThem

LEMMA ArpInsertStep ==
    ASSUME ArpConstants, ArpInv, Arp!Insert, UNCHANGED <<requests, answers, Arp!sender, Arp!discovery, questions>>
    PROVE  ArpInv'
  <1>1. Arp!TypeOK BY DEF ArpInv
  <1>2. /\ Head(inserts) \in Arp!Addresses /\ inserts' \in Seq(Arp!Addresses)
        /\ Len(inserts') = Len(inserts) - 1
    BY <1>1, TailFacts DEF Arp!TypeOK, Arp!Insert
  <1>3. arpTable' \in [Arp!Octets -> Arp!Answers]
    BY <1>1, <1>2, ArpAddresses DEF Arp!TypeOK, Arp!Insert, Arp!Answers
  <1>4. Arp!TypeOK'
    BY <1>1, <1>2, <1>3, ArpLengths, ArpFacts DEF Arp!TypeOK, Arp!Insert, Arp!sender, Arp!discovery
  <1> QED BY <1>4, ArpOtherStep DEF Arp!Insert, Arp!discovery

LEMMA ArpAnswerStep ==
    ASSUME ArpConstants, ArpInv, Arp!Answer, UNCHANGED <<requests, answers, Arp!sender, Arp!discovery, questions>>
    PROVE  ArpInv'
  <1>1. Arp!TypeOK BY DEF ArpInv
  <1>2. /\ Head(toTable) \in Arp!Addresses /\ toTable' \in Seq(Arp!Addresses)
        /\ Len(toTable') = Len(toTable) - 1
    BY <1>1, TailFacts DEF Arp!TypeOK, Arp!Answer
  <1>3. arpTable[Arp!NextHop(Head(toTable)).octet] \in Arp!Answers
    BY <1>1, <1>2, ArpAddresses DEF Arp!TypeOK
  <1>4. /\ fromTable' \in Seq(Arp!Answers) /\ Len(fromTable') = Len(fromTable) + 1
        /\ Len(fromTable) < Depth
    BY <1>1, <1>3, AppendFacts DEF Arp!TypeOK, Arp!Answer
  <1>5. arpRequests' \in Seq(Arp!Addresses) /\ Len(arpRequests') <= ArpDepth
    <2>1. CASE arpTable[Arp!NextHop(Head(toTable)).octet] = None
      <3>1. Len(arpRequests) < ArpDepth /\ arpRequests' = Append(arpRequests, Head(toTable))
        BY <2>1 DEF Arp!Answer
      <3> QED BY <1>1, <1>2, <3>1, AppendFacts, ArpLengths, ArpFacts DEF Arp!TypeOK
    <2>2. CASE arpTable[Arp!NextHop(Head(toTable)).octet] # None
      <3>1. arpRequests' = arpRequests
        BY <2>2 DEF Arp!Answer
      <3> QED BY <1>1, <3>1 DEF Arp!TypeOK
    <2> QED BY <2>1, <2>2
  <1>6. UNCHANGED <<arpTable, inserts>>
    BY DEF Arp!Answer
  <1>7. Arp!TypeOK'
    BY <1>1, <1>2, <1>4, <1>5, <1>6, ArpLengths, ArpFacts
    DEF Arp!TypeOK, Arp!sender, Arp!discovery
  <1>8. AnswersCounted' /\ ScanIsAnswered'
    BY <1>1, <1>2, <1>4, <1>7, ArpLengths
    DEF ArpInv, AnswersCounted, Scanning, ScanIsAnswered, BetweenThem, Arp!discovery
  <1>9. RoomInv'
    BY <1>1, <1>2, <1>4, <1>7, ArpLengths
    DEF ArpInv, RoomInv, Arp!discovery
  <1> QED BY <1>7, <1>8, <1>9 DEF ArpInv

LEMMA ArpSenderStep ==
    ASSUME ArpConstants, ArpInv, Arp!Sender
    PROVE  ArpInv'
  <1>1. Arp!TypeOK BY DEF ArpInv
  <1>2. /\ arpRequests' \in Seq(Arp!Addresses) /\ Len(arpRequests') <= ArpDepth
        /\ arpReplies' \in 0 .. ArpDepth
        /\ sending' \in {"ARP_IDLE", "ARP_REPLY", "ARP_SENTRQ"}
    <2>1. CASE Arp!PickReply
      BY <1>1, <2>1, ArpFacts DEF Arp!TypeOK, Arp!PickReply
    <2>2. CASE Arp!PickRequest
      BY <1>1, <2>2, TailFacts, ArpLengths, ArpFacts DEF Arp!TypeOK, Arp!PickRequest
    <2>3. CASE Arp!Sent
      BY <1>1, <2>3 DEF Arp!TypeOK, Arp!Sent
    <2> QED BY <2>1, <2>2, <2>3 DEF Arp!Sender
  <1>3. Arp!TypeOK'
    BY <1>1, <1>2 DEF Arp!TypeOK, Arp!Sender, Arp!discovery
  <1> QED BY <1>3, ArpOtherStep DEF Arp!Sender, Arp!discovery

LEMMA ArpNetworkStep ==
    ASSUME ArpConstants, ArpInv, Arp!Network
    PROVE  ArpInv'
  <1>1. Arp!TypeOK BY DEF ArpInv
  <1>2. CASE Arp!ReceiveRequest
    <2>1. Arp!TypeOK'
      BY <1>1, <1>2, ArpFacts DEF Arp!TypeOK, Arp!ReceiveRequest, Arp!discovery
    <2> QED BY <1>2, <2>1, ArpOtherStep DEF Arp!ReceiveRequest, Arp!discovery
  <1>3. ASSUME NEW ip \in Hosts, Arp!ReceiveReply(ip) PROVE ArpInv'
    <2>1. ip \in Arp!Addresses
      BY ArpFacts
    <2>2. inserts' \in Seq(Arp!Addresses) /\ Len(inserts') <= ArpDepth
      BY <1>1, <1>3, <2>1, AppendFacts, ArpLengths, ArpFacts DEF Arp!TypeOK, Arp!ReceiveReply
    <2>3. Arp!TypeOK'
      BY <1>1, <1>3, <2>2 DEF Arp!TypeOK, Arp!ReceiveReply, Arp!sender, Arp!discovery
    <2> QED BY <1>3, <2>3, ArpOtherStep DEF Arp!ReceiveReply, Arp!discovery
  <1> QED BY <1>2, <1>3 DEF Arp!Network

LEMMA ArpAskStep ==
    ASSUME ArpConstants, ArpInv, NEW ip \in Asked, Arp!Ask(ip)
    PROVE  ArpInv'
  <1>1. Arp!TypeOK BY DEF ArpInv
  <1>2. ip \in Arp!Addresses /\ Arp!NextHop(ip) \in Arp!Addresses
    BY ArpFacts, ArpAddresses
  <1>3. /\ requests' \in Seq(Arp!Addresses) /\ Len(requests') = Len(requests) + 1
        /\ questions' \in Seq(Arp!Addresses) /\ Len(questions') = Len(questions) + 1
        /\ Len(requests) < PortDepth
    BY <1>1, <1>2, AppendFacts DEF Arp!TypeOK, Arp!Ask
  <1>4. UNCHANGED <<answers, toTable, fromTable, arpTable, inserts, arpRequests,
                    Arp!sender, Arp!discovery>>
    BY DEF Arp!Ask
  <1>5. Arp!TypeOK'
    BY <1>1, <1>3, <1>4, ArpLengths, ArpFacts DEF Arp!TypeOK, Arp!sender, Arp!discovery
  <1>6. AnswersCounted' /\ ScanIsAnswered'
    BY <1>1, <1>3, <1>4, <1>5, ArpLengths
    DEF ArpInv, AnswersCounted, Scanning, ScanIsAnswered, BetweenThem, Arp!discovery
  <1>7. RoomInv'
    BY <1>1, <1>3, <1>4, <1>5, ArpLengths
    DEF ArpInv, RoomInv, Arp!discovery
  <1> QED BY <1>5, <1>6, <1>7 DEF ArpInv

(* An answer is only there for a question: the scan's own is between the   *)
(* two processes.                                                          *)
LEMMA ArpReadStep ==
    ASSUME ArpConstants, ArpInv, Arp!ReadAnswer
    PROVE  ArpInv'
  <1>1. Arp!TypeOK BY DEF ArpInv
  <1>2. /\ answers' \in Seq(Arp!Answers) /\ Len(answers') = Len(answers) - 1
        /\ Len(answers) \in Nat \ {0}
    BY <1>1, TailFacts DEF Arp!TypeOK, Arp!ReadAnswer
  <1>3. Len(questions) # 0
    BY <1>1, <1>2, ArpLengths DEF ArpInv, AnswersCounted, Scanning, ScanIsAnswered, BetweenThem
  <1>4. questions # <<>>
    BY <1>3
  <1>5. questions' \in Seq(Arp!Addresses) /\ Len(questions') = Len(questions) - 1
    BY <1>1, <1>4, TailFacts DEF Arp!TypeOK, Arp!ReadAnswer
  <1>6. UNCHANGED <<requests, toTable, fromTable, arpTable, inserts, arpRequests,
                    Arp!sender, Arp!discovery>>
    BY DEF Arp!ReadAnswer
  <1>7. Arp!TypeOK'
    BY <1>1, <1>2, <1>5, <1>6, ArpLengths, ArpFacts DEF Arp!TypeOK, Arp!sender, Arp!discovery
  <1>8. AnswersCounted' /\ ScanIsAnswered'
    BY <1>1, <1>2, <1>5, <1>6, <1>7, ArpLengths
    DEF ArpInv, AnswersCounted, Scanning, ScanIsAnswered, BetweenThem, Arp!discovery
  <1>9. RoomInv'
    BY <1>1, <1>2, <1>5, <1>6, <1>7, ArpLengths
    DEF ArpInv, RoomInv, Arp!discovery
  <1> QED BY <1>7, <1>8, <1>9 DEF ArpInv

LEMMA ArpWriteScanStep ==
    ASSUME ArpConstants, ArpInv, Arp!WriteScan
    PROVE  ArpInv'
  <1>1. Arp!TypeOK' BY DEF ArpInv, Arp!TypeOK, Arp!WriteScan, Arp!sender
  <1> QED BY <1>1, ArpOtherStep DEF Arp!WriteScan
-----------------------------------------------------------------------------
(* The strengthened invariant.  The balance needs ScanIsAnswered: without  *)
(* it the inserter could read the scan's answer when it questions for nothing. *)
THEOREM ArpInvariance == ArpConstants => (Arp!Spec => []ArpInv)
  <1> SUFFICES ASSUME ArpConstants PROVE Arp!Spec => []ArpInv
    OBVIOUS
  <1>1. Arp!Init => ArpInv
    <2> SUFFICES ASSUME Arp!Init PROVE ArpInv
      OBVIOUS
    <2>1. /\ <<>> \in Seq(Arp!Addresses) /\ <<>> \in Seq(Arp!Answers) /\ Len(<<>>) = 0
      OBVIOUS
    <2>2. [o \in Arp!Octets |-> None] \in [Arp!Octets -> Arp!Answers]
      BY DEF Arp!Answers
    <2>3. 0 \in Arp!Octets /\ 0 \in 0 .. ArpDepth
      BY ArpFacts DEF Arp!Octets
    <2>4. Arp!TypeOK
      BY <2>1, <2>2, <2>3, ArpFacts DEF Arp!Init, Arp!TypeOK
    <2> QED
      BY <2>1, <2>4, ArpFacts
      DEF Arp!Init, ArpInv, AnswersCounted, Scanning, RoomInv, ScanIsAnswered, BetweenThem
  <1>2. ArpInv /\ [Arp!Next]_(Arp!vars) => ArpInv'
    <2> SUFFICES ASSUME ArpInv, [Arp!Next]_(Arp!vars) PROVE ArpInv'
      OBVIOUS
    <2>1. CASE UNCHANGED Arp!vars
      BY <2>1 DEF ArpInv, Arp!TypeOK, AnswersCounted, Scanning, RoomInv, ScanIsAnswered, BetweenThem,
                  Arp!vars, Arp!sender, Arp!discovery
    <2>2. CASE Arp!Discovery
      BY <2>2, ArpForwardRequestStep, ArpForwardAnswerStep, ArpSetupStep, ArpGenIpStep, ArpWaitResponseStep
      DEF Arp!Discovery
    <2>3. CASE Arp!ArpTable
      BY <2>3, ArpInsertStep, ArpAnswerStep DEF Arp!ArpTable
    <2>4. CASE Arp!AskSome
      BY <2>4, ArpAskStep DEF Arp!AskSome
    <2> QED
      BY <2>1, <2>2, <2>3, <2>4, ArpSenderStep, ArpNetworkStep, ArpReadStep, ArpWriteScanStep DEF Arp!Next
  <1> QED BY <1>1, <1>2, PTL DEF Arp!Spec

(* The FIFOs keep their types and depths.                                  *)
THEOREM ArpTypeCorrect == ArpConstants => (Arp!Spec => []Arp!TypeOK)
  <1> SUFFICES ASSUME ArpConstants PROVE Arp!Spec => []Arp!TypeOK
    OBVIOUS
  <1>1. ArpInv => Arp!TypeOK BY DEF ArpInv
  <1> QED BY <1>1, ArpInvariance, PTL

(* However scans interrupt, each question has exactly one answer to come.  *)
THEOREM QuestionsBalance == ArpConstants => (Arp!Spec => []AnswersCounted)
  <1> SUFFICES ASSUME ArpConstants PROVE Arp!Spec => []AnswersCounted
    OBVIOUS
  <1>1. ArpInv => AnswersCounted BY DEF ArpInv
  <1> QED BY <1>1, ArpInvariance, PTL

(* What is between genARPDiscovery and arp_table is bounded.               *)
THEOREM ArpRoom == ArpConstants => (Arp!Spec => []RoomInv)
  <1> SUFFICES ASSUME ArpConstants PROVE Arp!Spec => []RoomInv
    OBVIOUS
  <1>1. ArpInv => RoomInv BY DEF ArpInv
  <1> QED BY <1>1, ArpInvariance, PTL

(* The two FIFOs between them are never both full.                         *)
THEOREM ArpNeverStalls == ArpConstants => (Arp!Spec => []NoCircularWait)
  <1> SUFFICES ASSUME ArpConstants PROVE Arp!Spec => []NoCircularWait
    OBVIOUS
  <1>1. ArpInv => NoCircularWait
    BY ArpLengths, ArpFacts DEF ArpInv, RoomInv, NoCircularWait
  <1> QED BY <1>1, ArpInvariance, PTL
=============================================================================
