--------------------------- MODULE PortTableProofs ---------------------------
(***************************************************************************)
(* Why no segment gets the answer of another, for ports of any width and   *)
(* FIFOs of any depth.                                                     *)
(*                                                                         *)
(* The segments that wait for their check stand in one line.  Those in     *)
(* front have their answer in checkRsp; the next may be the one the output *)
(* multiplexer waits for; those behind it have an entry in pt_dstFifo, and *)
(* the last ones a request in checkReq (InLine).  The two FIFOs of the     *)
(* listening table, answers first and checks behind them, are the low      *)
(* ports of the middle part in the same order (Places), and what is no     *)
(* longer a question is an answer that fits (Fits).                        *)
(***************************************************************************)
EXTENDS PortTable, CommonLemmas, FiniteSetTheorems

Segment == [port : Ports, wasOpen : BOOLEAN]

TypeOK ==
    /\ listeningPortTable \in [Cells -> BOOLEAN]
    /\ freePortTable \in [Cells -> BOOLEAN] /\ cursor \in Cells
    /\ listenReq \in Seq(Ports) /\ listenRsp \in Seq(BOOLEAN)
    /\ releaseReq \in Seq(Ports) /\ freePort \in Seq(Ports)
    /\ checkReq \in Seq(Ports)
    /\ listenCheck \in Seq(Cells) /\ usedCheck \in Seq(Cells)
    /\ dstFifo \in Seq(BOOLEAN)
    /\ listenAnswer \in Seq(BOOLEAN) /\ usedAnswer \in Seq(BOOLEAN)
    /\ cmState \in {"READ_DST", "READ_LISTENING", "READ_USED"}
    /\ checkRsp \in Seq(BOOLEAN) /\ segments \in Seq(Segment)
    /\ connections \subseteq Ports

(* The segment whose answer is waited for, and where the parts end.        *)
Waiting  == IF cmState = "READ_DST" THEN 0 ELSE 1
Dispatched == Len(checkRsp) + Waiting + Len(dstFifo)

(* An answer fits a segment for a low port: the port is open if it says    *)
(* so, and it says so if the port was open before.                         *)
Fits(segment, answer, table) ==
    IsLow(segment.port) =>
        /\ answer => table[Cell(segment.port)]
        /\ segment.wasOpen => answer

WasOpenIsOpen ==
    \A i \in 1 .. Len(segments) :
        IsLow(segments[i].port) /\ segments[i].wasOpen
            => listeningPortTable[Cell(segments[i].port)]

AnswersFitSegments ==
    \A i \in 1 .. Len(checkRsp) : Fits(segments[i], checkRsp[i], listeningPortTable)

InLine ==
    /\ Len(segments) = Dispatched + Len(checkReq)
    /\ cmState = "READ_LISTENING" => IsLow(segments[Len(checkRsp) + 1].port)
    /\ cmState = "READ_USED" => ~IsLow(segments[Len(checkRsp) + 1].port)
    /\ \A j \in 1 .. Len(dstFifo) :
          dstFifo[j] <=> IsLow(segments[Len(checkRsp) + Waiting + j].port)
    /\ \A j \in 1 .. Len(checkReq) :
          byteSwap16(checkReq[j]) = segments[Dispatched + j].port

(* The n-th entry of the listening table's two FIFOs is about the segment  *)
(* f[n].                                                                   *)
Entries == Len(listenAnswer) + Len(listenCheck)

Rising(f, k) == \A m, n \in 1 .. k : m < n => f[m] < f[n]

LowOnes(f) ==
    /\ \A n \in 1 .. Entries :
          f[n] \in Len(checkRsp) + 1 .. Dispatched /\ IsLow(segments[f[n]].port)
    /\ \A i \in Len(checkRsp) + 1 .. Dispatched :
          IsLow(segments[i].port) => \E n \in 1 .. Entries : f[n] = i

Answered(f) ==
    \A n \in 1 .. Len(listenAnswer) :
        Fits(segments[f[n]], listenAnswer[n], listeningPortTable)

Asked(f) ==
    \A n \in 1 .. Len(listenCheck) :
        listenCheck[n] = Cell(segments[f[Len(listenAnswer) + n]].port)

Places(f) == Rising(f, Entries) /\ LowOnes(f) /\ Answered(f) /\ Asked(f)

InOrder == \E f \in [1 .. Entries -> 1 .. Len(segments)] : Places(f)

LineInv == WasOpenIsOpen /\ AnswersFitSegments /\ InLine /\ InOrder

IInv == TypeOK /\ LineInv /\ ChecksAreCounted
-----------------------------------------------------------------------------
(* Port numbers.                                                           *)
LEMMA HalfFacts ==
    /\ Half \in Nat \ {0} /\ 2 * Half = HostBytes * HostBytes
    /\ Half - 1 \in Cells /\ 0 \in Cells
    /\ \A p \in Ports : p \in Nat /\ Cell(p) \in Cells
    /\ \A c \in Cells : c \in Nat /\ Half + c \in Ports
  <1> USE HostBytesAssumption
  <1>1. PICK h \in Nat \ {0} : HostBytes = 2 * h
    <2>1. HostBytes = 2 * (HostBytes \div 2) + (HostBytes % 2) /\ HostBytes \div 2 \in Int
      BY ModFacts
    <2> QED BY <2>1
  <1>2. PICK n \in Nat \ {0} : n = h * HostBytes
    <2>1. h * HostBytes \in Nat /\ h * HostBytes >= 1
      BY <1>1
    <2> QED BY <2>1
  <1>3. HostBytes * HostBytes = 2 * n
    <2>1. HostBytes * HostBytes = (2 * h) * HostBytes
      BY <1>1
    <2>2. (2 * h) * HostBytes = 2 * (h * HostBytes)
      BY <1>1
    <2> QED BY <1>2, <2>1, <2>2
  <1>4. (2 * n) \div 2 = n
    OBVIOUS
  <1>5. Half = n
    BY <1>3, <1>4 DEF Half
  <1>6. \A p \in Nat : (p % n) \in 0 .. n - 1
    OBVIOUS
  <1> QED BY <1>2, <1>3, <1>5, <1>6 DEF Ports, Cells, Cell

(* To swap the bytes of a port twice gives the port.                       *)
LEMMA SwapFacts ==
    ASSUME NEW p \in Ports
    PROVE  byteSwap16(p) \in Ports /\ byteSwap16(byteSwap16(p)) = p
  <1> USE HostBytesAssumption
  <1> DEFINE B == HostBytes
  <1>1. p \in Nat /\ p < B * B
    BY HalfFacts DEF Ports
  <1>2. PICK q \in Int, r \in 0 .. B - 1 : p = B * q + r /\ r = (p % B) /\ q = p \div B
    <2>1. p \in Int /\ B \in Nat \ {0}
      BY <1>1
    <2>2. (p % B) \in 0 .. B - 1 /\ p = B * (p \div B) + (p % B) /\ p \div B \in Int
      BY <2>1, ModFacts
    <2> HIDE DEF B
    <2> QED BY <2>2
  <1>3. q \in 0 .. B - 1
    <2>1. ASSUME q >= B PROVE FALSE
      <3>1. B * q >= B * B
        BY <1>2, <2>1
      <3> QED BY <1>1, <1>2, <3>1
    <2>2. ASSUME q <= -1 PROVE FALSE
      <3>1. B * q <= B * (-1)
        BY <1>2, <2>2
      <3> QED BY <1>1, <1>2, <3>1
    <2> QED BY <1>2, <2>1, <2>2
  <1>4. PICK s \in Int : s = r * B + q /\ s = B * r + q /\ s = byteSwap16(p)
    BY <1>2, <1>3 DEF byteSwap16
  <1>5. (s % B) = q /\ s \div B = r
    BY <1>3, <1>4, ModIs
  <1>6. byteSwap16(s) = p
    <2>1. byteSwap16(s) = q * B + r
      BY <1>5 DEF byteSwap16
    <2>2. q * B = B * q
      BY <1>2
    <2> QED BY <1>2, <2>1, <2>2
  <1>7. s \in 0 .. B * B - 1
    <2>1. B * r >= 0 /\ B * r <= B * (B - 1)
      BY <1>2
    <2>2. B * (B - 1) = B * B - B
      OBVIOUS
    <2> QED BY <1>3, <1>4, <2>1, <2>2
  <1>8. Ports = 0 .. B * B - 1
    BY HalfFacts DEF Ports
  <1> QED BY <1>4, <1>6, <1>7, <1>8
-----------------------------------------------------------------------------
(* How many entries of a FIFO of flags are b.                              *)
Flagged(f, b) == {j \in DOMAIN f : f[j] = b}

LEMMA FlaggedAppend ==
    ASSUME NEW f \in Seq(BOOLEAN), NEW b \in BOOLEAN, NEW e \in BOOLEAN
    PROVE  /\ Cardinality(Flagged(f, b)) \in Nat
           /\ Cardinality(Flagged(Append(f, e), b))
                = Cardinality(Flagged(f, b)) + (IF e = b THEN 1 ELSE 0)
  <1>1. DOMAIN f = 1 .. Len(f) /\ Len(f) \in Nat
    OBVIOUS
  <1>2. IsFiniteSet(Flagged(f, b)) /\ Cardinality(Flagged(f, b)) \in Nat
    <2>1. IsFiniteSet(1 .. Len(f))
      BY <1>1, FS_Interval
    <2>2. Flagged(f, b) \in SUBSET (1 .. Len(f))
      BY <1>1 DEF Flagged
    <2> QED BY <2>1, <2>2, FS_Subset, FS_CardinalityType
  <1>3. PICK g \in Seq(BOOLEAN) : g = Append(f, e) /\ Len(g) = Len(f) + 1
                 /\ (\A i \in 1 .. Len(f) : g[i] = f[i]) /\ g[Len(f) + 1] = e
    BY AppendFacts
  <1>4. DOMAIN g = 1 .. Len(f) + 1
    BY <1>1, <1>3
  <1>5. CASE e = b
    <2>1. Flagged(g, b) = Flagged(f, b) \cup {Len(f) + 1} /\ Len(f) + 1 \notin Flagged(f, b)
      BY <1>1, <1>3, <1>4, <1>5 DEF Flagged
    <2> QED BY <1>2, <1>3, <1>5, <2>1, FS_AddElement
  <1>6. CASE e # b
    <2>1. Flagged(g, b) = Flagged(f, b)
      BY <1>1, <1>3, <1>4, <1>6 DEF Flagged
    <2> QED BY <1>2, <1>3, <1>6, <2>1
  <1> QED BY <1>5, <1>6

LEMMA FlaggedTail ==
    ASSUME NEW f \in Seq(BOOLEAN), NEW b \in BOOLEAN, f # <<>>
    PROVE  /\ Cardinality(Flagged(Tail(f), b)) \in Nat
           /\ Cardinality(Flagged(f, b))
                = Cardinality(Flagged(Tail(f), b)) + (IF Head(f) = b THEN 1 ELSE 0)
  <1>1. PICK g \in Seq(BOOLEAN) : g = Tail(f) /\ Len(g) = Len(f) - 1
                 /\ (\A i \in 1 .. Len(f) - 1 : g[i] = f[i + 1])
                 /\ Len(f) \in Nat \ {0} /\ Head(f) = f[1]
    BY TailFacts
  <1>2. DOMAIN f = 1 .. Len(f) /\ DOMAIN g = 1 .. Len(f) - 1
    BY <1>1
  <1> DEFINE T == Flagged(f, b) \ {1}
             shift == [j \in Flagged(g, b) |-> j + 1]
  <1>3. IsFiniteSet(Flagged(f, b)) /\ IsFiniteSet(Flagged(g, b))
    <2>1. IsFiniteSet(1 .. Len(f)) /\ IsFiniteSet(1 .. Len(f) - 1)
      BY <1>1, FS_Interval
    <2>2. Flagged(f, b) \in SUBSET (1 .. Len(f)) /\ Flagged(g, b) \in SUBSET (1 .. Len(f) - 1)
      BY <1>2 DEF Flagged
    <2> QED BY <2>1, <2>2, FS_Subset
  <1>4. /\ IsFiniteSet(T)
        /\ Cardinality(T) = IF 1 \in Flagged(f, b) THEN Cardinality(Flagged(f, b)) - 1
                                                   ELSE Cardinality(Flagged(f, b))
    BY <1>3, FS_RemoveElement
  <1>5. shift \in Bijection(Flagged(g, b), T)
    <2>1. \A j \in Flagged(g, b) : j \in Nat /\ j + 1 \in T
      BY <1>1, <1>2 DEF Flagged
    <2>2. \A i \in T : i - 1 \in Flagged(g, b) /\ i = (i - 1) + 1
      BY <1>1, <1>2 DEF Flagged
    <2>3. shift \in [Flagged(g, b) -> T]
      BY <2>1
    <2>4. \A i, j \in Flagged(g, b) : shift[i] = shift[j] => i = j
      BY <2>1
    <2>5. \A i \in T : \E j \in Flagged(g, b) : shift[j] = i
      BY <2>2
    <2> HIDE DEF shift, T
    <2> QED BY <2>3, <2>4, <2>5 DEF Bijection, Injection, Surjection, IsInjective
  <1>6. Cardinality(T) = Cardinality(Flagged(g, b))
    BY <1>3, <1>5, FS_Bijection DEF ExistsBijection
  <1>7. Cardinality(Flagged(g, b)) \in Nat /\ Cardinality(Flagged(f, b)) \in Nat
    BY <1>3, FS_CardinalityType
  <1>8. 1 \in Flagged(f, b) <=> Head(f) = b
    BY <1>1, <1>2 DEF Flagged
  <1> HIDE DEF T
  <1> QED BY <1>1, <1>4, <1>6, <1>7, <1>8
-----------------------------------------------------------------------------
(* What the FIFOs hold.                                                    *)
LEMMA TypeStep == TypeOK /\ [Next]_vars => TypeOK'
  <1> SUFFICES ASSUME TypeOK, [Next]_vars PROVE TypeOK'
    OBVIOUS
  <1> USE DEF TypeOK
  <1>1. CASE Listen
    <2>1. listenReq # <<>>
      BY <1>1 DEF Listen
    <2>2. Head(listenReq) \in Ports /\ Tail(listenReq) \in Seq(Ports)
      BY <2>1, TailFacts
    <2>3. PICK p \in Ports : p = Head(listenReq)
      BY <2>2
    <2>4. PICK o \in BOOLEAN : o = (IsLow(p) /\ ~listeningPortTable[Cell(p)])
      OBVIOUS
    <2>5. /\ listeningPortTable' = [listeningPortTable EXCEPT ![Cell(p)] = @ \/ o]
          /\ listenRsp' = Append(listenRsp, o) /\ listenReq' = Tail(listenReq)
          /\ UNCHANGED <<freePortTable, cursor, checks, releaseReq, freePort, connections>>
      BY <1>1, <2>3, <2>4, Zenon DEF Listen
    <2>6. listeningPortTable' \in [Cells -> BOOLEAN]
      BY <2>5
    <2>7. listenRsp' \in Seq(BOOLEAN)
      BY <2>5, AppendFacts
    <2> QED BY <2>2, <2>5, <2>6, <2>7 DEF checks
  <1>2. CASE CheckListening
    <2>1. Head(listenCheck) \in Cells /\ Tail(listenCheck) \in Seq(Cells)
      BY <1>2, TailFacts DEF CheckListening
    <2>2. Append(listenAnswer, listeningPortTable[Head(listenCheck)]) \in Seq(BOOLEAN)
      BY <2>1, AppendFacts
    <2>3. listenAnswer' \in Seq(BOOLEAN) /\ listenCheck' \in Seq(Cells)
      BY <1>2, <2>1, <2>2 DEF CheckListening
    <2>4. UNCHANGED <<tables, calls, checkReq, usedCheck, dstFifo, usedAnswer, cmState,
                      checkRsp, segments>>
      BY <1>2 DEF CheckListening
    <2> QED BY <2>3, <2>4 DEF tables, calls
  <1>3. (cursor + 1) % Half \in Cells
    <2>1. cursor + 1 \in Int /\ Half \in Nat \ {0}
      <3>1. cursor \in Cells
        OBVIOUS
      <3>2. cursor \in Nat /\ Half \in Nat \ {0}
        BY <3>1, HalfFacts
      <3> HIDE DEF TypeOK
      <3> QED BY <3>2
    <2>2. (cursor + 1) % Half \in 0 .. Half - 1
      BY <2>1, ModFacts
    <2> QED BY <2>2 DEF Cells
  <1>4. CASE ReleasePort
    <2>1. Tail(releaseReq) \in Seq(Ports)
      BY <1>4, TailFacts DEF ReleasePort
    <2>2. freePortTable' \in [Cells -> BOOLEAN]
      BY <1>4 DEF ReleasePort
    <2> QED BY <1>3, <1>4, <2>1, <2>2 DEF ReleasePort, MoveCursor, checks
  <1>5. CASE CheckUsed
    <2>1. Head(usedCheck) \in Cells /\ Tail(usedCheck) \in Seq(Cells)
      BY <1>5, TailFacts DEF CheckUsed
    <2>2. Append(usedAnswer, freePortTable[Head(usedCheck)]) \in Seq(BOOLEAN)
      BY <2>1, AppendFacts
    <2> QED BY <1>3, <1>5, <2>1, <2>2 DEF CheckUsed, MoveCursor, calls
  <1>6. CASE SearchFreePort
    <2>1. Append(freePort, Half + cursor) \in Seq(Ports)
      BY HalfFacts, AppendFacts
    <2>2. freePortTable' \in [Cells -> BOOLEAN] /\ freePort' \in Seq(Ports)
      BY <1>6, <2>1 DEF SearchFreePort
    <2> QED BY <1>3, <1>6, <2>2 DEF SearchFreePort, MoveCursor, checks
  <1>7. CASE CheckIn
    <2>1. Head(checkReq) \in Ports /\ Tail(checkReq) \in Seq(Ports)
      BY <1>7, TailFacts DEF CheckIn
    <2>2. PICK p \in Ports : p = byteSwap16(Head(checkReq))
      BY <2>1, SwapFacts
    <2>3. Cell(p) \in Cells /\ IsLow(p) \in BOOLEAN
      BY HalfFacts DEF IsLow
    <2>4. /\ Append(dstFifo, IsLow(p)) \in Seq(BOOLEAN)
          /\ Append(listenCheck, Cell(p)) \in Seq(Cells)
          /\ Append(usedCheck, Cell(p)) \in Seq(Cells)
      BY <2>3, AppendFacts
    <2>5. /\ checkReq' = Tail(checkReq) /\ dstFifo' = Append(dstFifo, IsLow(p))
          /\ listenCheck' = Append(listenCheck, Cell(p)) \/ UNCHANGED listenCheck
          /\ usedCheck' = Append(usedCheck, Cell(p)) \/ UNCHANGED usedCheck
          /\ UNCHANGED <<tables, calls, listenAnswer, usedAnswer, cmState, checkRsp, segments>>
      BY <1>7, <2>2, Zenon DEF CheckIn
    <2> QED BY <2>1, <2>4, <2>5 DEF tables, calls
  <1>8. CASE ReadDst
    <2>1. Tail(dstFifo) \in Seq(BOOLEAN)
      BY <1>8, TailFacts DEF ReadDst
    <2> QED BY <1>8, <2>1 DEF ReadDst, tables, calls
  <1>9. CASE ReadListening
    <2>1. Head(listenAnswer) \in BOOLEAN /\ Tail(listenAnswer) \in Seq(BOOLEAN)
      BY <1>9, TailFacts DEF ReadListening
    <2>2. Append(checkRsp, Head(listenAnswer)) \in Seq(BOOLEAN)
      BY <2>1, AppendFacts
    <2> QED BY <1>9, <2>1, <2>2 DEF ReadListening, tables, calls
  <1>10. CASE ReadUsed
    <2>1. Head(usedAnswer) \in BOOLEAN /\ Tail(usedAnswer) \in Seq(BOOLEAN)
      BY <1>10, TailFacts DEF ReadUsed
    <2>2. Append(checkRsp, Head(usedAnswer)) \in Seq(BOOLEAN)
      BY <2>1, AppendFacts
    <2> QED BY <1>10, <2>1, <2>2 DEF ReadUsed, tables, calls
  <1>11. ASSUME NEW p \in Addressed, SegmentArrives(p) PROVE TypeOK'
    <2>1. p \in Ports /\ byteSwap16(p) \in Ports /\ IsOpen(p) \in BOOLEAN
      BY RequestedAssumption, SwapFacts, HalfFacts DEF IsOpen
    <2>2. [port |-> p, wasOpen |-> IsOpen(p)] \in Segment
      BY <2>1 DEF Segment
    <2>3. /\ Append(checkReq, byteSwap16(p)) \in Seq(Ports)
          /\ Append(segments, [port |-> p, wasOpen |-> IsOpen(p)]) \in Seq(Segment)
      BY <2>1, <2>2, AppendFacts
    <2> QED BY <1>11, <2>3 DEF SegmentArrives, tables, calls
  <1>12. CASE SegmentChecked
    <2>1. Tail(checkRsp) \in Seq(BOOLEAN)
      BY <1>12, TailFacts DEF SegmentChecked
    <2>2. Head(segments) \in Segment /\ Tail(segments) \in Seq(Segment)
      BY <1>12, TailFacts DEF SegmentChecked
    <2>3. Head(segments).port \in Ports
      BY <2>2 DEF Segment
    <2>4. connections' \subseteq Ports
      BY <1>12, <2>3 DEF SegmentChecked
    <2> QED BY <1>12, <2>1, <2>2, <2>4 DEF SegmentChecked, tables
  <1>13. ASSUME NEW p \in Requested, ListenCall(p) PROVE TypeOK'
    <2>1. Append(listenReq, p) \in Seq(Ports)
      BY RequestedAssumption, AppendFacts
    <2> QED BY <1>13, <2>1 DEF ListenCall, tables, checks
  <1>14. CASE ListenReturns
    <2>1. Tail(listenRsp) \in Seq(BOOLEAN)
      BY <1>14, TailFacts DEF ListenReturns
    <2> QED BY <1>14, <2>1 DEF ListenReturns, tables, checks
  <1>15. CASE OpenConnection
    <2>1. Head(freePort) \in Ports /\ Tail(freePort) \in Seq(Ports)
      BY <1>15, TailFacts DEF OpenConnection
    <2> QED BY <1>15, <2>1 DEF OpenConnection, tables, checks
  <1>16. ASSUME NEW p \in Ports, EndConnection(p) PROVE TypeOK'
    <2>1. Append(releaseReq, byteSwap16(p)) \in Seq(Ports)
      BY SwapFacts, AppendFacts
    <2> QED BY <1>16, <2>1 DEF EndConnection, tables, checks
  <1>17. CASE UNCHANGED vars
    BY <1>17 DEF vars, tables, checks, calls
  <1> QED
    BY <1>1, <1>2, <1>4, <1>5, <1>6, <1>7, <1>8, <1>9, <1>10, <1>11, <1>12, <1>13,
       <1>14, <1>15, <1>16, <1>17, Zenon
       DEF Next, Arrival, ListeningPortTable, FreePortTable, CheckOut
-----------------------------------------------------------------------------
(* Each check and each answer is counted once.                             *)
Low  == Cardinality(Flagged(dstFifo, TRUE))
High == Cardinality(Flagged(dstFifo, FALSE))

WaitsFor(state) == IF cmState = state THEN 1 ELSE 0

Counted ==
    /\ Len(segments) = Dispatched + Len(checkReq)
    /\ Low + WaitsFor("READ_LISTENING") = Entries
    /\ High + WaitsFor("READ_USED") = Len(usedCheck) + Len(usedAnswer)

LEMMA CountedIs == TypeOK => (ChecksAreCounted <=> Counted)
  <1> SUFFICES ASSUME TypeOK PROVE ChecksAreCounted <=> Counted
    OBVIOUS
  <1>1. \A j \in DOMAIN dstFifo : dstFifo[j] \in BOOLEAN
    BY DEF TypeOK
  <1>2. /\ {j \in DOMAIN dstFifo : dstFifo[j]} = Flagged(dstFifo, TRUE)
        /\ {j \in DOMAIN dstFifo : ~dstFifo[j]} = Flagged(dstFifo, FALSE)
    BY <1>1 DEF Flagged
  <1>3. /\ Cardinality({j \in DOMAIN dstFifo : dstFifo[j]}) = Low
        /\ Cardinality({j \in DOMAIN dstFifo : ~dstFifo[j]}) = High
    BY <1>2 DEF Low, High
  <1>4. /\ Len(segments) \in Nat /\ Len(checkReq) \in Nat /\ Len(dstFifo) \in Nat
        /\ Len(checkRsp) \in Nat /\ Len(listenCheck) \in Nat /\ Len(listenAnswer) \in Nat
    BY DEF TypeOK
  <1>5. Low + (IF cmState = "READ_LISTENING" THEN 1 ELSE 0) = Entries
          <=> Low + (IF cmState = "READ_LISTENING" THEN 1 ELSE 0)
                = Len(listenCheck) + Len(listenAnswer)
    BY <1>4 DEF Entries
  <1>6. Len(segments) = Dispatched + Len(checkReq)
          <=> Len(segments) = Len(checkReq) + Len(dstFifo) + Len(checkRsp)
                       + (IF cmState = "READ_DST" THEN 0 ELSE 1)
    BY <1>4 DEF Dispatched, Waiting
  <1> QED BY <1>3, <1>5, <1>6 DEF ChecksAreCounted, Counted, WaitsFor

LEMMA CountStep == TypeOK /\ Counted /\ [Next]_vars => Counted'
  <1> SUFFICES ASSUME TypeOK, Counted, [Next]_vars PROVE Counted'
    OBVIOUS
  <1>0. /\ Len(segments) \in Nat /\ Len(checkReq) \in Nat /\ Len(dstFifo) \in Nat
        /\ Len(checkRsp) \in Nat /\ Len(listenCheck) \in Nat /\ Len(listenAnswer) \in Nat
        /\ Len(usedCheck) \in Nat /\ Len(usedAnswer) \in Nat
        /\ Low \in Nat /\ High \in Nat
    <2>1. \A b \in BOOLEAN : Cardinality(Flagged(dstFifo, b)) \in Nat
      <3>1. dstFifo \in Seq(BOOLEAN) /\ TRUE \in BOOLEAN
        BY DEF TypeOK
      <3> QED BY <3>1, FlaggedAppend
    <2>2. Low \in Nat /\ High \in Nat
      BY <2>1 DEF Low, High
    <2> QED BY <2>2 DEF TypeOK
  <1>00. /\ Waiting \in {0, 1} /\ Waiting' \in {0, 1}
         /\ WaitsFor("READ_LISTENING") \in {0, 1} /\ WaitsFor("READ_LISTENING")' \in {0, 1}
         /\ WaitsFor("READ_USED") \in {0, 1} /\ WaitsFor("READ_USED")' \in {0, 1}
         /\ UNCHANGED cmState => UNCHANGED Waiting
         /\ UNCHANGED cmState => UNCHANGED <<WaitsFor("READ_LISTENING"), WaitsFor("READ_USED")>>
         /\ UNCHANGED dstFifo => UNCHANGED <<Low, High>>
    BY DEF Waiting, WaitsFor, Low, High
  <1> USE DEF Counted, Dispatched, Entries
  <1>1. CASE CheckListening
    <2>1. Len(Tail(listenCheck)) = Len(listenCheck) - 1
      BY <1>1, TailFacts DEF CheckListening, TypeOK
    <2>2. \A e : Len(Append(listenAnswer, e)) = Len(listenAnswer) + 1
      BY DEF TypeOK
    <2>3. Len(listenCheck') = Len(listenCheck) - 1 /\ Len(listenAnswer') = Len(listenAnswer) + 1
      BY <1>1, <2>1, <2>2 DEF CheckListening
    <2> QED BY <1>0, <1>00, <1>1, <2>3 DEF CheckListening
  <1>2. CASE CheckUsed
    <2>1. Len(Tail(usedCheck)) = Len(usedCheck) - 1
      BY <1>2, TailFacts DEF CheckUsed, TypeOK
    <2>2. \A e : Len(Append(usedAnswer, e)) = Len(usedAnswer) + 1
      BY DEF TypeOK
    <2>3. Len(usedCheck') = Len(usedCheck) - 1 /\ Len(usedAnswer') = Len(usedAnswer) + 1
      BY <1>2, <2>1, <2>2 DEF CheckUsed
    <2> QED BY <1>0, <1>00, <1>2, <2>3 DEF CheckUsed
  <1>3. CASE CheckIn
    <2>1. Head(checkReq) \in Ports /\ Len(Tail(checkReq)) = Len(checkReq) - 1
      BY <1>3, TailFacts DEF CheckIn, TypeOK
    <2>2. PICK p \in Ports : p = byteSwap16(Head(checkReq))
      BY <2>1, SwapFacts
    <2>3. PICK o \in BOOLEAN : o = IsLow(p)
      <3>1. IsLow(p) \in BOOLEAN
        BY DEF IsLow
      <3> QED BY <3>1
    <2>4. /\ checkReq' = Tail(checkReq) /\ dstFifo' = Append(dstFifo, o)
          /\ o => listenCheck' = Append(listenCheck, Cell(p)) /\ UNCHANGED usedCheck
          /\ ~o => usedCheck' = Append(usedCheck, Cell(p)) /\ UNCHANGED listenCheck
          /\ UNCHANGED <<listenAnswer, usedAnswer, cmState, checkRsp, segments>>
      BY <1>3, <2>2, <2>3, Zenon DEF CheckIn
    <2>5. /\ \A e : Len(Append(listenCheck, e)) = Len(listenCheck) + 1
          /\ \A e : Len(Append(usedCheck, e)) = Len(usedCheck) + 1
          /\ Len(Append(dstFifo, o)) = Len(dstFifo) + 1
      BY DEF TypeOK
    <2>6. Low' = Low + (IF o THEN 1 ELSE 0) /\ High' = High + (IF o THEN 0 ELSE 1)
      <3>1. /\ Cardinality(Flagged(Append(dstFifo, o), TRUE)) = Low + (IF o = TRUE THEN 1 ELSE 0)
            /\ Cardinality(Flagged(Append(dstFifo, o), FALSE)) = High + (IF o = FALSE THEN 1 ELSE 0)
        BY FlaggedAppend DEF Low, High, TypeOK
      <3> QED BY <2>4, <3>1 DEF Low, High
    <2>7. /\ Len(checkReq') = Len(checkReq) - 1 /\ Len(dstFifo') = Len(dstFifo) + 1
          /\ Len(listenCheck') = Len(listenCheck) + (IF o THEN 1 ELSE 0)
          /\ Len(usedCheck') = Len(usedCheck) + (IF o THEN 0 ELSE 1)
      BY SMTT(60), <1>0, <2>1, <2>4, <2>5
    <2>8. /\ UNCHANGED <<Waiting, WaitsFor("READ_LISTENING"), WaitsFor("READ_USED")>>
          /\ Len(segments') = Len(segments) /\ Len(checkRsp') = Len(checkRsp)
          /\ Len(listenAnswer') = Len(listenAnswer) /\ Len(usedAnswer') = Len(usedAnswer)
      BY <1>00, <2>4
    <2>9. CASE o
      <3>1. /\ Low' = Low + 1 /\ High' = High
            /\ Len(checkReq') = Len(checkReq) - 1 /\ Len(dstFifo') = Len(dstFifo) + 1
            /\ Len(listenCheck') = Len(listenCheck) + 1 /\ Len(usedCheck') = Len(usedCheck)
        BY <1>0, <2>6, <2>7, <2>9
      <3>2. Len(segments') = Dispatched' + Len(checkReq')
        BY <1>0, <1>00, <2>8, <3>1
      <3>3. Low' + WaitsFor("READ_LISTENING")' = Entries'
        <4>1. Entries' = Len(listenCheck') + Len(listenAnswer)
          BY <2>8
        <4>2. WaitsFor("READ_LISTENING")' = WaitsFor("READ_LISTENING")
          BY <2>8
        <4>3. Low + WaitsFor("READ_LISTENING") = Len(listenCheck) + Len(listenAnswer)
          OBVIOUS
        <4> HIDE DEF Counted, Dispatched, Entries
        <4> QED BY SMTT(60), <1>0, <1>00, <3>1, <4>1, <4>2, <4>3
      <3>4. High' + WaitsFor("READ_USED")' = Len(usedCheck') + Len(usedAnswer')
        BY <1>0, <1>00, <2>8, <3>1
      <3> QED BY <3>2, <3>3, <3>4
    <2>10. CASE ~o
      <3>1. /\ Low' = Low /\ High' = High + 1
            /\ Len(checkReq') = Len(checkReq) - 1 /\ Len(dstFifo') = Len(dstFifo) + 1
            /\ Len(listenCheck') = Len(listenCheck) /\ Len(usedCheck') = Len(usedCheck) + 1
        BY <1>0, <2>6, <2>7, <2>10
      <3>2. Len(segments') = Dispatched' + Len(checkReq')
        BY <1>0, <1>00, <2>8, <3>1
      <3>3. Low' + WaitsFor("READ_LISTENING")' = Entries'
        BY <1>0, <1>00, <2>8, <3>1
      <3>4. High' + WaitsFor("READ_USED")' = Len(usedCheck') + Len(usedAnswer')
        BY SMTT(60), <1>0, <1>00, <2>8, <3>1
      <3> QED BY <3>2, <3>3, <3>4
    <2> QED BY <2>9, <2>10
  <1>4. CASE ReadDst
    <2>1. Len(Tail(dstFifo)) = Len(dstFifo) - 1 /\ Head(dstFifo) \in BOOLEAN
      BY <1>4, TailFacts DEF ReadDst, TypeOK
    <2>2. PICK o \in BOOLEAN : o = Head(dstFifo)
      BY <2>1
    <2>3. /\ cmState = "READ_DST" /\ dstFifo' = Tail(dstFifo)
          /\ cmState' = IF o THEN "READ_LISTENING" ELSE "READ_USED"
          /\ UNCHANGED <<checkReq, listenCheck, usedCheck, listenAnswer, usedAnswer,
                         checkRsp, segments>>
      BY <1>4, <2>2 DEF ReadDst
    <2>4. /\ Low = Low' + (IF o THEN 1 ELSE 0) /\ High = High' + (IF o THEN 0 ELSE 1)
          /\ Low' \in Nat /\ High' \in Nat
      <3>1. /\ Low = Cardinality(Flagged(Tail(dstFifo), TRUE)) + (IF o = TRUE THEN 1 ELSE 0)
            /\ High = Cardinality(Flagged(Tail(dstFifo), FALSE)) + (IF o = FALSE THEN 1 ELSE 0)
            /\ Cardinality(Flagged(Tail(dstFifo), TRUE)) \in Nat
            /\ Cardinality(Flagged(Tail(dstFifo), FALSE)) \in Nat
        BY <1>4, <2>2, FlaggedTail DEF Low, High, TypeOK, ReadDst
      <3> QED BY <2>3, <3>1 DEF Low, High
    <2>5. /\ Waiting = 0 /\ Waiting' = 1
          /\ WaitsFor("READ_LISTENING") = 0 /\ WaitsFor("READ_USED") = 0
          /\ WaitsFor("READ_LISTENING")' = IF o THEN 1 ELSE 0
          /\ WaitsFor("READ_USED")' = IF o THEN 0 ELSE 1
      BY <2>3 DEF Waiting, WaitsFor
    <2>6. /\ Len(dstFifo') = Len(dstFifo) - 1
          /\ Len(segments') = Len(segments) /\ Len(checkRsp') = Len(checkRsp)
          /\ Len(checkReq') = Len(checkReq)
          /\ Len(listenAnswer') = Len(listenAnswer) /\ Len(usedAnswer') = Len(usedAnswer)
          /\ Len(listenCheck') = Len(listenCheck) /\ Len(usedCheck') = Len(usedCheck)
      BY <2>1, <2>3
    <2>7. CASE o
      BY SMTT(60), <1>0, <2>4, <2>5, <2>6, <2>7
    <2>8. CASE ~o
      BY <1>0, <2>4, <2>5, <2>6, <2>8
    <2> QED BY <2>7, <2>8
  <1>5. CASE ReadListening
    <2>1. Len(Tail(listenAnswer)) = Len(listenAnswer) - 1
      BY <1>5, TailFacts DEF ReadListening, TypeOK
    <2>2. \A e : Len(Append(checkRsp, e)) = Len(checkRsp) + 1
      BY DEF TypeOK
    <2>3. Len(listenAnswer') = Len(listenAnswer) - 1 /\ Len(checkRsp') = Len(checkRsp) + 1
      BY <1>5, <2>1, <2>2 DEF ReadListening
    <2>4. /\ Waiting = 1 /\ Waiting' = 0
          /\ WaitsFor("READ_LISTENING") = 1 /\ WaitsFor("READ_LISTENING")' = 0
          /\ WaitsFor("READ_USED") = 0 /\ WaitsFor("READ_USED")' = 0
      BY <1>5 DEF ReadListening, Reads, Waiting, WaitsFor
    <2>5. /\ UNCHANGED <<Low, High>>
          /\ Len(segments') = Len(segments) /\ Len(checkReq') = Len(checkReq)
          /\ Len(dstFifo') = Len(dstFifo) /\ Len(listenCheck') = Len(listenCheck)
          /\ Len(usedCheck') = Len(usedCheck) /\ Len(usedAnswer') = Len(usedAnswer)
      BY <1>5, <1>00 DEF ReadListening
    <2>6. Len(segments') = Dispatched' + Len(checkReq')
      BY <1>0, <2>3, <2>4, <2>5
    <2>7. Low' + WaitsFor("READ_LISTENING")' = Entries'
      BY SMTT(60), <1>0, <2>3, <2>4, <2>5
    <2>8. High' + WaitsFor("READ_USED")' = Len(usedCheck') + Len(usedAnswer')
      BY <1>0, <2>3, <2>4, <2>5
    <2> QED BY <2>6, <2>7, <2>8
  <1>6. CASE ReadUsed
    <2>1. Len(Tail(usedAnswer)) = Len(usedAnswer) - 1
      BY <1>6, TailFacts DEF ReadUsed, TypeOK
    <2>2. \A e : Len(Append(checkRsp, e)) = Len(checkRsp) + 1
      BY DEF TypeOK
    <2>3. Len(usedAnswer') = Len(usedAnswer) - 1 /\ Len(checkRsp') = Len(checkRsp) + 1
      BY <1>6, <2>1, <2>2 DEF ReadUsed
    <2>4. /\ Waiting = 1 /\ Waiting' = 0
          /\ WaitsFor("READ_USED") = 1 /\ WaitsFor("READ_USED")' = 0
          /\ WaitsFor("READ_LISTENING") = 0 /\ WaitsFor("READ_LISTENING")' = 0
      BY <1>6 DEF ReadUsed, Reads, Waiting, WaitsFor
    <2>5. /\ UNCHANGED <<Low, High>>
          /\ Len(segments') = Len(segments) /\ Len(checkReq') = Len(checkReq)
          /\ Len(dstFifo') = Len(dstFifo) /\ Len(usedCheck') = Len(usedCheck)
          /\ Len(listenCheck') = Len(listenCheck) /\ Len(listenAnswer') = Len(listenAnswer)
      BY <1>6, <1>00 DEF ReadUsed
    <2>6. Len(segments') = Dispatched' + Len(checkReq')
      BY <1>0, <2>3, <2>4, <2>5
    <2>7. Low' + WaitsFor("READ_LISTENING")' = Entries'
      BY <1>0, <2>3, <2>4, <2>5
    <2>8. High' + WaitsFor("READ_USED")' = Len(usedCheck') + Len(usedAnswer')
      BY SMTT(60), <1>0, <2>3, <2>4, <2>5
    <2> QED BY <2>6, <2>7, <2>8
  <1>7. ASSUME NEW p \in Addressed, SegmentArrives(p) PROVE Counted'
    <2>1. \A S : \A f \in Seq(S) : \A e : Len(Append(f, e)) = Len(f) + 1
      OBVIOUS
    <2>2. Len(checkReq') = Len(checkReq) + 1 /\ Len(segments') = Len(segments) + 1
      BY <1>7, <2>1 DEF SegmentArrives, TypeOK
    <2> QED BY <1>0, <1>00, <1>7, <2>2 DEF SegmentArrives
  <1>8. CASE SegmentChecked
    <2>1. Len(Tail(checkRsp)) = Len(checkRsp) - 1 /\ Len(Tail(segments)) = Len(segments) - 1
      BY <1>8, TailFacts DEF SegmentChecked, TypeOK
    <2>2. Len(checkRsp') = Len(checkRsp) - 1 /\ Len(segments') = Len(segments) - 1
      BY <1>8, <2>1 DEF SegmentChecked
    <2>3. /\ UNCHANGED <<Low, High, Waiting, WaitsFor("READ_LISTENING"), WaitsFor("READ_USED")>>
          /\ Len(checkReq') = Len(checkReq) /\ Len(dstFifo') = Len(dstFifo)
          /\ Len(listenAnswer') = Len(listenAnswer) /\ Len(usedAnswer') = Len(usedAnswer)
          /\ Len(listenCheck') = Len(listenCheck) /\ Len(usedCheck') = Len(usedCheck)
      BY <1>8, <1>00 DEF SegmentChecked
    <2> QED BY <1>0, <1>00, <2>2, <2>3
  <1>9. ASSUME UNCHANGED checks PROVE Counted'
    BY <1>9 DEF checks, Low, High, Waiting, WaitsFor
  <1>10. Listen \/ ReleasePort \/ SearchFreePort \/ ListenReturns \/ OpenConnection
           \/ (\E p \in Requested : ListenCall(p)) \/ (\E p \in Ports : EndConnection(p))
           \/ UNCHANGED vars => UNCHANGED checks
    BY Zenon DEF Listen, ReleasePort, SearchFreePort, ListenReturns, OpenConnection,
           ListenCall, EndConnection, vars
  <1> QED
    BY <1>1, <1>2, <1>3, <1>4, <1>5, <1>6, <1>7, <1>8, <1>9, <1>10, Zenon
       DEF Next, Arrival, ListeningPortTable, FreePortTable, CheckOut
-----------------------------------------------------------------------------
(* The line of segments, one step at a time.                               *)
Sized ==
    /\ Len(segments) \in Nat /\ Len(checkReq) \in Nat /\ Len(dstFifo) \in Nat
    /\ Len(checkRsp) \in Nat /\ Len(listenCheck) \in Nat /\ Len(listenAnswer) \in Nat
    /\ Waiting \in {0, 1} /\ Entries \in Nat /\ Dispatched \in Nat
    /\ Dispatched = Len(checkRsp) + Waiting + Len(dstFifo)
    /\ Entries = Len(listenAnswer) + Len(listenCheck)
    /\ Len(segments) = Dispatched + Len(checkReq)

LEMMA Sizes == TypeOK /\ LineInv => Sized
  <1> SUFFICES ASSUME TypeOK, InLine PROVE Sized
    BY DEF LineInv
  <1>1. /\ Len(segments) \in Nat /\ Len(checkReq) \in Nat /\ Len(dstFifo) \in Nat
        /\ Len(checkRsp) \in Nat /\ Len(listenCheck) \in Nat /\ Len(listenAnswer) \in Nat
    BY DEF TypeOK
  <1>2. Waiting \in {0, 1}
    BY DEF Waiting
  <1> QED BY <1>1, <1>2 DEF Sized, Entries, Dispatched, InLine

LEMMA SegmentTypes ==
    ASSUME TypeOK, NEW i \in 1 .. Len(segments)
    PROVE  /\ segments[i] \in Segment /\ segments[i].port \in Ports
           /\ Cell(segments[i].port) \in Cells /\ segments[i].wasOpen \in BOOLEAN
  <1>1. segments[i] \in Segment
    BY DEF TypeOK
  <1>2. \A s \in Segment : s.port \in Ports /\ s.wasOpen \in BOOLEAN
    BY DEF Segment
  <1> QED BY <1>1, <1>2, HalfFacts

LEMMA FitsStays ==
    ASSUME NEW s \in Segment, NEW a \in BOOLEAN, NEW t, NEW u,
           \A c \in Cells : t[c] => u[c], Fits(s, a, t)
    PROVE  Fits(s, a, u)
  <1>1. Cell(s.port) \in Cells
    BY HalfFacts DEF Segment
  <1> QED BY <1>1 DEF Fits

LEMMA LineTableGrows ==
    ASSUME TypeOK, LineInv,
           UNCHANGED <<checkReq, listenCheck, dstFifo, listenAnswer, cmState, checkRsp, segments>>,
           \A c \in Cells : listeningPortTable[c] => listeningPortTable'[c]
    PROVE  LineInv'
  <1>0. Sized
    BY Sizes
  <1> USE <1>0 DEF Sized, LineInv
  <1>1. UNCHANGED <<checkReq, listenCheck, dstFifo, listenAnswer, cmState, checkRsp, segments>>
    OBVIOUS
  <1>2. WasOpenIsOpen'
    BY <1>1, SegmentTypes DEF WasOpenIsOpen
  <1>3. AnswersFitSegments'
    <2>1. ASSUME NEW i \in 1 .. Len(checkRsp)
          PROVE  Fits(segments[i], checkRsp[i], listeningPortTable')
      <3>1. i \in 1 .. Len(segments) /\ segments[i] \in Segment /\ checkRsp[i] \in BOOLEAN
        <4>1. i \in 1 .. Len(segments)
          OBVIOUS
        <4>2. checkRsp[i] \in BOOLEAN
          <5>1. checkRsp \in Seq(BOOLEAN)
            BY DEF TypeOK
          <5> QED BY <5>1
        <4> QED BY <4>1, <4>2, SegmentTypes
      <3> QED BY <3>1, FitsStays DEF AnswersFitSegments
    <2> QED BY <1>1, <2>1 DEF AnswersFitSegments
  <1>4. InLine'
    BY <1>1 DEF InLine, Dispatched, Waiting
  <1>5. PICK f \in [1 .. Entries -> 1 .. Len(segments)] : Places(f)
    BY DEF InOrder
  <1>6. Answered(f)'
    <2>1. ASSUME NEW n \in 1 .. Len(listenAnswer)
          PROVE  Fits(segments[f[n]], listenAnswer[n], listeningPortTable')
      <3>1. n \in 1 .. Entries /\ listenAnswer[n] \in BOOLEAN
        BY DEF Entries, TypeOK
      <3>2. segments[f[n]] \in Segment
        <4>1. f[n] \in 1 .. Len(segments)
          BY <3>1
        <4> QED BY <4>1, SegmentTypes
      <3>3. Fits(segments[f[n]], listenAnswer[n], listeningPortTable)
        BY <1>5 DEF Places, Answered
      <3> QED BY <3>1, <3>2, <3>3, FitsStays
    <2> QED BY <1>1, <2>1 DEF Answered
  <1>7. Entries' = Entries /\ Dispatched' = Dispatched
    BY <1>1 DEF Entries, Dispatched, Waiting
  <1>8. Rising(f, Entries)' /\ LowOnes(f)' /\ Asked(f)'
    BY <1>1, <1>5, <1>7 DEF Places, LowOnes, Asked, Rising
  <1>9. Places(f)' /\ f \in [1 .. Entries' -> 1 .. Len(segments')]
    BY <1>1, <1>6, <1>7, <1>8 DEF Places
  <1> QED BY <1>2, <1>3, <1>4, <1>9 DEF InOrder

LEMMA LineCheckListening ==
    ASSUME TypeOK, LineInv, CheckListening PROVE LineInv'
  <1>0. Sized
    BY Sizes
  <1> USE <1>0 DEF Sized, LineInv
  <1>1. /\ UNCHANGED <<checkReq, dstFifo, cmState, checkRsp, segments, listeningPortTable>>
        /\ listenCheck # <<>> /\ listenCheck' = Tail(listenCheck)
        /\ listenAnswer' = Append(listenAnswer, listeningPortTable[Head(listenCheck)])
    BY DEF CheckListening, tables
  <1>2. WasOpenIsOpen' /\ AnswersFitSegments' /\ InLine'
    BY <1>1 DEF WasOpenIsOpen, AnswersFitSegments, InLine, Dispatched, Waiting
  <1>3. /\ Head(listenCheck) \in Cells /\ Head(listenCheck) = listenCheck[1]
        /\ Len(listenCheck') = Len(listenCheck) - 1 /\ Len(listenCheck) >= 1
        /\ \A n \in 1 .. Len(listenCheck) - 1 : listenCheck'[n] = listenCheck[n + 1]
    BY <1>1, TailFacts DEF TypeOK
  <1>4. listeningPortTable[Head(listenCheck)] \in BOOLEAN
    BY <1>3 DEF TypeOK
  <1>5. /\ Len(listenAnswer') = Len(listenAnswer) + 1
        /\ \A n \in 1 .. Len(listenAnswer) : listenAnswer'[n] = listenAnswer[n]
        /\ listenAnswer'[Len(listenAnswer) + 1] = listeningPortTable[listenCheck[1]]
    BY <1>1, <1>3, <1>4, AppendFacts DEF TypeOK
  <1>6. Entries' = Entries /\ Dispatched' = Dispatched
    BY <1>1, <1>3, <1>5 DEF Entries, Dispatched, Waiting
  <1>7. PICK f \in [1 .. Entries -> 1 .. Len(segments)] : Places(f)
    BY DEF InOrder
  <1>8. Rising(f, Entries)' /\ LowOnes(f)'
    BY <1>1, <1>6, <1>7 DEF Places, LowOnes, Rising
  <1>9. Asked(f)'
    <2>1. ASSUME NEW n \in 1 .. Len(listenCheck) - 1
          PROVE  listenCheck'[n] = Cell(segments[f[Len(listenAnswer) + 1 + n]].port)
      <3>1. n + 1 \in 1 .. Len(listenCheck)
            /\ Len(listenAnswer) + (n + 1) = Len(listenAnswer) + 1 + n
        BY <1>3
      <3> QED BY <1>3, <1>7, <3>1 DEF Places, Asked
    <2> QED BY <1>1, <1>3, <1>5, <2>1 DEF Asked
  <1>10. Answered(f)'
    <2> DEFINE k == Len(listenAnswer) + 1
    <2>1. k \in 1 .. Entries
      BY <1>3 DEF Entries
    <2>2. f[k] \in 1 .. Len(segments)
      BY <2>1
    <2>3. PICK s \in Segment : s = segments[f[k]] /\ Cell(s.port) \in Cells
                                 /\ s.wasOpen \in BOOLEAN
      BY <2>2, SegmentTypes
    <2>4. listenCheck[1] = Cell(s.port)
      BY <1>3, <1>7, <2>3 DEF Places, Asked
    <2>5. IsLow(s.port) /\ s.wasOpen => listeningPortTable[Cell(s.port)]
      BY <2>2, <2>3 DEF WasOpenIsOpen
    <2>6. Fits(s, listeningPortTable[listenCheck[1]], listeningPortTable)
      BY <2>3, <2>4, <2>5 DEF Fits, TypeOK
    <2>7. ASSUME NEW n \in 1 .. k
          PROVE  Fits(segments[f[n]], listenAnswer'[n], listeningPortTable)
      <3>1. CASE n = k
        BY <1>5, <2>3, <2>6, <3>1
      <3>2. CASE n \in 1 .. Len(listenAnswer)
        BY <1>5, <1>7, <3>2 DEF Places, Answered
      <3> QED BY <3>1, <3>2
    <2> QED BY <1>1, <1>5, <2>7 DEF Answered
  <1>11. Places(f)' /\ f \in [1 .. Entries' -> 1 .. Len(segments')]
    BY <1>1, <1>6, <1>8, <1>9, <1>10 DEF Places
  <1> QED BY <1>2, <1>11 DEF InOrder

LEMMA LineCheckIn ==
    ASSUME TypeOK, LineInv, CheckIn PROVE LineInv'
  <1>0. Sized
    BY Sizes
  <1> USE <1>0 DEF Sized, LineInv
  <1>1. Head(checkReq) \in Ports /\ Head(checkReq) = checkReq[1]
        /\ Len(Tail(checkReq)) = Len(checkReq) - 1 /\ Len(checkReq) >= 1
        /\ \A j \in 1 .. Len(checkReq) - 1 : Tail(checkReq)[j] = checkReq[j + 1]
    BY TailFacts DEF CheckIn, TypeOK
  <1>2. PICK p \in Ports : p = byteSwap16(checkReq[1])
    BY <1>1, SwapFacts
  <1>3. PICK o \in BOOLEAN : o = IsLow(p)
    <2>1. IsLow(p) \in BOOLEAN
      BY DEF IsLow
    <2> QED BY <2>1
  <1>4. /\ checkReq' = Tail(checkReq) /\ dstFifo' = Append(dstFifo, o)
        /\ o => listenCheck' = Append(listenCheck, Cell(p))
        /\ ~o => UNCHANGED listenCheck
        /\ UNCHANGED <<listenAnswer, cmState, checkRsp, segments, listeningPortTable>>
    BY <1>1, <1>2, <1>3, Zenon DEF CheckIn, tables
  <1>5. /\ Len(dstFifo') = Len(dstFifo) + 1 /\ dstFifo'[Len(dstFifo) + 1] = o
        /\ \A j \in 1 .. Len(dstFifo) : dstFifo'[j] = dstFifo[j]
    BY <1>4, AppendFacts DEF TypeOK
  <1>6. UNCHANGED Waiting
    BY <1>4 DEF Waiting
  <1>7. /\ Dispatched' = Dispatched + 1 /\ Len(checkReq') = Len(checkReq) - 1
        /\ Len(checkRsp') = Len(checkRsp) /\ Len(segments') = Len(segments)
        /\ Dispatched + 1 \in 1 .. Len(segments)
    <2>1. Dispatched' = Len(checkRsp') + Waiting' + Len(dstFifo')
      BY DEF Dispatched
    <2>2. /\ Len(checkRsp') = Len(checkRsp) /\ Len(segments') = Len(segments)
          /\ Waiting' = Waiting /\ Len(dstFifo') = Len(dstFifo) + 1
          /\ Len(checkReq') = Len(checkReq) - 1
      BY <1>1, <1>4, <1>5, <1>6
    <2>3. Dispatched' = Dispatched + 1
      <3>1. PICK r \in Nat, w \in Nat, d \in Nat :
               r = Len(checkRsp) /\ w = Waiting /\ d = Len(dstFifo) /\ Dispatched = r + w + d
        OBVIOUS
      <3>2. Dispatched' = r + w + (d + 1)
        BY <2>1, <2>2, <3>1
      <3> QED BY <3>1, <3>2
    <2>4. Dispatched + 1 \in 1 .. Len(segments)
      BY <1>1
    <2> QED BY <2>2, <2>3, <2>4
  <1>8. segments[Dispatched + 1].port = p
    <2>1. byteSwap16(checkReq[1]) = segments[Dispatched + 1].port
      <3>1. \A j \in 1 .. Len(checkReq) :
               byteSwap16(checkReq[j]) = segments[Dispatched + j].port
        BY DEF InLine
      <3>2. 1 \in 1 .. Len(checkReq)
        BY <1>1
      <3> QED BY <3>1, <3>2
    <2> QED BY <1>2, <2>1
  <1>9. WasOpenIsOpen' /\ AnswersFitSegments'
    BY <1>4 DEF WasOpenIsOpen, AnswersFitSegments
  <1>10. InLine'
    <2>1. Len(segments') = Dispatched' + Len(checkReq')
      BY <1>7
    <2>2. /\ cmState' = "READ_LISTENING" => IsLow(segments'[Len(checkRsp') + 1].port)
          /\ cmState' = "READ_USED" => ~IsLow(segments'[Len(checkRsp') + 1].port)
      BY <1>4 DEF InLine
    <2>3. ASSUME NEW j \in 1 .. Len(dstFifo) + 1
          PROVE  dstFifo'[j] <=> IsLow(segments[Len(checkRsp) + Waiting + j].port)
      <3>1. CASE j \in 1 .. Len(dstFifo)
        BY <1>5, <3>1 DEF InLine
      <3>2. CASE j = Len(dstFifo) + 1
        <4>1. Len(checkRsp) + Waiting + j = Dispatched + 1
          BY <3>2
        <4> QED BY <1>3, <1>5, <1>8, <3>2, <4>1
      <3> QED BY <3>1, <3>2
    <2>4. ASSUME NEW j \in 1 .. Len(checkReq) - 1
          PROVE  byteSwap16(Tail(checkReq)[j]) = segments[Dispatched + 1 + j].port
      <3>1. j + 1 \in 1 .. Len(checkReq) /\ Dispatched + (j + 1) = Dispatched + 1 + j
        OBVIOUS
      <3> QED BY <1>1, <3>1 DEF InLine
    <2>5. \A j \in 1 .. Len(dstFifo') :
             dstFifo'[j] <=> IsLow(segments'[Len(checkRsp') + Waiting' + j].port)
      BY <1>4, <1>5, <1>6, <2>3
    <2>6. \A j \in 1 .. Len(checkReq') :
             byteSwap16(checkReq'[j]) = segments'[Dispatched' + j].port
      BY <1>4, <1>7, <2>4
    <2> QED BY <2>1, <2>2, <2>5, <2>6 DEF InLine
  <1>11. PICK f \in [1 .. Entries -> 1 .. Len(segments)] : Places(f)
    BY DEF InOrder
  <1>12. CASE o
    <2>1. /\ Len(listenCheck') = Len(listenCheck) + 1
          /\ listenCheck'[Len(listenCheck) + 1] = Cell(p)
          /\ \A n \in 1 .. Len(listenCheck) : listenCheck'[n] = listenCheck[n]
      <3>1. Cell(p) \in Cells
        BY HalfFacts
      <3>2. listenCheck \in Seq(Cells)
        BY DEF TypeOK
      <3>3. PICK c \in Cells : c = Cell(p)
        BY <3>1
      <3>4. /\ Len(Append(listenCheck, c)) = Len(listenCheck) + 1
            /\ Append(listenCheck, c)[Len(listenCheck) + 1] = c
            /\ \A n \in 1 .. Len(listenCheck) : Append(listenCheck, c)[n] = listenCheck[n]
        BY <3>2, AppendFacts
      <3> QED BY <1>4, <1>12, <3>3, <3>4
    <2>2. Entries' = Entries + 1
      BY <1>4, <2>1 DEF Entries
    <2>3. PICK g \in [1 .. Entries + 1 -> 1 .. Len(segments)] :
             /\ \A n \in 1 .. Entries : g[n] = f[n]
             /\ g[Entries + 1] = Dispatched + 1
      <3> DEFINE h == [n \in 1 .. Entries + 1 |-> IF n = Entries + 1 THEN Dispatched + 1 ELSE f[n]]
      <3>1. \A n \in 1 .. Entries + 1 : n # Entries + 1 => n \in 1 .. Entries
        OBVIOUS
      <3>2. h \in [1 .. Entries + 1 -> 1 .. Len(segments)]
        BY <1>7, <3>1
      <3>3. \A n \in 1 .. Entries : h[n] = f[n]
        OBVIOUS
      <3>4. h[Entries + 1] = Dispatched + 1
        OBVIOUS
      <3> HIDE DEF h
      <3> QED BY <3>2, <3>3, <3>4
    <2>4. \A n \in 1 .. Entries : f[n] \in Len(checkRsp) + 1 .. Dispatched
      BY <1>11 DEF Places, LowOnes
    <2>5. Rising(g, Entries + 1)
      <3>1. ASSUME NEW m \in 1 .. Entries + 1, NEW n \in 1 .. Entries + 1, m < n
            PROVE  g[m] < g[n]
        <4>1. m \in 1 .. Entries
          BY <3>1
        <4>2. CASE n \in 1 .. Entries
          BY <1>11, <2>3, <3>1, <4>1, <4>2 DEF Places, Rising
        <4>3. CASE n = Entries + 1
          BY <2>3, <2>4, <4>1, <4>3
        <4> QED BY <4>2, <4>3
      <3> QED BY <3>1 DEF Rising
    <2>6. LowOnes(g)'
      <3>1. ASSUME NEW n \in 1 .. Entries + 1
            PROVE  g[n] \in Len(checkRsp) + 1 .. Dispatched + 1 /\ IsLow(segments[g[n]].port)
        <4>1. CASE n \in 1 .. Entries
          BY <1>11, <2>3, <2>4, <4>1 DEF Places, LowOnes
        <4>2. CASE n = Entries + 1
          <5>1. g[n] = Dispatched + 1
            BY <2>3, <4>2
          <5>2. IsLow(segments[Dispatched + 1].port)
            BY <1>3, <1>8, <1>12
          <5>3. Dispatched + 1 \in Len(checkRsp) + 1 .. Dispatched + 1
            OBVIOUS
          <5> QED BY <5>1, <5>2, <5>3
        <4> QED BY <4>1, <4>2
      <3>2. ASSUME NEW i \in Len(checkRsp) + 1 .. Dispatched + 1, IsLow(segments[i].port)
            PROVE  \E n \in 1 .. Entries + 1 : g[n] = i
        <4>1. CASE i \in Len(checkRsp) + 1 .. Dispatched
          <5>1. PICK n \in 1 .. Entries : f[n] = i
            BY <1>11, <3>2, <4>1 DEF Places, LowOnes
          <5>2. n \in 1 .. Entries + 1 /\ g[n] = i
            BY <2>3, <5>1
          <5> QED BY <5>2
        <4>2. CASE i = Dispatched + 1
          <5>1. Entries + 1 \in 1 .. Entries + 1 /\ g[Entries + 1] = i
            BY <2>3, <4>2
          <5> QED BY <5>1
        <4> QED BY <4>1, <4>2
      <3> QED BY <1>4, <1>7, <2>2, <3>1, <3>2 DEF LowOnes
    <2>7. Answered(g)'
      <3>1. ASSUME NEW n \in 1 .. Len(listenAnswer)
            PROVE  Fits(segments[g[n]], listenAnswer[n], listeningPortTable)
        <4>1. n \in 1 .. Entries
          BY DEF Entries
        <4> QED BY <1>11, <2>3, <4>1 DEF Places, Answered
      <3> QED BY <1>4, <3>1 DEF Answered
    <2>8. Asked(g)'
      <3>1. ASSUME NEW n \in 1 .. Len(listenCheck) + 1
            PROVE  listenCheck'[n] = Cell(segments[g[Len(listenAnswer) + n]].port)
        <4>1. CASE n \in 1 .. Len(listenCheck)
          <5>1. Len(listenAnswer) + n \in 1 .. Entries
            BY <4>1 DEF Entries
          <5> QED BY <1>11, <2>1, <2>3, <4>1, <5>1 DEF Places, Asked
        <4>2. CASE n = Len(listenCheck) + 1
          <5>1. Len(listenAnswer) + n = Entries + 1
            BY <4>2 DEF Entries
          <5> QED BY <1>8, <2>1, <2>3, <4>2, <5>1
        <4> QED BY <4>1, <4>2
      <3> QED BY <1>4, <2>1, <3>1 DEF Asked
    <2>9. Places(g)' /\ g \in [1 .. Entries' -> 1 .. Len(segments')]
      BY <1>4, <2>2, <2>5, <2>6, <2>7, <2>8 DEF Places, Rising
    <2> QED BY <1>9, <1>10, <2>9 DEF InOrder
  <1>13. CASE ~o
    <2>1. Entries' = Entries /\ UNCHANGED listenCheck
      BY <1>4, <1>13 DEF Entries
    <2>2. LowOnes(f)'
      <3>1. ASSUME NEW i \in Len(checkRsp) + 1 .. Dispatched + 1, IsLow(segments[i].port)
            PROVE  \E n \in 1 .. Entries : f[n] = i
        <4>1. i # Dispatched + 1
          BY <1>3, <1>8, <1>13, <3>1
        <4>2. i \in Len(checkRsp) + 1 .. Dispatched
          BY <4>1
        <4> QED BY <1>11, <3>1, <4>2 DEF Places, LowOnes
      <3>2. \A n \in 1 .. Entries :
               f[n] \in Len(checkRsp) + 1 .. Dispatched + 1 /\ IsLow(segments[f[n]].port)
        BY <1>11 DEF Places, LowOnes
      <3> QED BY <1>4, <1>7, <2>1, <3>1, <3>2 DEF LowOnes
    <2>3. Rising(f, Entries)' /\ Answered(f)' /\ Asked(f)'
      BY <1>4, <1>11, <2>1 DEF Places, Rising, Answered, Asked
    <2>4. Places(f)' /\ f \in [1 .. Entries' -> 1 .. Len(segments')]
      BY <1>4, <2>1, <2>2, <2>3 DEF Places
    <2> QED BY <1>9, <1>10, <2>4 DEF InOrder
  <1> QED BY <1>12, <1>13

LEMMA LineReadDst ==
    ASSUME TypeOK, LineInv, ReadDst PROVE LineInv'
  <1>0. Sized
    BY Sizes
  <1> USE <1>0 DEF Sized, LineInv
  <1>1. /\ cmState = "READ_DST" /\ dstFifo # <<>> /\ dstFifo' = Tail(dstFifo)
        /\ cmState' = IF Head(dstFifo) THEN "READ_LISTENING" ELSE "READ_USED"
        /\ UNCHANGED <<checkReq, listenCheck, listenAnswer, checkRsp, segments,
                       listeningPortTable>>
    BY DEF ReadDst, tables
  <1>2. /\ Head(dstFifo) = dstFifo[1] /\ Len(dstFifo) >= 1
        /\ Len(dstFifo') = Len(dstFifo) - 1
        /\ \A j \in 1 .. Len(dstFifo) - 1 : dstFifo'[j] = dstFifo[j + 1]
    <2>1. dstFifo \in Seq(BOOLEAN) /\ dstFifo # <<>>
      BY <1>1 DEF TypeOK
    <2>2. /\ Head(dstFifo) = dstFifo[1] /\ Len(dstFifo) \in Nat \ {0}
          /\ Len(Tail(dstFifo)) = Len(dstFifo) - 1
          /\ \A j \in 1 .. Len(dstFifo) - 1 : Tail(dstFifo)[j] = dstFifo[j + 1]
      BY <2>1, TailFacts
    <2>3. dstFifo' = Tail(dstFifo)
      BY <1>1
    <2> QED BY <2>2, <2>3
  <1>3. Waiting = 0 /\ Waiting' = 1
    BY <1>1 DEF Waiting
  <1>4. Dispatched' = Dispatched /\ Entries' = Entries
    <2>1. /\ Dispatched' = Len(checkRsp') + Waiting' + Len(dstFifo')
          /\ Entries' = Len(listenAnswer') + Len(listenCheck')
      BY DEF Dispatched, Entries
    <2>2. PICK r \in Nat, d \in Nat :
             r = Len(checkRsp) /\ d = Len(dstFifo) /\ Dispatched = r + 0 + d
      BY <1>3
    <2>3. Dispatched' = r + 1 + (d - 1)
      BY <1>1, <1>2, <1>3, <2>1, <2>2
    <2>4. Dispatched' = Dispatched
      BY <2>2, <2>3
    <2>5. Entries' = Entries
      BY <1>1, <2>1 DEF Entries
    <2> QED BY <2>4, <2>5
  <1>5. WasOpenIsOpen' /\ AnswersFitSegments'
    BY <1>1 DEF WasOpenIsOpen, AnswersFitSegments
  <1>6. InLine'
    <2>1. \A j \in 1 .. Len(dstFifo) :
             dstFifo[j] <=> IsLow(segments[Len(checkRsp) + j].port)
      BY <1>3 DEF InLine
    <2>2. dstFifo[1] <=> IsLow(segments[Len(checkRsp) + 1].port)
      BY <1>2, <2>1
    <2>3. /\ cmState' = "READ_LISTENING" => IsLow(segments'[Len(checkRsp') + 1].port)
          /\ cmState' = "READ_USED" => ~IsLow(segments'[Len(checkRsp') + 1].port)
      BY <1>1, <1>2, <2>2
    <2>4. ASSUME NEW j \in 1 .. Len(dstFifo')
          PROVE  dstFifo'[j] <=> IsLow(segments'[Len(checkRsp') + Waiting' + j].port)
      <3>1. j + 1 \in 1 .. Len(dstFifo) /\ Len(checkRsp) + (j + 1) = Len(checkRsp') + Waiting' + j
        <4>1. j \in Nat /\ j + 1 \in 1 .. Len(dstFifo)
          BY <1>2
        <4>2. Len(checkRsp') = Len(checkRsp) /\ Waiting' = 1
          BY <1>1, <1>3
        <4> QED BY <4>1, <4>2
      <3>2. dstFifo[j + 1] <=> IsLow(segments[Len(checkRsp') + Waiting' + j].port)
        BY <2>1, <3>1
      <3> QED BY <1>1, <1>2, <3>2
    <2> QED BY <1>1, <1>4, <2>3, <2>4 DEF InLine
  <1>7. PICK f \in [1 .. Entries -> 1 .. Len(segments)] : Places(f)
    BY DEF InOrder
  <1>8. Rising(f, Entries)' /\ LowOnes(f)' /\ Answered(f)' /\ Asked(f)'
    BY <1>1, <1>4, <1>7 DEF Places, LowOnes, Rising, Answered, Asked
  <1>9. Places(f)' /\ f \in [1 .. Entries' -> 1 .. Len(segments')]
    BY <1>1, <1>4, <1>8 DEF Places
  <1> QED BY <1>5, <1>6, <1>9 DEF InOrder

(* An answer is passed on: it belongs to the segment in front.             *)
LEMMA LineAnswerMoves ==
    ASSUME TypeOK, LineInv, NEW a \in BOOLEAN, Waiting = 1,
           Fits(segments[Len(checkRsp) + 1], a, listeningPortTable),
           checkRsp' = Append(checkRsp, a), cmState' = "READ_DST",
           UNCHANGED <<checkReq, dstFifo, segments, listeningPortTable>>
    PROVE  /\ WasOpenIsOpen' /\ AnswersFitSegments' /\ InLine'
           /\ Len(checkRsp') = Len(checkRsp) + 1 /\ Dispatched' = Dispatched
  <1>0. Sized
    BY Sizes
  <1> USE <1>0 DEF Sized, LineInv
  <1>1. /\ Len(checkRsp') = Len(checkRsp) + 1 /\ checkRsp'[Len(checkRsp) + 1] = a
        /\ \A i \in 1 .. Len(checkRsp) : checkRsp'[i] = checkRsp[i]
    BY AppendFacts DEF TypeOK
  <1>2. Waiting' = 0
    BY DEF Waiting
  <1>3. Dispatched' = Dispatched
    <2>1. Dispatched' = Len(checkRsp') + Waiting' + Len(dstFifo')
      BY DEF Dispatched
    <2>2. PICK r \in Nat, d \in Nat :
             r = Len(checkRsp) /\ d = Len(dstFifo) /\ Dispatched = r + 1 + d
      OBVIOUS
    <2>3. Dispatched' = (r + 1) + 0 + d
      BY <1>1, <1>2, <2>1, <2>2
    <2> QED BY <2>2, <2>3
  <1>4. WasOpenIsOpen'
    BY DEF WasOpenIsOpen
  <1>5. AnswersFitSegments'
    <2>1. ASSUME NEW i \in 1 .. Len(checkRsp) + 1
          PROVE  Fits(segments[i], checkRsp'[i], listeningPortTable)
      <3>1. CASE i \in 1 .. Len(checkRsp)
        BY <1>1, <3>1 DEF AnswersFitSegments
      <3>2. CASE i = Len(checkRsp) + 1
        BY <1>1, <3>2
      <3> QED BY <3>1, <3>2
    <2> QED BY <1>1, <2>1 DEF AnswersFitSegments
  <1>6. InLine'
    <2>1. ASSUME NEW j \in 1 .. Len(dstFifo)
          PROVE  dstFifo[j] <=> IsLow(segments[Len(checkRsp) + 1 + 0 + j].port)
      <3>1. Len(checkRsp) + 1 + 0 + j = Len(checkRsp) + 1 + j
        OBVIOUS
      <3> QED BY <3>1 DEF InLine
    <2>2. \A j \in 1 .. Len(dstFifo') :
             dstFifo'[j] <=> IsLow(segments'[Len(checkRsp') + Waiting' + j].port)
      BY <1>1, <1>2, <2>1
    <2> QED BY <1>3, <2>2 DEF InLine
  <1> QED BY <1>1, <1>3, <1>4, <1>5, <1>6

LEMMA LineReadUsed ==
    ASSUME TypeOK, LineInv, ReadUsed PROVE LineInv'
  <1>0. Sized
    BY Sizes
  <1> USE <1>0 DEF Sized, LineInv
  <1>1. /\ cmState = "READ_USED" /\ usedAnswer # <<>> /\ cmState' = "READ_DST"
        /\ checkRsp' = Append(checkRsp, Head(usedAnswer))
        /\ UNCHANGED <<checkReq, dstFifo, listenCheck, listenAnswer, segments, listeningPortTable>>
    BY DEF ReadUsed, Reads, tables
  <1>2. PICK a \in BOOLEAN : a = Head(usedAnswer)
    <2>1. Head(usedAnswer) \in BOOLEAN
      BY <1>1, TailFacts DEF TypeOK
    <2> QED BY <2>1
  <1>3. Waiting = 1
    BY <1>1 DEF Waiting
  <1>4. ~IsLow(segments[Len(checkRsp) + 1].port)
    BY <1>1 DEF InLine
  <1>5. Fits(segments[Len(checkRsp) + 1], a, listeningPortTable)
    BY <1>4 DEF Fits
  <1>6. /\ WasOpenIsOpen' /\ AnswersFitSegments' /\ InLine'
        /\ Len(checkRsp') = Len(checkRsp) + 1 /\ Dispatched' = Dispatched
    BY <1>1, <1>2, <1>3, <1>5, LineAnswerMoves
  <1>7. Entries' = Entries
    BY <1>1 DEF Entries
  <1>8. PICK f \in [1 .. Entries -> 1 .. Len(segments)] : Places(f)
    BY DEF InOrder
  <1>9. LowOnes(f)'
    <2>1. ASSUME NEW n \in 1 .. Entries
          PROVE  f[n] \in Len(checkRsp) + 2 .. Dispatched /\ IsLow(segments[f[n]].port)
      <3>1. f[n] \in Len(checkRsp) + 1 .. Dispatched /\ IsLow(segments[f[n]].port)
        BY <1>8 DEF Places, LowOnes
      <3>2. f[n] # Len(checkRsp) + 1
        BY <1>4, <3>1
      <3> QED BY <3>1, <3>2
    <2>2. ASSUME NEW i \in Len(checkRsp) + 2 .. Dispatched, IsLow(segments[i].port)
          PROVE  \E n \in 1 .. Entries : f[n] = i
      <3>1. i \in Len(checkRsp) + 1 .. Dispatched
        OBVIOUS
      <3> QED BY <1>8, <2>2, <3>1 DEF Places, LowOnes
    <2>3. Len(checkRsp') + 1 = Len(checkRsp) + 2
      BY <1>6
    <2> QED BY <1>1, <1>6, <1>7, <2>1, <2>2, <2>3 DEF LowOnes
  <1>10. Rising(f, Entries)' /\ Answered(f)' /\ Asked(f)'
    BY <1>1, <1>7, <1>8 DEF Places, Rising, Answered, Asked
  <1>11. Places(f)' /\ f \in [1 .. Entries' -> 1 .. Len(segments')]
    BY <1>1, <1>7, <1>9, <1>10 DEF Places
  <1> QED BY <1>6, <1>11 DEF InOrder

LEMMA LineReadListening ==
    ASSUME TypeOK, LineInv, ReadListening PROVE LineInv'
  <1>0. Sized
    BY Sizes
  <1> USE <1>0 DEF Sized, LineInv
  <1>1. /\ cmState = "READ_LISTENING" /\ listenAnswer # <<>> /\ cmState' = "READ_DST"
        /\ checkRsp' = Append(checkRsp, Head(listenAnswer))
        /\ listenAnswer' = Tail(listenAnswer)
        /\ UNCHANGED <<checkReq, dstFifo, listenCheck, segments, listeningPortTable>>
    BY DEF ReadListening, Reads, tables
  <1>2. /\ Head(listenAnswer) \in BOOLEAN /\ Head(listenAnswer) = listenAnswer[1]
        /\ Len(listenAnswer') = Len(listenAnswer) - 1 /\ Len(listenAnswer) >= 1
        /\ \A n \in 1 .. Len(listenAnswer) - 1 : listenAnswer'[n] = listenAnswer[n + 1]
    BY <1>1, TailFacts DEF TypeOK
  <1>3. PICK a \in BOOLEAN : a = Head(listenAnswer) /\ a = listenAnswer[1]
    BY <1>2
  <1>4. Waiting = 1
    BY <1>1 DEF Waiting
  <1>5. PICK f \in [1 .. Entries -> 1 .. Len(segments)] : Places(f)
    BY DEF InOrder
  <1>6. PICK k \in Nat : k = Entries /\ k >= 1
    BY <1>2 DEF Entries
  <1>7. \A n \in 1 .. k : f[n] \in Len(checkRsp) + 1 .. Dispatched
    BY <1>5, <1>6 DEF Places, LowOnes
  <1>8. f[1] = Len(checkRsp) + 1
    <2>1. IsLow(segments[Len(checkRsp) + 1].port)
      BY <1>1 DEF InLine
    <2>2. Len(checkRsp) + 1 \in Len(checkRsp) + 1 .. Dispatched
      BY <1>4
    <2>3. PICK n \in 1 .. k : f[n] = Len(checkRsp) + 1
      BY <1>5, <1>6, <2>1, <2>2 DEF Places, LowOnes
    <2>4. CASE n = 1
      BY <2>3, <2>4
    <2>5. CASE n > 1
      <3>1. f[1] < f[n] /\ 1 \in 1 .. k
        BY <1>5, <1>6, <2>5 DEF Places, Rising
      <3> QED BY <1>7, <2>3, <3>1
    <2> QED BY <2>4, <2>5
  <1>9. Fits(segments[Len(checkRsp) + 1], a, listeningPortTable)
    <2>1. 1 \in 1 .. Len(listenAnswer)
      BY <1>2
    <2> QED BY <1>3, <1>5, <1>8, <2>1 DEF Places, Answered
  <1>10. /\ WasOpenIsOpen' /\ AnswersFitSegments' /\ InLine'
         /\ Len(checkRsp') = Len(checkRsp) + 1 /\ Dispatched' = Dispatched
    BY <1>1, <1>3, <1>4, <1>9, LineAnswerMoves
  <1>11. Entries' = k - 1
    BY <1>1, <1>2, <1>6 DEF Entries
  <1>12. PICK g \in [1 .. k - 1 -> 1 .. Len(segments)] : \A n \in 1 .. k - 1 : g[n] = f[n + 1]
    <2> DEFINE h == [n \in 1 .. k - 1 |-> f[n + 1]]
    <2>1. \A n \in 1 .. k - 1 : n + 1 \in 1 .. Entries
      BY <1>6
    <2>2. h \in [1 .. k - 1 -> 1 .. Len(segments)] /\ \A n \in 1 .. k - 1 : h[n] = f[n + 1]
      BY <2>1
    <2> HIDE DEF h
    <2> QED BY <2>2
  <1>13. \A n \in 1 .. k - 1 : n + 1 \in 1 .. k
    OBVIOUS
  <1>14. Rising(g, k - 1)
    <2>1. ASSUME NEW m \in 1 .. k - 1, NEW n \in 1 .. k - 1, m < n
          PROVE  g[m] < g[n]
      <3>1. m + 1 \in 1 .. k /\ n + 1 \in 1 .. k /\ m + 1 < n + 1
        BY <2>1
      <3> QED BY <1>5, <1>6, <1>12, <3>1 DEF Places, Rising
    <2> QED BY <2>1 DEF Rising
  <1>15. LowOnes(g)'
    <2>1. ASSUME NEW n \in 1 .. k - 1
          PROVE  g[n] \in Len(checkRsp) + 2 .. Dispatched /\ IsLow(segments[g[n]].port)
      <3>1. n + 1 \in 1 .. k /\ 1 \in 1 .. k /\ 1 < n + 1
        OBVIOUS
      <3>2. f[1] < f[n + 1]
        BY <1>5, <1>6, <3>1 DEF Places, Rising
      <3>3. IsLow(segments[f[n + 1]].port)
        BY <1>5, <1>6, <3>1 DEF Places, LowOnes
      <3>4. f[n + 1] \in Len(checkRsp) + 1 .. Dispatched
        BY <1>7, <3>1
      <3>5. g[n] = f[n + 1]
        BY <1>12
      <3>6. f[n + 1] \in Len(checkRsp) + 2 .. Dispatched
        BY <1>8, <3>2, <3>4
      <3> QED BY <3>3, <3>5, <3>6
    <2>2. ASSUME NEW i \in Len(checkRsp) + 2 .. Dispatched, IsLow(segments[i].port)
          PROVE  \E n \in 1 .. k - 1 : g[n] = i
      <3>1. i \in Len(checkRsp) + 1 .. Dispatched
        OBVIOUS
      <3>2. PICK n \in 1 .. k : f[n] = i
        BY <1>5, <1>6, <2>2, <3>1 DEF Places, LowOnes
      <3>3. n # 1
        BY <1>8, <3>2
      <3>4. n - 1 \in 1 .. k - 1 /\ (n - 1) + 1 = n
        BY <3>3
      <3>5. g[n - 1] = i
        BY <1>12, <3>2, <3>4
      <3> QED BY <3>4, <3>5
    <2>3. Len(checkRsp') + 1 = Len(checkRsp) + 2
      BY <1>10
    <2> QED BY <1>1, <1>10, <1>11, <2>1, <2>2, <2>3 DEF LowOnes
  <1>16. Answered(g)'
    <2>1. ASSUME NEW n \in 1 .. Len(listenAnswer) - 1
          PROVE  Fits(segments[g[n]], listenAnswer'[n], listeningPortTable)
      <3>1. n + 1 \in 1 .. Len(listenAnswer) /\ n \in 1 .. k - 1
        BY <1>6 DEF Entries
      <3> QED BY <1>2, <1>5, <1>12, <3>1 DEF Places, Answered
    <2> QED BY <1>1, <1>2, <2>1 DEF Answered
  <1>17. Asked(g)'
    <2>1. ASSUME NEW n \in 1 .. Len(listenCheck)
          PROVE  listenCheck[n] = Cell(segments[g[Len(listenAnswer) - 1 + n]].port)
      <3>1. /\ Len(listenAnswer) - 1 + n \in 1 .. k - 1
            /\ (Len(listenAnswer) - 1 + n) + 1 = Len(listenAnswer) + n
        BY <1>2, <1>6 DEF Entries
      <3>2. g[Len(listenAnswer) - 1 + n] = f[Len(listenAnswer) + n]
        BY <1>12, <3>1
      <3> QED BY <1>5, <3>2 DEF Places, Asked
    <2> QED BY <1>1, <1>2, <2>1 DEF Asked
  <1>18. Places(g)' /\ g \in [1 .. Entries' -> 1 .. Len(segments')]
    BY <1>1, <1>11, <1>14, <1>15, <1>16, <1>17 DEF Places, Rising
  <1> QED BY <1>10, <1>18 DEF InOrder

LEMMA LineSegmentArrives ==
    ASSUME TypeOK, LineInv, NEW p \in Addressed, SegmentArrives(p) PROVE LineInv'
  <1> DEFINE new == [port |-> p, wasOpen |-> IsOpen(p)]
  <1>1. /\ checkReq' = Append(checkReq, byteSwap16(p)) /\ segments' = Append(segments, new)
        /\ UNCHANGED <<dstFifo, listenCheck, listenAnswer, cmState, checkRsp, listeningPortTable>>
    BY DEF SegmentArrives, tables
  <1>2. /\ p \in Ports /\ byteSwap16(p) \in Ports /\ byteSwap16(byteSwap16(p)) = p
        /\ IsOpen(p) \in BOOLEAN /\ Cell(p) \in Cells
        /\ IsLow(p) => IsOpen(p) = listeningPortTable[Cell(p)]
    <2>1. p \in Ports
      BY RequestedAssumption
    <2>2. Cell(p) \in Cells
      BY <2>1, HalfFacts
    <2> QED BY <2>1, <2>2, SwapFacts DEF IsOpen, TypeOK
  <1>3. new \in Segment
    BY <1>2 DEF Segment
  <1>4. /\ Len(segments') = Len(segments) + 1 /\ segments'[Len(segments) + 1] = new
        /\ \A i \in 1 .. Len(segments) : segments'[i] = segments[i]
    BY <1>1, <1>3, AppendFacts DEF TypeOK
  <1>5. /\ Len(checkReq') = Len(checkReq) + 1 /\ checkReq'[Len(checkReq) + 1] = byteSwap16(p)
        /\ \A i \in 1 .. Len(checkReq) : checkReq'[i] = checkReq[i]
    BY <1>1, <1>2, AppendFacts DEF TypeOK
  <1>0. Sized
    BY Sizes
  <1> USE <1>0 DEF Sized, LineInv
  <1>6. Dispatched' = Dispatched /\ Entries' = Entries /\ Waiting' = Waiting
    BY <1>1 DEF Dispatched, Entries, Waiting
  <1>7. new.port = p /\ new.wasOpen = IsOpen(p)
    OBVIOUS
  <1> HIDE DEF new
  <1>8. WasOpenIsOpen'
    <2>1. ASSUME NEW i \in 1 .. Len(segments) + 1, IsLow(segments'[i].port), segments'[i].wasOpen
          PROVE  listeningPortTable[Cell(segments'[i].port)]
      <3>1. CASE i \in 1 .. Len(segments)
        BY <1>4, <2>1, <3>1 DEF WasOpenIsOpen
      <3>2. CASE i = Len(segments) + 1
        BY <1>2, <1>4, <1>7, <2>1, <3>2
      <3> QED BY <3>1, <3>2
    <2> QED BY <1>1, <1>4, <2>1 DEF WasOpenIsOpen
  <1>9. AnswersFitSegments'
    <2>1. \A i \in 1 .. Len(checkRsp) : segments'[i] = segments[i]
      <3>1. \A i \in 1 .. Len(checkRsp) : i \in 1 .. Len(segments)
        OBVIOUS
      <3> QED BY <1>4, <3>1
    <2> QED BY <1>1, <2>1 DEF AnswersFitSegments
  <1>10. InLine'
    <2>1. Len(segments') = Dispatched' + Len(checkReq')
      <3>1. Len(segments) = Dispatched + Len(checkReq)
        OBVIOUS
      <3> QED BY <1>4, <1>5, <1>6, <3>1
    <2>2. cmState # "READ_DST" => Len(checkRsp) + 1 \in 1 .. Len(segments)
      <3>1. cmState # "READ_DST" => Waiting = 1
        BY DEF Waiting
      <3> QED BY <3>1
    <2>3. /\ cmState' = "READ_LISTENING" => IsLow(segments'[Len(checkRsp') + 1].port)
          /\ cmState' = "READ_USED" => ~IsLow(segments'[Len(checkRsp') + 1].port)
      BY <1>1, <1>4, <2>2 DEF InLine
    <2>4. ASSUME NEW j \in 1 .. Len(dstFifo)
          PROVE  dstFifo[j] <=> IsLow(segments'[Len(checkRsp) + Waiting + j].port)
      <3>1. Len(checkRsp) + Waiting + j \in 1 .. Len(segments)
        OBVIOUS
      <3> QED BY <1>4, <3>1 DEF InLine
    <2>5. \A j \in 1 .. Len(dstFifo') :
             dstFifo'[j] <=> IsLow(segments'[Len(checkRsp') + Waiting' + j].port)
      BY <1>1, <1>6, <2>4
    <2>6. ASSUME NEW j \in 1 .. Len(checkReq) + 1
          PROVE  byteSwap16(checkReq'[j]) = segments'[Dispatched + j].port
      <3>1. CASE j \in 1 .. Len(checkReq)
        <4>1. Dispatched + j \in 1 .. Len(segments)
          BY <3>1
        <4>2. byteSwap16(checkReq[j]) = segments[Dispatched + j].port
          BY <3>1 DEF InLine
        <4> QED BY <1>4, <1>5, <3>1, <4>1, <4>2
      <3>2. CASE j = Len(checkReq) + 1
        <4>1. Dispatched + j = Len(segments) + 1
          BY <3>2
        <4> QED BY <1>2, <1>4, <1>5, <1>7, <3>2, <4>1
      <3> QED BY <3>1, <3>2
    <2>7. \A j \in 1 .. Len(checkReq') :
             byteSwap16(checkReq'[j]) = segments'[Dispatched' + j].port
      BY <1>5, <1>6, <2>6
    <2> QED BY <2>1, <2>3, <2>5, <2>7 DEF InLine
  <1>11. PICK f \in [1 .. Entries -> 1 .. Len(segments)] : Places(f)
    BY DEF InOrder
  <1>12. \A n \in 1 .. Entries : segments'[f[n]] = segments[f[n]]
    BY <1>4
  <1>13. LowOnes(f)'
    <2>1. \A n \in 1 .. Entries :
             f[n] \in Len(checkRsp) + 1 .. Dispatched /\ IsLow(segments'[f[n]].port)
      BY <1>11, <1>12 DEF Places, LowOnes
    <2>2. ASSUME NEW i \in Len(checkRsp) + 1 .. Dispatched, IsLow(segments'[i].port)
          PROVE  \E n \in 1 .. Entries : f[n] = i
      <3>1. i \in 1 .. Len(segments)
        OBVIOUS
      <3>2. IsLow(segments[i].port)
        BY <1>4, <2>2, <3>1
      <3> QED BY <1>11, <3>2 DEF Places, LowOnes
    <2> QED BY <1>1, <1>6, <2>1, <2>2 DEF LowOnes
  <1>14. Answered(f)'
    <2>1. \A n \in 1 .. Len(listenAnswer) : n \in 1 .. Entries
      BY DEF Entries
    <2> QED BY <1>1, <1>11, <1>12, <2>1 DEF Places, Answered
  <1>15. Asked(f)'
    <2>1. \A n \in 1 .. Len(listenCheck) : Len(listenAnswer) + n \in 1 .. Entries
      BY DEF Entries
    <2> QED BY <1>1, <1>11, <1>12, <2>1 DEF Places, Asked
  <1>16. Rising(f, Entries)'
    BY <1>6, <1>11 DEF Places, Rising
  <1>17. f \in [1 .. Entries' -> 1 .. Len(segments')]
    BY <1>4, <1>6
  <1> QED BY <1>8, <1>9, <1>10, <1>13, <1>14, <1>15, <1>16, <1>17 DEF InOrder, Places

LEMMA LineSegmentChecked ==
    ASSUME TypeOK, LineInv, SegmentChecked PROVE LineInv'
  <1>0. Sized
    BY Sizes
  <1> USE <1>0 DEF Sized, LineInv
  <1>1. /\ checkRsp # <<>> /\ segments # <<>>
        /\ checkRsp' = Tail(checkRsp) /\ segments' = Tail(segments)
        /\ UNCHANGED <<checkReq, dstFifo, listenCheck, listenAnswer, cmState, listeningPortTable>>
    BY DEF SegmentChecked, tables
  <1>2. /\ Len(checkRsp') = Len(checkRsp) - 1 /\ Len(checkRsp) >= 1
        /\ \A i \in 1 .. Len(checkRsp) - 1 : checkRsp'[i] = checkRsp[i + 1]
    BY <1>1, TailFacts DEF TypeOK
  <1>3. /\ Len(segments') = Len(segments) - 1 /\ Len(segments) >= 1
        /\ \A i \in 1 .. Len(segments) - 1 : segments'[i] = segments[i + 1]
    BY <1>1, TailFacts DEF TypeOK
  <1>4. Entries' = Entries /\ Waiting' = Waiting
    BY <1>1 DEF Entries, Waiting
  <1>5. Dispatched' = Dispatched - 1
    <2>1. Dispatched' = Len(checkRsp') + Waiting' + Len(dstFifo')
      BY DEF Dispatched
    <2>2. PICK r \in Nat, w \in Nat, d \in Nat :
             r = Len(checkRsp) /\ w = Waiting /\ d = Len(dstFifo) /\ Dispatched = r + w + d
      OBVIOUS
    <2>3. Dispatched' = (r - 1) + w + d
      BY <1>1, <1>2, <1>4, <2>1, <2>2
    <2> QED BY <2>2, <2>3
  <1>6. WasOpenIsOpen'
    <2>1. ASSUME NEW i \in 1 .. Len(segments) - 1, IsLow(segments'[i].port), segments'[i].wasOpen
          PROVE  listeningPortTable[Cell(segments'[i].port)]
      <3>1. i + 1 \in 1 .. Len(segments)
        OBVIOUS
      <3> QED BY <1>3, <2>1, <3>1 DEF WasOpenIsOpen
    <2> QED BY <1>1, <1>3, <2>1 DEF WasOpenIsOpen
  <1>7. AnswersFitSegments'
    <2>1. ASSUME NEW i \in 1 .. Len(checkRsp) - 1
          PROVE  Fits(segments'[i], checkRsp'[i], listeningPortTable)
      <3>1. i + 1 \in 1 .. Len(checkRsp) /\ i \in 1 .. Len(segments) - 1
        OBVIOUS
      <3> QED BY <1>2, <1>3, <3>1 DEF AnswersFitSegments
    <2> QED BY <1>1, <1>2, <2>1 DEF AnswersFitSegments
  <1>8. InLine'
    <2>1. Len(segments') = Dispatched' + Len(checkReq')
      <3>1. Len(segments) = Dispatched + Len(checkReq)
        OBVIOUS
      <3> QED BY <1>1, <1>3, <1>5, <3>1
    <2>2. cmState # "READ_DST" =>
             /\ Len(checkRsp) \in 1 .. Len(segments) - 1
             /\ segments'[Len(checkRsp') + 1] = segments[Len(checkRsp) + 1]
      <3>1. cmState # "READ_DST" => Waiting = 1
        BY DEF Waiting
      <3>2. cmState # "READ_DST" => Len(checkRsp) \in 1 .. Len(segments) - 1
        BY <1>2, <3>1
      <3>3. Len(checkRsp') + 1 = Len(checkRsp)
        BY <1>2
      <3> QED BY <1>3, <3>2, <3>3
    <2>3. /\ cmState' = "READ_LISTENING" => IsLow(segments'[Len(checkRsp') + 1].port)
          /\ cmState' = "READ_USED" => ~IsLow(segments'[Len(checkRsp') + 1].port)
      BY <1>1, <2>2 DEF InLine
    <2>4. ASSUME NEW j \in 1 .. Len(dstFifo)
          PROVE  dstFifo[j] <=> IsLow(segments'[Len(checkRsp) - 1 + Waiting + j].port)
      <3>1. PICK i \in 1 .. Len(segments) - 1 :
               i = Len(checkRsp) - 1 + Waiting + j /\ i + 1 = Len(checkRsp) + Waiting + j
        <4>1. PICK r \in Nat, w \in Nat, d \in Nat, q \in Nat :
                 /\ r = Len(checkRsp) /\ w = Waiting /\ d = Len(dstFifo) /\ r >= 1
                 /\ Len(segments) = r + w + d + q /\ j \in 1 .. d
          BY <1>2
        <4>2. PICK i \in 1 .. r + w + d + q - 1 : i = r - 1 + w + j /\ i + 1 = r + w + j
          <5>1. /\ r - 1 + w + j \in 1 .. r + w + d + q - 1
                /\ (r - 1 + w + j) + 1 = r + w + j
            BY <4>1
          <5> QED BY <5>1, Zenon
        <4>3. /\ i \in 1 .. Len(segments) - 1 /\ i = Len(checkRsp) - 1 + Waiting + j
              /\ i + 1 = Len(checkRsp) + Waiting + j
          BY <4>1, <4>2
        <4> QED BY <4>3
      <3>2. dstFifo[j] <=> IsLow(segments[i + 1].port)
        BY <3>1 DEF InLine
      <3>3. segments'[i] = segments[i + 1]
        BY <1>3, <3>1
      <3> QED BY <3>1, <3>2, <3>3
    <2>5. \A j \in 1 .. Len(dstFifo') :
             dstFifo'[j] <=> IsLow(segments'[Len(checkRsp') + Waiting' + j].port)
      BY <1>1, <1>2, <1>4, <2>4
    <2>6. ASSUME NEW j \in 1 .. Len(checkReq)
          PROVE  byteSwap16(checkReq[j]) = segments'[Dispatched - 1 + j].port
      <3>1. PICK i \in 1 .. Len(segments) - 1 : i = Dispatched - 1 + j /\ i + 1 = Dispatched + j
        <4>1. PICK D \in Nat, q \in Nat :
                 /\ D = Dispatched /\ q = Len(checkReq) /\ D >= 1 /\ j \in 1 .. q
                 /\ Len(segments) = D + q
          BY <1>2
        <4>2. PICK i \in 1 .. D + q - 1 : i = D - 1 + j /\ i + 1 = D + j
          <5>1. D - 1 + j \in 1 .. D + q - 1 /\ (D - 1 + j) + 1 = D + j
            BY <4>1
          <5> QED BY <5>1, Zenon
        <4>3. i \in 1 .. Len(segments) - 1 /\ i = Dispatched - 1 + j /\ i + 1 = Dispatched + j
          BY <4>1, <4>2
        <4> QED BY <4>3
      <3>2. byteSwap16(checkReq[j]) = segments[i + 1].port
        BY <3>1 DEF InLine
      <3>3. segments'[i] = segments[i + 1]
        BY <1>3, <3>1
      <3> QED BY <3>1, <3>2, <3>3
    <2>7. \A j \in 1 .. Len(checkReq') :
             byteSwap16(checkReq'[j]) = segments'[Dispatched' + j].port
      BY <1>1, <1>5, <2>6
    <2> QED BY <2>1, <2>3, <2>5, <2>7 DEF InLine
  <1>9. PICK f \in [1 .. Entries -> 1 .. Len(segments)] : Places(f)
    BY DEF InOrder
  <1>10. \A n \in 1 .. Entries :
            /\ f[n] \in Len(checkRsp) + 1 .. Dispatched /\ f[n] - 1 \in 1 .. Len(segments) - 1
            /\ segments'[f[n] - 1] = segments[f[n]]
    <2>1. ASSUME NEW n \in 1 .. Entries
          PROVE  /\ f[n] \in Len(checkRsp) + 1 .. Dispatched
                 /\ f[n] - 1 \in 1 .. Len(segments) - 1
                 /\ segments'[f[n] - 1] = segments[f[n]]
      <3>1. f[n] \in Len(checkRsp) + 1 .. Dispatched
        BY <1>9 DEF Places, LowOnes
      <3>2. PICK i \in 1 .. Len(segments) - 1 : i = f[n] - 1 /\ i + 1 = f[n]
        <4>1. f[n] - 1 \in 1 .. Len(segments) - 1
          BY <1>2, <3>1
        <4> QED BY SMTT(60), <4>1
      <3> QED BY <1>3, <3>1, <3>2
    <2> QED BY <2>1
  <1>11. PICK g \in [1 .. Entries -> 1 .. Len(segments) - 1] : \A n \in 1 .. Entries : g[n] = f[n] - 1
    <2> DEFINE h == [n \in 1 .. Entries |-> f[n] - 1]
    <2>1. h \in [1 .. Entries -> 1 .. Len(segments) - 1]
      BY <1>10
    <2>2. \A n \in 1 .. Entries : h[n] = f[n] - 1
      OBVIOUS
    <2> HIDE DEF h
    <2> QED BY <2>1, <2>2
  <1>12. \A n \in 1 .. Entries : segments'[g[n]] = segments[f[n]]
    BY <1>10, <1>11
  <1>13. Rising(g, Entries)'
    <2>1. ASSUME NEW m \in 1 .. Entries, NEW n \in 1 .. Entries, m < n
          PROVE  g[m] < g[n]
      <3>1. f[m] < f[n] /\ f[m] \in Int /\ f[n] \in Int
        BY <1>9, <1>10, <2>1 DEF Places, Rising
      <3> QED BY <1>11, <3>1
    <2> QED BY <1>4, <2>1 DEF Rising
  <1>14. LowOnes(g)'
    <2>1. ASSUME NEW n \in 1 .. Entries
          PROVE  g[n] \in Len(checkRsp) .. Dispatched - 1 /\ IsLow(segments'[g[n]].port)
      <3>1. f[n] \in Len(checkRsp) + 1 .. Dispatched /\ g[n] = f[n] - 1
        BY <1>10, <1>11
      <3>2. IsLow(segments[f[n]].port)
        BY <1>9 DEF Places, LowOnes
      <3>3. segments'[g[n]] = segments[f[n]]
        BY <1>12
      <3>4. g[n] \in Len(checkRsp) .. Dispatched - 1
        BY <3>1
      <3> QED BY <3>2, <3>3, <3>4
    <2>2. ASSUME NEW i \in Len(checkRsp) .. Dispatched - 1, IsLow(segments'[i].port)
          PROVE  \E n \in 1 .. Entries : g[n] = i
      <3>1. i + 1 \in Len(checkRsp) + 1 .. Dispatched /\ i \in 1 .. Len(segments) - 1
        BY <1>2
      <3>2. IsLow(segments[i + 1].port)
        BY <1>3, <2>2, <3>1
      <3>3. PICK n \in 1 .. Entries : f[n] = i + 1
        BY <1>9, <3>1, <3>2 DEF Places, LowOnes
      <3>4. g[n] = i
        BY <1>11, <3>3
      <3> QED BY <3>4
    <2>3. Len(checkRsp') + 1 = Len(checkRsp)
      BY <1>2
    <2> QED BY <1>4, <1>5, <2>1, <2>2, <2>3 DEF LowOnes
  <1>15. Answered(g)'
    <2>1. \A n \in 1 .. Len(listenAnswer) : n \in 1 .. Entries
      BY DEF Entries
    <2> QED BY <1>1, <1>9, <1>12, <2>1 DEF Places, Answered
  <1>16. Asked(g)'
    <2>1. \A n \in 1 .. Len(listenCheck) : Len(listenAnswer) + n \in 1 .. Entries
      BY DEF Entries
    <2> QED BY <1>1, <1>9, <1>12, <2>1 DEF Places, Asked
  <1>17. g \in [1 .. Entries' -> 1 .. Len(segments')]
    BY <1>3, <1>4
  <1> QED BY <1>6, <1>7, <1>8, <1>13, <1>14, <1>15, <1>16, <1>17 DEF InOrder, Places
-----------------------------------------------------------------------------
(* The invariant, and what follows from it.                                *)
LEMMA LineStep == TypeOK /\ LineInv /\ [Next]_vars => LineInv'
  <1> SUFFICES ASSUME TypeOK, LineInv, [Next]_vars PROVE LineInv'
    OBVIOUS
  <1>1. ASSUME UNCHANGED <<listeningPortTable, checks>> PROVE LineInv'
    BY <1>1, LineTableGrows DEF checks
  <1>2. CASE Listen
    <2>1. PICK p, o :
             listeningPortTable' = [listeningPortTable EXCEPT ![Cell(p)] = @ \/ o]
      BY <1>2, Zenon DEF Listen
    <2>2. \A c \in Cells : listeningPortTable[c] => listeningPortTable'[c]
      BY <2>1 DEF TypeOK
    <2>3. UNCHANGED checks
      BY <1>2 DEF Listen
    <2> QED BY <2>2, <2>3, LineTableGrows DEF checks
  <1>3. CASE CheckUsed
    <2>1. UNCHANGED <<listeningPortTable, checkReq, listenCheck, dstFifo, listenAnswer,
                      cmState, checkRsp, segments>>
      BY <1>3 DEF CheckUsed
    <2> QED BY <2>1, LineTableGrows
  <1>4. ReleasePort \/ SearchFreePort \/ ListenReturns \/ OpenConnection
          \/ (\E p \in Requested : ListenCall(p)) \/ (\E p \in Ports : EndConnection(p))
          \/ UNCHANGED vars => UNCHANGED <<listeningPortTable, checks>>
    BY Zenon DEF ReleasePort, SearchFreePort, ListenReturns, OpenConnection,
                 ListenCall, EndConnection, vars, tables
  <1>5. ListeningPortTable => LineInv'
    BY <1>2, LineCheckListening DEF ListeningPortTable
  <1>6. FreePortTable => LineInv'
    BY <1>1, <1>3, <1>4, Zenon DEF FreePortTable
  <1>7. CheckOut => LineInv'
    BY LineReadDst, LineReadListening, LineReadUsed DEF CheckOut
  <1>8. Arrival => LineInv'
    BY <1>1, <1>4, LineSegmentArrives, Zenon DEF Arrival
  <1> QED
    BY <1>1, <1>4, <1>5, <1>6, <1>7, <1>8, LineCheckIn, LineSegmentChecked, Zenon DEF Next

LEMMA Invariance == Spec => []IInv
  <1>1. Init => IInv
    <2> SUFFICES ASSUME Init PROVE IInv
      OBVIOUS
    <2> USE DEF Init
    <2>1. TypeOK
      BY HalfFacts DEF TypeOK
    <2>2. /\ Len(checkRsp) = 0 /\ Len(segments) = 0 /\ Len(dstFifo) = 0 /\ Len(checkReq) = 0
          /\ Len(listenAnswer) = 0 /\ Len(listenCheck) = 0
          /\ Len(usedAnswer) = 0 /\ Len(usedCheck) = 0 /\ Waiting = 0
      BY DEF Waiting
    <2>3. Dispatched = 0 /\ Entries = 0
      BY <2>2 DEF Dispatched, Entries
    <2>4. WasOpenIsOpen /\ AnswersFitSegments
      BY <2>2 DEF WasOpenIsOpen, AnswersFitSegments
    <2>5. InLine
      BY <2>2, <2>3 DEF InLine
    <2>6. InOrder
      <3> DEFINE f == [n \in 1 .. 0 |-> n]
      <3>1. f \in [1 .. Entries -> 1 .. Len(segments)]
        BY <2>2, <2>3
      <3> HIDE DEF f
      <3>2. Places(f)
        BY <2>2, <2>3 DEF Places, Rising, LowOnes, Answered, Asked
      <3> QED BY <3>1, <3>2 DEF InOrder
    <2>7. Counted
      <3>1. Flagged(dstFifo, TRUE) = {} /\ Flagged(dstFifo, FALSE) = {}
        BY DEF Flagged
      <3>2. Low = 0 /\ High = 0
        BY <3>1, FS_EmptySet DEF Low, High
      <3>3. WaitsFor("READ_LISTENING") = 0 /\ WaitsFor("READ_USED") = 0
        BY DEF WaitsFor
      <3> QED BY <2>2, <2>3, <3>2, <3>3 DEF Counted
    <2>8. ChecksAreCounted
      BY <2>1, <2>7, CountedIs
    <2> QED BY <2>1, <2>4, <2>5, <2>6, <2>8 DEF IInv, LineInv
  <1>2. IInv /\ [Next]_vars => IInv'
    <2>1. TypeOK /\ ChecksAreCounted /\ [Next]_vars => Counted'
      BY CountedIs, CountStep
    <2>2. TypeOK' => (ChecksAreCounted' <=> Counted')
      BY CountedIs, PTL
    <2> QED BY <2>1, <2>2, TypeStep, LineStep DEF IInv
  <1> QED BY <1>1, <1>2, PTL DEF Spec

(* The FIFOs hold ports, cells and answers, and the search for a free port *)
(* stays in the table (port_table.cpp:137).                                *)
THEOREM TypeCorrect == Spec => []TypeOK
  <1>1. IInv => TypeOK
    BY DEF IInv
  <1> QED BY <1>1, Invariance, PTL

(* Although two tables answer at their own pace, the answer in front is    *)
(* that of the segment in front (port_table.cpp:178-227).                  *)
THEOREM AnswersFit == Spec => []AnswerFitsSegment
  <1>1. IInv => AnswerFitsSegment
    <2> SUFFICES ASSUME IInv, checkRsp # <<>>, segments # <<>>, IsLow(Head(segments).port)
                 PROVE  /\ Head(checkRsp) => IsOpen(Head(segments).port)
                        /\ Head(segments).wasOpen => Head(checkRsp)
      BY DEF AnswerFitsSegment
    <2>1. Head(checkRsp) = checkRsp[1] /\ Len(checkRsp) \in Nat \ {0}
      BY TailFacts DEF IInv, TypeOK
    <2>2. Head(segments) = segments[1]
      BY TailFacts DEF IInv, TypeOK
    <2>3. Fits(segments[1], checkRsp[1], listeningPortTable)
      BY <2>1 DEF IInv, LineInv, AnswersFitSegments
    <2> QED BY <2>1, <2>2, <2>3 DEF Fits, IsOpen
  <1> QED BY <1>1, Invariance, PTL

(* No check is lost and none is made twice: each segment that waits has    *)
(* one request or answer under way (port_table.cpp:146-227).               *)
THEOREM ChecksCounted == Spec => []ChecksAreCounted
  <1>1. IInv => ChecksAreCounted
    BY DEF IInv
  <1> QED BY <1>1, Invariance, PTL
=============================================================================
