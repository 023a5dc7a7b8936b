----------------------------- MODULE RxPathProofs -----------------------------
(***************************************************************************)
(* Theorems about RxPath for any sessions, a buffer of any length and      *)
(* FIFOs of any depth, when only segments of the stream carry a payload    *)
(* (Stray = FALSE).                                                        *)
(*                                                                         *)
(* The payloads that wait stand in the order of their arrival.  Those past *)
(* the m-th are not judged yet, those up to the m-th have a verdict on     *)
(* their checksum, those up to the v-th one of the handler and those up    *)
(* to the x-th one of the FSM, each if it got that far (PipeInv).  What    *)
(* the FSM took, with what the application has not fetched, is a line of   *)
(* segments that continue the streams where the application stopped        *)
(* reading (StreamInv), in the order in which it is asked for (AskedInv).  *)
(***************************************************************************)
EXTENDS RxPath, CommonLemmas

Sound == {seg \in Segments :
             /\ seg.fault = "none" => seg.session \in Sessions
             /\ seg.fault = "none" /\ seg.kind = "ACK" => seg.seq + seg.length <= StreamLength
             /\ seg.kind = "FIN_ACK" => seg.seq + seg.length = StreamLength
             /\ seg.kind \in Kinds => seg.length = 0}
Carrying == {seg \in Sound : seg.length # 0}
Notes == [session : Sessions, length : Nat, closed : BOOLEAN]

(* The FIFOs and tables hold what belongs there.                           *)
SegmentTypes ==
    /\ payload \in Seq(Carrying) /\ data \in Seq(Carrying)
    /\ metaInfo \in Seq(Sound) /\ valid \in Seq(Sound) /\ fsmMeta \in Seq(Sound)
    /\ fsm # None => fsm \in Loaded /\ fsm.seg \in Sound
VerdictTypes ==
    /\ verdicts \in [{"checksum", "handler", "fsm"} -> Seq(BOOLEAN)]
    /\ dropper \in {"RD_VERIFY_CHECKSUM", "RD_META_HANDLER", "RD_FSM_DROP", "FWD", "DROP"}
ReadTypes ==
    /\ rx_table \in [Sessions -> Entries]
    /\ notifications \in Seq(Notes) /\ (reader # None => reader \in Readers)
    /\ answers \in Seq(Sessions) /\ requested \in [Sessions -> Nat]
    /\ got \in [Sessions -> Seq(Sessions \X Nat)]

TypeOK == SegmentTypes /\ VerdictTypes /\ ReadTypes
-----------------------------------------------------------------------------
(* The entries of fifo that are in K stand, in order, for the positions I  *)
(* of another sequence, and are what it has there.                         *)
Counting(fifo, K) == {j \in DOMAIN fifo : fifo[j] \in K}
Along(fifo, K, what, I) ==
    \E f \in [Counting(fifo, K) -> I] :
        /\ \A i, j \in Counting(fifo, K) : i < j => f[i] < f[j]
        /\ \A b \in I : \E a \in Counting(fifo, K) : f[a] = b
        /\ \A j \in Counting(fifo, K) : fifo[j] = what[f[j]]

LEMMA AlongAppend ==
    ASSUME NEW S, NEW fifo \in Seq(S), NEW e \in S, NEW K, NEW what, NEW I \in SUBSET Int,
           NEW b \in Int, \A i \in I : i < b, e \in K, what[b] = e, Along(fifo, K, what, I)
    PROVE  Along(Append(fifo, e), K, what, I \cup {b})
  <1> DEFINE n == Len(fifo) + 1
             A == Append(fifo, e)
             J == Counting(fifo, K)
  <1>1. /\ Len(fifo) \in Nat /\ DOMAIN fifo = 1 .. Len(fifo) /\ n \in Nat
        /\ DOMAIN A = 1 .. n /\ A[n] = e /\ \A i \in 1 .. Len(fifo) : A[i] = fifo[i]
    BY AppendProperties
  <1>2. Counting(A, K) = J \cup {n} /\ n \notin J /\ J \subseteq Nat /\ \A j \in J : j < n /\ A[j] = fifo[j]
    BY <1>1 DEF Counting
  <1>3. PICK f \in [J -> I] :
           /\ \A i, j \in J : i < j => f[i] < f[j]
           /\ \A c \in I : \E a \in J : f[a] = c
           /\ \A j \in J : fifo[j] = what[f[j]]
    BY DEF Along
  <1> DEFINE g == [j \in J \cup {n} |-> IF j = n THEN b ELSE f[j]]
  <1>4. g[n] = b /\ \A j \in J : g[j] = f[j] /\ f[j] \in I
    BY <1>2
  <1>5. g \in [J \cup {n} -> I \cup {b}]
    BY <1>2
  <1> HIDE DEF g, n, A, J
  <1>6. \A i, j \in J \cup {n} : i < j => g[i] < g[j]
    <2> SUFFICES ASSUME NEW i \in J \cup {n}, NEW j \in J \cup {n}, i < j PROVE g[i] < g[j]
      OBVIOUS
    <2>1. i \in J
      BY <1>1, <1>2
    <2>2. CASE j \in J
      BY <2>1, <2>2, <1>3, <1>4
    <2>3. CASE j = n
      BY <2>1, <2>3, <1>4
    <2> QED BY <2>2, <2>3
  <1>7. \A c \in I \cup {b} : \E a \in J \cup {n} : g[a] = c
    BY <1>3, <1>4
  <1>8. \A j \in J \cup {n} : A[j] = what[g[j]]
    BY <1>1, <1>2, <1>3, <1>4
  <1>9. Along(A, K, what, I \cup {b})
    <2> DEFINE N == J \cup {n}
    <2>1. Counting(A, K) = N
      BY <1>2
    <2>2. /\ g \in [N -> I \cup {b}]
          /\ \A i, j \in N : i < j => g[i] < g[j]
          /\ \A c \in I \cup {b} : \E a \in N : g[a] = c
          /\ \A j \in N : A[j] = what[g[j]]
      BY <1>5, <1>6, <1>7, <1>8
    <2> HIDE DEF N
    <2> QED BY <2>1, <2>2 DEF Along
  <1> QED BY <1>9 DEF A

LEMMA AlongAppendOther ==
    ASSUME NEW S, NEW fifo \in Seq(S), NEW e \in S, NEW K, NEW what, NEW I,
           e \notin K, Along(fifo, K, what, I)
    PROVE  Along(Append(fifo, e), K, what, I)
  <1> DEFINE n == Len(fifo) + 1
             A == Append(fifo, e)
  <1>1. /\ Len(fifo) \in Nat /\ DOMAIN fifo = 1 .. Len(fifo)
        /\ DOMAIN A = 1 .. n /\ A[n] = e /\ \A i \in 1 .. Len(fifo) : A[i] = fifo[i]
    BY AppendProperties
  <1>2. Counting(A, K) = Counting(fifo, K) /\ \A j \in Counting(fifo, K) : A[j] = fifo[j]
    BY <1>1 DEF Counting
  <1> HIDE DEF A
  <1>3. Along(A, K, what, I)
    BY <1>2 DEF Along
  <1> QED BY <1>3 DEF A

(* Taking the head: the least position goes with it.                       *)
LEMMA AlongTail ==
    ASSUME NEW S, NEW fifo \in Seq(S), fifo # <<>>, NEW K, NEW what, NEW I \in SUBSET Int,
           Head(fifo) \in K, Along(fifo, K, what, I)
    PROVE  \E b \in I : /\ \A i \in I : b <= i
                        /\ what[b] = Head(fifo)
                        /\ Along(Tail(fifo), K, what, I \ {b})
  <1> DEFINE T == Tail(fifo)
             J == Counting(fifo, K)
             L == Counting(T, K)
  <1>1. /\ Len(fifo) \in Nat \ {0} /\ DOMAIN fifo = 1 .. Len(fifo) /\ Head(fifo) = fifo[1]
        /\ DOMAIN T = 1 .. Len(fifo) - 1 /\ \A i \in 1 .. Len(fifo) - 1 : T[i] = fifo[i + 1]
    BY TailFacts
  <1>2. /\ J \subseteq Nat /\ 1 \in J /\ \A j \in J : j # 1 => 1 < j /\ j - 1 \in L
        /\ L \subseteq Nat /\ \A j \in L : 1 < j + 1 /\ j + 1 \in J /\ T[j] = fifo[j + 1]
    BY <1>1 DEF Counting
  <1>3. PICK f \in [J -> I] :
           /\ \A i, j \in J : i < j => f[i] < f[j]
           /\ \A c \in I : \E a \in J : f[a] = c
           /\ \A j \in J : fifo[j] = what[f[j]]
    BY DEF Along
  <1> DEFINE g == [j \in L |-> f[j + 1]]
  <1> HIDE DEF J, L, T
  <1>4. \A j \in L : g[j] = f[j + 1] /\ f[j + 1] \in I /\ f[1] < f[j + 1]
    BY <1>2, <1>3
  <1>5. f[1] \in I /\ f[1] \in Int
    BY <1>2, <1>3
  <1>6. g \in [L -> I \ {f[1]}]
    <2>1. \A j \in L : f[j + 1] \in I \ {f[1]}
      BY <1>4, <1>5
    <2> QED BY <2>1
  <1> HIDE DEF g
  <1>7. \A i, j \in L : i < j => g[i] < g[j]
    <2> SUFFICES ASSUME NEW i \in L, NEW j \in L, i < j PROVE g[i] < g[j]
      OBVIOUS
    <2>1. i + 1 < j + 1 /\ i + 1 \in J /\ j + 1 \in J
      BY <1>2
    <2> QED BY <2>1, <1>3, <1>4
  <1>8. \A c \in I \ {f[1]} : \E a \in L : g[a] = c
    <2> SUFFICES ASSUME NEW c \in I, c # f[1] PROVE \E a \in L : g[a] = c
      OBVIOUS
    <2>1. PICK a \in J : f[a] = c
      BY <1>3
    <2>2. a - 1 \in L /\ (a - 1) + 1 = a
      BY <1>2, <2>1
    <2> QED BY <1>4, <2>1, <2>2
  <1>9. \A j \in L : T[j] = what[g[j]]
    BY <1>2, <1>3, <1>4
  <1>10. Along(T, K, what, I \ {f[1]})
    BY <1>6, <1>7, <1>8, <1>9 DEF Along, L
  <1>11. \A i \in I : f[1] <= i
    <2> SUFFICES ASSUME NEW c \in I PROVE f[1] <= c
      OBVIOUS
    <2>1. PICK a \in J : f[a] = c
      BY <1>3
    <2> QED BY <2>1, <1>2, <1>3, <1>5
  <1>12. what[f[1]] = Head(fifo)
    BY <1>1, <1>2, <1>3
  <1> QED BY <1>5, <1>10, <1>11, <1>12 DEF T

LEMMA AlongTailOther ==
    ASSUME NEW S, NEW fifo \in Seq(S), fifo # <<>>, NEW K, NEW what, NEW I,
           Head(fifo) \notin K, Along(fifo, K, what, I)
    PROVE  Along(Tail(fifo), K, what, I)
  <1> DEFINE T == Tail(fifo)
             J == Counting(fifo, K)
             L == Counting(T, K)
  <1>1. /\ Len(fifo) \in Nat \ {0} /\ DOMAIN fifo = 1 .. Len(fifo) /\ Head(fifo) = fifo[1]
        /\ DOMAIN T = 1 .. Len(fifo) - 1 /\ \A i \in 1 .. Len(fifo) - 1 : T[i] = fifo[i + 1]
    BY TailFacts
  <1>2. /\ J \subseteq Nat /\ \A j \in J : j - 1 \in L
        /\ L \subseteq Nat /\ \A j \in L : j + 1 \in J /\ T[j] = fifo[j + 1]
    BY <1>1 DEF Counting
  <1>3. PICK f \in [J -> I] :
           /\ \A i, j \in J : i < j => f[i] < f[j]
           /\ \A c \in I : \E a \in J : f[a] = c
           /\ \A j \in J : fifo[j] = what[f[j]]
    BY DEF Along
  <1> DEFINE g == [j \in L |-> f[j + 1]]
  <1> HIDE DEF J, L, T
  <1>4. \A j \in L : g[j] = f[j + 1] /\ f[j + 1] \in I
    BY <1>2
  <1>5. g \in [L -> I]
    BY <1>2
  <1> HIDE DEF g
  <1>6. \A i, j \in L : i < j => g[i] < g[j]
    <2> SUFFICES ASSUME NEW i \in L, NEW j \in L, i < j PROVE g[i] < g[j]
      OBVIOUS
    <2>1. i + 1 < j + 1 /\ i + 1 \in J /\ j + 1 \in J
      BY <1>2
    <2> QED BY <2>1, <1>3, <1>4
  <1>7. \A c \in I : \E a \in L : g[a] = c
    <2> SUFFICES ASSUME NEW c \in I PROVE \E a \in L : g[a] = c
      OBVIOUS
    <2>1. PICK a \in J : f[a] = c
      BY <1>3
    <2>2. a - 1 \in L /\ (a - 1) + 1 = a
      BY <1>2, <2>1
    <2> QED BY <1>4, <2>1, <2>2
  <1>8. \A j \in L : T[j] = what[g[j]]
    BY <1>2, <1>3, <1>4
  <1>9. Along(T, K, what, I)
    BY <1>5, <1>6, <1>7, <1>8 DEF Along, L
  <1> QED BY <1>9 DEF T

(* The same entries for another sequence that has the same at I.           *)
LEMMA AlongAgrees ==
    ASSUME NEW fifo, NEW K, NEW what, NEW I, NEW other,
           Along(fifo, K, what, I), \A i \in I : other[i] = what[i]
    PROVE  Along(fifo, K, other, I)
  <1>1. PICK f \in [Counting(fifo, K) -> I] :
           /\ \A i, j \in Counting(fifo, K) : i < j => f[i] < f[j]
           /\ \A b \in I : \E a \in Counting(fifo, K) : f[a] = b
           /\ \A j \in Counting(fifo, K) : fifo[j] = what[f[j]]
    BY DEF Along
  <1>2. \A j \in Counting(fifo, K) : fifo[j] = other[f[j]]
    BY <1>1
  <1> QED BY <1>1, <1>2 DEF Along

(* When the sequence loses its head all positions move down.               *)
LEMMA AlongShift ==
    ASSUME NEW fifo, NEW K, NEW what, NEW I \in SUBSET Int, NEW other, NEW I2 \in SUBSET Int,
           Along(fifo, K, what, I), \A i \in Int : i \in I2 <=> i + 1 \in I,
           \A i \in I2 : other[i] = what[i + 1]
    PROVE  Along(fifo, K, other, I2)
  <1> DEFINE J == Counting(fifo, K)
  <1>1. PICK f \in [J -> I] :
           /\ \A i, j \in J : i < j => f[i] < f[j]
           /\ \A b \in I : \E a \in J : f[a] = b
           /\ \A j \in J : fifo[j] = what[f[j]]
    BY DEF Along
  <1> DEFINE g == [j \in J |-> f[j] - 1]
  <1> HIDE DEF J
  <1>2. \A j \in J : f[j] \in I /\ f[j] \in Int /\ g[j] = f[j] - 1 /\ g[j] \in Int /\ g[j] + 1 = f[j]
    <2> SUFFICES ASSUME NEW j \in J
                 PROVE  f[j] \in I /\ f[j] \in Int /\ g[j] = f[j] - 1 /\ g[j] \in Int /\ g[j] + 1 = f[j]
      OBVIOUS
    <2>1. f[j] \in I
      BY <1>1
    <2>2. g[j] = f[j] - 1
      OBVIOUS
    <2>3. PICK n \in Int : n = f[j]
      BY <2>1
    <2> HIDE DEF g
    <2> QED BY <2>1, <2>2, <2>3
  <1>3. \A j \in J : g[j] \in I2
    BY <1>2
  <1>4. g \in [J -> I2]
    BY <1>3
  <1> HIDE DEF g
  <1>5. \A i, j \in J : i < j => g[i] < g[j]
    BY <1>1, <1>2
  <1>6. \A c \in I2 : \E a \in J : g[a] = c
    <2> SUFFICES ASSUME NEW c \in I2 PROVE \E a \in J : g[a] = c
      OBVIOUS
    <2>1. PICK a \in J : f[a] = c + 1
      BY <1>1
    <2>2. g[a] = (c + 1) - 1 /\ c \in Int
      BY <1>2, <2>1
    <2> QED BY <2>2
  <1>7. \A j \in J : fifo[j] = other[g[j]]
    BY <1>1, <1>2, <1>3
  <1> QED BY <1>4, <1>5, <1>6, <1>7 DEF Along, J

(* A FIFO with nothing that counts stands for no position, and the other   *)
(* way round.                                                              *)
LEMMA AlongNone ==
    ASSUME NEW K, NEW what
    PROVE  /\ Along(<<>>, K, what, {})
           /\ \A fifo, I : Along(fifo, K, what, I) /\ Counting(fifo, K) = {} => I = {}
           /\ \A fifo, I : Along(fifo, K, what, I) /\ I = {} => Counting(fifo, K) = {}
  <1>1. Counting(<<>>, K) = {}
    BY DEF Counting
  <1>2. Along(<<>>, K, what, {})
    <2>1. \E f \in [{} -> {}] : TRUE
      <3>1. [x \in {} |-> x] \in [{} -> {}]
        OBVIOUS
      <3> QED BY <3>1
    <2> QED BY <1>1, <2>1 DEF Along
  <1>3. \A fifo, I : Along(fifo, K, what, I) /\ Counting(fifo, K) = {} => I = {}
    BY DEF Along
  <1>4. \A fifo, I : Along(fifo, K, what, I) /\ I = {} => Counting(fifo, K) = {}
    <2> SUFFICES ASSUME NEW fifo, NEW I, Along(fifo, K, what, I), I = {}, NEW j \in Counting(fifo, K)
                 PROVE  FALSE
      OBVIOUS
    <2>1. PICK f \in [Counting(fifo, K) -> I] : TRUE
      BY DEF Along
    <2> QED BY <2>1
  <1> QED BY <1>2, <1>3, <1>4
-----------------------------------------------------------------------------
(* The judgement.  Positions are those of payloads that wait; With(...)    *)
(* are those after lo up to hi whose segments have one of these faults.    *)
Faults == {"none", "checksum", "handler"}
Later  == {"none", "handler"}
Good   == {"none"}
With(line, faults, lo, hi) == {i \in lo + 1 .. hi : line[i].fault \in faults}

(* Whether the dropper has read a verdict on the first payload.            *)
Behind(states) == IF dropper \in states THEN 0 ELSE 1
PastChecksum == Behind({"RD_VERIFY_CHECKSUM"})
PastHandler  == Behind({"RD_VERIFY_CHECKSUM", "RD_META_HANDLER"})
PastFsm      == Behind({"RD_VERIFY_CHECKSUM", "RD_META_HANDLER", "RD_FSM_DROP"})

FsmLine == (IF fsm = None THEN <<>> ELSE <<fsm.seg>>) \o fsmMeta
Faulty(line, fault)   == [i \in DOMAIN line |-> line[i].fault = fault]
Unwanted(line, taken) == [i \in DOMAIN line |-> i \notin taken]

PipeInv(c, h, f, m, v, x, taken) ==
    /\ c = PastChecksum /\ h = PastHandler /\ f = PastFsm
    /\ x <= v /\ v <= m /\ m <= Len(payload)
    /\ taken \subseteq With(payload, Good, 0, x)
    /\ Along(metaInfo, Carrying, payload, With(payload, Faults, m, Len(payload)))
    /\ Along(valid, Carrying, payload, With(payload, Later, v, m))
    /\ Along(FsmLine, Carrying, payload, With(payload, Good, x, v))
    /\ Along(verdicts.checksum, BOOLEAN, Faulty(payload, "checksum"), With(payload, Faults, c, m))
    /\ Along(verdicts.handler, BOOLEAN, Faulty(payload, "handler"), With(payload, Later, h, v))
    /\ Along(verdicts.fsm, BOOLEAN, Unwanted(payload, taken), With(payload, Good, f, x))

(* What the dropper knows of the first payload.                            *)
DropInv(m, v, x, taken) ==
    /\ dropper # "RD_VERIFY_CHECKSUM" => m >= 1
    /\ dropper = "RD_META_HANDLER" => payload[1].fault # "checksum"
    /\ dropper = "RD_FSM_DROP" => v >= 1 /\ payload[1].fault = "none"
    /\ dropper = "FWD" => x >= 1 /\ 1 \in taken
    /\ dropper = "DROP" => /\ 1 \notin taken
                           /\ payload[1].fault = "handler" => v >= 1
                           /\ payload[1].fault = "none" => x >= 1

(* A segment is where it is because it passed what comes before; a FIN was *)
(* sent into the window.                                                   *)
FinFits(seg) == seg.kind = "FIN_ACK" /\ seg.fault = "none"
                   => StreamLength <= AdvertisedEdge(seg.session)
StagesInv ==
    /\ \A i \in DOMAIN metaInfo : FinFits(metaInfo[i])
    /\ \A i \in DOMAIN valid : FinFits(valid[i]) /\ valid[i].fault # "checksum"
    /\ \A i \in DOMAIN fsmMeta : FinFits(fsmMeta[i]) /\ fsmMeta[i].fault = "none"
    /\ fsm # None => FinFits(fsm.seg) /\ fsm.seg.fault = "none"
-----------------------------------------------------------------------------
(* What was taken and is not yet read, and how far each stream is before   *)
(* each of these segments.                                                 *)
Taken(table, s) == Min({table[s].recvd, StreamLength})

StreamInv(line, pos) ==
    /\ pos \in [0 .. Len(line) -> [Sessions -> Nat]]
    /\ \A s \in Sessions : pos[0][s] = Len(got[s])
    /\ \A k \in 1 .. Len(line) :
          /\ line[k].session \in Sessions
          /\ line[k].seq = pos[k - 1][line[k].session]
          /\ pos[k] = [pos[k - 1] EXCEPT ![line[k].session] = @ + line[k].length]
    /\ \A s \in Sessions : pos[Len(line)][s] = Taken(rx_table, s)
    /\ Len(answers) <= Len(line) /\ requested = pos[Len(answers)]
    /\ \A k \in 1 .. Len(answers) : answers[k] = line[k].session

(* What the application has been told of and not asked for.                *)
Wish(r) == [session |-> r.session, length |-> r.length]
Wanted  == [session : Sessions, length : Nat \ {0}]
Wishes(fifo) == [j \in DOMAIN fifo |-> Wish(fifo[j])]
AskedInv(line) ==
    /\ reader # None => Len(answers) < Len(line) /\ Wish(line[Len(answers) + 1]) = Wish(reader)
    /\ Along(Wishes(notifications), Wanted, Wishes(line), Len(answers) + One(reader) + 1 .. Len(line))

Judged(taken, rest) ==
    /\ Along(rest, Carrying, payload, taken)
    /\ \E c, h, f, m, v, x \in Nat : PipeInv(c, h, f, m, v, x, taken) /\ DropInv(m, v, x, taken)
LineInv ==
    \E taken \in SUBSET Int, rest, line \in Seq(Carrying) :
        /\ Judged(taken, rest) /\ line = data \o rest
        /\ \E pos \in [0 .. Len(line) -> [Sessions -> Nat]] : StreamInv(line, pos)
        /\ AskedInv(line)

(* The pointers, and the copy of them that the FSM decides on.             *)
WindowInv ==
    /\ UnreadFits
    /\ \A s \in Sessions : rx_table[s].appd = requested[s] % Window
    /\ reader # None => reader.appd = rx_table[reader.session].appd
    /\ fsm # None =>
          /\ fsm.sar.recvd = rx_table[fsm.seg.session].recvd
          /\ \E old \in 0 .. requested[fsm.seg.session] :
                /\ fsm.sar.appd = old % Window
                /\ Taken(rx_table, fsm.seg.session) - old < Window

IInv == TypeOK /\ StagesInv /\ LineInv /\ WindowInv /\ DeliveredIsStream
-----------------------------------------------------------------------------
(* Sets of positions.                                                      *)

(* One more payload.                                                       *)
LEMMA WithAppend ==
    ASSUME payload \in Seq(Carrying), NEW seg \in Carrying, payload' = Append(payload, seg),
           NEW faults, NEW lo \in Nat, NEW hi \in Nat, hi <= Len(payload)
    PROVE  /\ With(payload', faults, lo, hi) = With(payload, faults, lo, hi)
           /\ \A i \in With(payload, faults, lo, hi) : payload'[i] = payload[i]
                                              /\ i \in DOMAIN payload /\ i \in DOMAIN payload'
  <1>1. /\ Len(payload) \in Nat /\ DOMAIN payload = 1 .. Len(payload)
        /\ DOMAIN payload' = 1 .. Len(payload) + 1
        /\ \A i \in 1 .. Len(payload) : payload'[i] = payload[i]
    BY AppendProperties
  <1> QED BY <1>1 DEF With

(* The dropper reads a verdict on the first payload.                       *)
LEMMA WithFirst ==
    ASSUME NEW all, NEW hi \in Nat, NEW b \in With(payload, all, 0, hi),
           \A i \in With(payload, all, 0, hi) : b <= i, payload[1].fault \in all
    PROVE  b = 1 /\ hi >= 1 /\ With(payload, all, 0, hi) \ {b} = With(payload, all, 1, hi)
  <1>1. b \in Nat /\ 1 <= b /\ b <= hi
    BY DEF With
  <1>2. 1 \in With(payload, all, 0, hi)
    BY <1>1 DEF With
  <1>3. b = 1
    BY <1>1, <1>2
  <1>4. \A i : i \in With(payload, all, 0, hi) \ {1} <=> i \in With(payload, all, 1, hi)
    BY <1>1 DEF With
  <1> QED BY <1>1, <1>3, <1>4

LEMMA WithoutFirst ==
    ASSUME NEW some, NEW hi \in Nat, payload[1].fault \notin some
    PROVE  With(payload, some, 0, hi) = With(payload, some, 1, hi)
  <1>1. \A i : i \in With(payload, some, 0, hi) <=> i \in With(payload, some, 1, hi)
    BY DEF With
  <1> QED BY <1>1

(* The first payload leaves.                                               *)
Down(n) == IF n = 0 THEN 0 ELSE n - 1
LEMMA WithTail ==
    ASSUME payload \in Seq(Carrying), payload # <<>>, payload' = Tail(payload),
           NEW all, NEW lo \in Nat, NEW hi \in Nat, hi <= Len(payload),
           lo = 0 => hi = 0 \/ payload[1].fault \notin all
    PROVE  /\ With(payload', all, Down(lo), Down(hi)) \in SUBSET Int /\ With(payload, all, lo, hi) \in SUBSET Int
           /\ \A i \in Int : i \in With(payload', all, Down(lo), Down(hi)) <=> i + 1 \in With(payload, all, lo, hi)
           /\ \A i \in With(payload', all, Down(lo), Down(hi)) :
                 payload'[i] = payload[i + 1] /\ i \in DOMAIN payload' /\ i + 1 \in DOMAIN payload
           /\ Down(lo) \in Nat /\ Down(hi) \in Nat
  <1>1. /\ Len(payload) \in Nat \ {0} /\ DOMAIN payload = 1 .. Len(payload)
        /\ DOMAIN payload' = 1 .. Len(payload) - 1
        /\ \A i \in 1 .. Len(payload) - 1 : payload'[i] = payload[i + 1]
    BY TailFacts
  <1>2. PICK l \in Nat, h \in Nat : l = Down(lo) /\ h = Down(hi)
    BY DEF Down
  <1>3. With(payload', all, Down(lo), Down(hi)) = {i \in l + 1 .. h : payload'[i].fault \in all}
    BY <1>2 DEF With
  <1>4. h <= Len(payload) - 1 /\ l + 1 >= lo /\ (lo # 0 => l + 1 = lo)
        /\ (lo = 0 => l = 0) /\ (hi # 0 => h + 1 = hi) /\ (hi = 0 => h = 0)
    BY <1>1, <1>2 DEF Down
  <1>5. ASSUME NEW i \in Int
        PROVE  i \in With(payload', all, Down(lo), Down(hi)) <=> i + 1 \in With(payload, all, lo, hi)
    <2>1. ASSUME i \in l + 1 .. h, payload'[i].fault \in all PROVE i + 1 \in With(payload, all, lo, hi)
      <3>1. payload'[i] = payload[i + 1] /\ i + 1 \in lo + 1 .. hi
        BY <2>1, <1>1, <1>4
      <3> QED BY <2>1, <3>1 DEF With
    <2>2. ASSUME i + 1 \in lo + 1 .. hi, payload[i + 1].fault \in all
          PROVE  i \in l + 1 .. h /\ payload'[i].fault \in all
      <3>1. i # 0
        BY <2>2
      <3>2. i \in l + 1 .. h
        BY <2>2, <3>1, <1>4
      <3>3. payload'[i] = payload[i + 1]
        BY <3>2, <1>1, <1>4
      <3> QED BY <2>2, <3>2, <3>3
    <2> QED BY <2>1, <2>2, <1>3 DEF With
  <1>6. \A i \in l + 1 .. h : payload'[i] = payload[i + 1] /\ i \in DOMAIN payload' /\ i + 1 \in DOMAIN payload
    BY <1>1, <1>4
  <1> QED BY <1>2, <1>3, <1>5, <1>6 DEF With
-----------------------------------------------------------------------------
(* The steps of the judgement.                                             *)
LEMMA SegmentFacts ==
    ASSUME payload \in Seq(Carrying)
    PROVE  /\ Len(payload) \in Nat /\ DOMAIN payload = 1 .. Len(payload)
           /\ \A i \in 1 .. Len(payload) : payload[i] \in Carrying /\ payload[i].fault \in Faults
  <1>1. Len(payload) \in Nat /\ DOMAIN payload = 1 .. Len(payload)
        /\ \A i \in 1 .. Len(payload) : payload[i] \in Carrying
    BY LenProperties, ElementOfSeq
  <1>2. \A seg \in Carrying : seg.fault \in Faults
    BY DEF Carrying, Sound, Segments, Faults
  <1> QED BY <1>1, <1>2

(* The payloads and the dropper stay as they are.                          *)
LEMMA SamePlaces ==
    ASSUME UNCHANGED <<payload, dropper>>
    PROVE  /\ \A faults, lo, hi : With(payload', faults, lo, hi) = With(payload, faults, lo, hi)
           /\ PastChecksum' = PastChecksum /\ PastHandler' = PastHandler /\ PastFsm' = PastFsm
           /\ \A fault : Faulty(payload', fault) = Faulty(payload, fault)
           /\ \A taken : Unwanted(payload', taken) = Unwanted(payload, taken)
           /\ \A m, v, x, taken : DropInv(m, v, x, taken) => DropInv(m, v, x, taken)'
  BY DEF With, PastChecksum, PastHandler, PastFsm, Behind, Faulty, Unwanted, DropInv

LEMMA PipeArrives ==
    ASSUME TypeOK, NEW seg \in Sound, rxEngGetMetaData(seg),
           NEW c \in Nat, NEW h \in Nat, NEW f \in Nat, NEW m \in Nat, NEW v \in Nat, NEW x \in Nat,
           NEW taken \in SUBSET Int, NEW rest,
           PipeInv(c, h, f, m, v, x, taken), DropInv(m, v, x, taken), Along(rest, Carrying, payload, taken)
    PROVE  /\ PipeInv(c, h, f, m, v, x, taken)' /\ DropInv(m, v, x, taken)'
           /\ Along(rest, Carrying, payload', taken)
  <1>1. /\ payload \in Seq(Carrying) /\ metaInfo \in Seq(Sound)
        /\ metaInfo' = Append(metaInfo, seg)
        /\ valid' = valid /\ verdicts' = verdicts /\ dropper' = dropper /\ fsm' = fsm /\ fsmMeta' = fsmMeta
        /\ seg.length # 0 => payload' = Append(payload, seg)
        /\ seg.length = 0 => payload' = payload
    BY DEF TypeOK, SegmentTypes, rxEngGetMetaData, reading
  <1>2. FsmLine' = FsmLine
    BY <1>1 DEF FsmLine
  <1>3. CASE seg.length = 0
    <2>1. Along(metaInfo', Carrying, payload, With(payload, Faults, m, Len(payload)))
      <3>1. seg \notin Carrying /\ Along(metaInfo, Carrying, payload, With(payload, Faults, m, Len(payload)))
        BY <1>3 DEF Carrying, PipeInv
      <3> QED BY <3>1, <1>1, AlongAppendOther
    <2>2. payload' = payload
      BY <1>1, <1>3
    <2>3. /\ PastChecksum' = PastChecksum /\ PastHandler' = PastHandler /\ PastFsm' = PastFsm
          /\ Faulty(payload', "checksum") = Faulty(payload, "checksum") /\ Faulty(payload', "handler") = Faulty(payload, "handler")
          /\ Unwanted(payload', taken) = Unwanted(payload, taken)
          /\ DropInv(m, v, x, taken)'
      BY <2>2, <1>1, SamePlaces
    <2>4. /\ With(payload', Faults, m, Len(payload')) = With(payload, Faults, m, Len(payload))
          /\ With(payload', Later, v, m) = With(payload, Later, v, m)
          /\ With(payload', Good, x, v) = With(payload, Good, x, v)
          /\ With(payload', Good, 0, x) = With(payload, Good, 0, x)
          /\ With(payload', Faults, c, m) = With(payload, Faults, c, m)
          /\ With(payload', Later, h, v) = With(payload, Later, h, v)
          /\ With(payload', Good, f, x) = With(payload, Good, f, x)
      BY <2>2, <2>3 DEF With
    <2>5. PipeInv(c, h, f, m, v, x, taken)'
      BY <2>1, <2>2, <2>3, <2>4, <1>1, <1>2 DEF PipeInv
    <2>6. Along(rest, Carrying, payload', taken)
      BY <2>2
    <2> QED BY <2>3, <2>5, <2>6
  <1>4. CASE seg.length # 0
    <2> DEFINE n == Len(payload) + 1
    <2>1. seg \in Carrying /\ payload' = Append(payload, seg)
      BY <1>1, <1>4 DEF Carrying
    <2>2. /\ x <= v /\ v <= m /\ m <= Len(payload) /\ Len(payload) \in Nat /\ n \in Nat
          /\ v <= Len(payload) /\ x <= Len(payload)
          /\ Len(payload') = n /\ DOMAIN payload = 1 .. Len(payload) /\ DOMAIN payload' = 1 .. n
          /\ payload'[n] = seg /\ seg.fault \in Faults
          /\ \A i \in 1 .. Len(payload) : payload'[i] = payload[i]
      BY <2>1, <1>1, AppendProperties DEF PipeInv, Carrying, Sound, Segments, Faults
    <2>3. c = PastChecksum' /\ h = PastHandler' /\ f = PastFsm'
      BY <1>1 DEF PastChecksum, PastHandler, PastFsm, Behind, PipeInv
    <2>4. ASSUME NEW faults, NEW lo \in Nat, NEW hi \in Nat, hi <= Len(payload)
          PROVE  /\ With(payload', faults, lo, hi) = With(payload, faults, lo, hi)
                 /\ \A i \in With(payload, faults, lo, hi) :
                       /\ payload'[i] = payload[i]
                       /\ Faulty(payload', "checksum")[i] = Faulty(payload, "checksum")[i]
                       /\ Faulty(payload', "handler")[i] = Faulty(payload, "handler")[i]
                       /\ Unwanted(payload', taken)[i] = Unwanted(payload, taken)[i]
      <3>1. /\ With(payload', faults, lo, hi) = With(payload, faults, lo, hi)
            /\ \A i \in With(payload, faults, lo, hi) : payload'[i] = payload[i]
                                              /\ i \in DOMAIN payload /\ i \in DOMAIN payload'
        BY <2>1, <2>4, <1>1, WithAppend
      <3> QED BY <3>1 DEF Faulty, Unwanted
    <2>5. Along(valid', Carrying, payload', With(payload', Later, v, m))
      <3>0. m <= Len(payload)
        BY <2>2
      <3>1. With(payload', Later, v, m) = With(payload, Later, v, m)
        BY <3>0, <2>4, Zenon
      <3>4. \A i \in With(payload, Later, v, m) : payload'[i] = payload[i]
        BY <3>0, <2>4
      <3>2. Along(valid, Carrying, payload, With(payload, Later, v, m))
        BY DEF PipeInv
      <3>3. Along(valid, Carrying, payload', With(payload, Later, v, m))
        BY <3>2, <3>4, AlongAgrees
      <3> QED BY <3>1, <3>3, <1>1
    <2>6. Along(FsmLine', Carrying, payload', With(payload', Good, x, v))
      <3>0. v <= Len(payload)
        BY <2>2
      <3>1. With(payload', Good, x, v) = With(payload, Good, x, v)
        BY <3>0, <2>4, Zenon
      <3>4. \A i \in With(payload, Good, x, v) : payload'[i] = payload[i]
        BY <3>0, <2>4
      <3>2. Along(FsmLine, Carrying, payload, With(payload, Good, x, v))
        BY DEF PipeInv
      <3>3. Along(FsmLine, Carrying, payload', With(payload, Good, x, v))
        BY <3>2, <3>4, AlongAgrees
      <3> QED BY <3>1, <3>3, <1>2
    <2>7. Along(verdicts'.checksum, BOOLEAN, Faulty(payload', "checksum"), With(payload', Faults, c, m))
      <3>0. m <= Len(payload)
        BY <2>2
      <3>1. With(payload', Faults, c, m) = With(payload, Faults, c, m)
        BY <3>0, <2>4, Zenon
      <3>4. \A i \in With(payload, Faults, c, m) : Faulty(payload', "checksum")[i] = Faulty(payload, "checksum")[i]
        BY <3>0, <2>4
      <3>2. Along(verdicts.checksum, BOOLEAN, Faulty(payload, "checksum"), With(payload, Faults, c, m))
        BY DEF PipeInv
      <3>3. Along(verdicts.checksum, BOOLEAN, Faulty(payload', "checksum"), With(payload, Faults, c, m))
        BY <3>2, <3>4, AlongAgrees
      <3> QED BY <3>1, <3>3, <1>1
    <2>8. Along(verdicts'.handler, BOOLEAN, Faulty(payload', "handler"), With(payload', Later, h, v))
      <3>0. v <= Len(payload)
        BY <2>2
      <3>1. With(payload', Later, h, v) = With(payload, Later, h, v)
        BY <3>0, <2>4, Zenon
      <3>4. \A i \in With(payload, Later, h, v) : Faulty(payload', "handler")[i] = Faulty(payload, "handler")[i]
        BY <3>0, <2>4
      <3>2. Along(verdicts.handler, BOOLEAN, Faulty(payload, "handler"), With(payload, Later, h, v))
        BY DEF PipeInv
      <3>3. Along(verdicts.handler, BOOLEAN, Faulty(payload', "handler"), With(payload, Later, h, v))
        BY <3>2, <3>4, AlongAgrees
      <3> QED BY <3>1, <3>3, <1>1
    <2>9. Along(verdicts'.fsm, BOOLEAN, Unwanted(payload', taken), With(payload', Good, f, x))
      <3>0. x <= Len(payload)
        BY <2>2
      <3>1. With(payload', Good, f, x) = With(payload, Good, f, x)
        BY <3>0, <2>4, Zenon
      <3>4. \A i \in With(payload, Good, f, x) : Unwanted(payload', taken)[i] = Unwanted(payload, taken)[i]
        BY <3>0, <2>4
      <3>2. Along(verdicts.fsm, BOOLEAN, Unwanted(payload, taken), With(payload, Good, f, x))
        BY DEF PipeInv
      <3>3. Along(verdicts.fsm, BOOLEAN, Unwanted(payload', taken), With(payload, Good, f, x))
        BY <3>2, <3>4, AlongAgrees
      <3> QED BY <3>1, <3>3, <1>1
    <2>10. /\ taken \subseteq With(payload, Good, 0, x) /\ With(payload', Good, 0, x) = With(payload, Good, 0, x)
      BY <2>2, <2>4 DEF PipeInv
    <2>11. Along(metaInfo', Carrying, payload', With(payload', Faults, m, Len(payload')))
      <3>1. \A i \in With(payload, Faults, m, Len(payload)) : payload'[i] = payload[i]
        BY <2>2, <2>4
      <3>2. Along(metaInfo, Carrying, payload, With(payload, Faults, m, Len(payload)))
        BY DEF PipeInv
      <3>3. Along(metaInfo, Carrying, payload', With(payload, Faults, m, Len(payload)))
        BY <3>1, <3>2, AlongAgrees
      <3>4. /\ With(payload, Faults, m, Len(payload)) \in SUBSET Int
            /\ \A i \in With(payload, Faults, m, Len(payload)) : i < n
        BY <2>2 DEF With
      <3>5. n \in Int /\ payload'[n] = seg /\ seg \in Carrying /\ seg \in Sound
        BY <2>1, <2>2
      <3> HIDE DEF n
      <3>6. Along(Append(metaInfo, seg), Carrying, payload', With(payload, Faults, m, Len(payload)) \cup {n})
        BY <3>3, <3>4, <3>5, <1>1, AlongAppend
      <3>7. With(payload', Faults, m, Len(payload')) = {i \in m + 1 .. n : payload'[i].fault \in Faults}
        BY <2>2 DEF With
      <3>8. With(payload, Faults, m, Len(payload)) = {i \in m + 1 .. Len(payload) : payload'[i].fault \in Faults}
        BY <2>2 DEF With
      <3>9. With(payload', Faults, m, Len(payload')) = With(payload, Faults, m, Len(payload)) \cup {n}
        <4>1. \A i : i \in m + 1 .. n <=> i \in m + 1 .. Len(payload) \/ i = n
          BY <2>2 DEF n
        <4> QED BY <4>1, <3>7, <3>8, <2>2
      <3> QED BY <3>6, <3>9, <1>1
    <2>12. PipeInv(c, h, f, m, v, x, taken)'
      <3>1. x <= v /\ v <= m /\ m <= Len(payload') /\ taken \subseteq With(payload', Good, 0, x)
        BY <2>2, <2>10
      <3> QED BY <3>1, <2>3, <2>5, <2>6, <2>7, <2>8, <2>9, <2>11 DEF PipeInv
    <2>13. DropInv(m, v, x, taken)'
      <3>1. m >= 1 => payload'[1] = payload[1]
        BY <2>2
      <3> QED BY <3>1, <2>2, <1>1 DEF DropInv
    <2>14. Along(rest, Carrying, payload', taken)
      <3>1. \A i \in taken : payload'[i] = payload[i]
        BY <2>2, <2>4, <2>10
      <3> QED BY <3>1, AlongAgrees
    <2> QED BY <2>12, <2>13, <2>14
  <1> QED BY <1>3, <1>4

(* A stage judges the first of its segments, the payload at b: nothing is  *)
(* left before it, and it has none of the faults in between.               *)
JudgedAt(b, line, fifo, all, past, lo, hi, told, what) ==
    /\ past < b /\ lo < b /\ b <= hi
    /\ line[b] = Head(fifo) /\ line[b].fault \in all
    /\ Along(Tail(fifo), Carrying, line, With(line, all, b, hi))
    /\ \A other : \A verdict \in BOOLEAN :
          (other[b] = verdict /\ \A i \in With(line, all, past, lo) : other[i] = what[i])
             => Along(Append(told, verdict), BOOLEAN, other, With(line, all, past, b))
    /\ \A some \in SUBSET all, start \in Nat : start <= lo =>
          /\ \A i \in With(line, some, start, lo) : i < b
          /\ line[b].fault \in some
                => With(line, some, start, b) = With(line, some, start, lo) \cup {b}
          /\ line[b].fault \notin some
                => With(line, some, start, b) = With(line, some, start, lo)

LEMMA Judging ==
    ASSUME NEW fifo \in Seq(Sound), fifo # <<>>, Head(fifo) \in Carrying,
           NEW all, NEW lo \in Nat, NEW hi \in Nat, NEW past \in 0 .. 1,
           past = 0 \/ lo >= 1 \/ payload[1].fault \notin all,
           Along(fifo, Carrying, payload, With(payload, all, lo, hi)),
           NEW told \in Seq(BOOLEAN), NEW what, Along(told, BOOLEAN, what, With(payload, all, past, lo))
    PROVE  \E b \in Nat : JudgedAt(b, payload, fifo, all, past, lo, hi, told, what)
  <1>1. With(payload, all, lo, hi) \in SUBSET Int /\ With(payload, all, past, lo) \in SUBSET Int
    BY DEF With
  <1>2. PICK b \in With(payload, all, lo, hi) :
           /\ \A i \in With(payload, all, lo, hi) : b <= i
           /\ payload[b] = Head(fifo)
           /\ Along(Tail(fifo), Carrying, payload, With(payload, all, lo, hi) \ {b})
    BY <1>1, AlongTail
  <1>3. b \in Nat /\ lo < b /\ b <= hi /\ payload[b].fault \in all
    BY DEF With
  <1>4. past \in Nat /\ past < b
    <2>1. CASE past = 0 \/ lo >= 1
      BY <2>1, <1>3
    <2>2. CASE payload[1].fault \notin all
      BY <2>2, <1>3
    <2> QED BY <2>1, <2>2
  <1>5. \A i \in lo + 1 .. b - 1 : payload[i].fault \notin all
    <2> SUFFICES ASSUME NEW i \in lo + 1 .. b - 1, payload[i].fault \in all PROVE FALSE
      OBVIOUS
    <2>1. i \in With(payload, all, lo, hi)
      BY <1>3, <1>4 DEF With
    <2> QED BY <2>1, <1>2, <1>3, <1>4
  <1>6. With(payload, all, lo, hi) \ {b} = With(payload, all, b, hi)
    <2>1. \A i : i \in With(payload, all, lo, hi) \ {b} => i \in With(payload, all, b, hi)
      BY <1>3, <1>4, <1>5 DEF With
    <2>2. \A i : i \in With(payload, all, b, hi) => i \in With(payload, all, lo, hi) \ {b}
      BY <1>3, <1>4 DEF With
    <2> QED BY <2>1, <2>2
  <1>7. With(payload, all, past, lo) \cup {b} = With(payload, all, past, b) /\ \A i \in With(payload, all, past, lo) : i < b
    <2>1. \A i : i \in With(payload, all, past, lo) \cup {b} => i \in With(payload, all, past, b)
      BY <1>3, <1>4 DEF With
    <2>2. \A i : i \in With(payload, all, past, b) => i \in With(payload, all, past, lo) \cup {b}
      BY <1>3, <1>4, <1>5 DEF With
    <2>3. \A i \in With(payload, all, past, lo) : i < b
      BY <1>3, <1>4 DEF With
    <2> QED BY <2>1, <2>2, <2>3
  <1>8. ASSUME NEW some \in SUBSET all, NEW start \in Nat, start <= lo
        PROVE  /\ \A i \in With(payload, some, start, lo) : i < b
               /\ payload[b].fault \in some
                     => With(payload, some, start, b) = With(payload, some, start, lo) \cup {b}
               /\ payload[b].fault \notin some
                     => With(payload, some, start, b) = With(payload, some, start, lo)
    <2>1. \A i \in With(payload, some, start, lo) : i < b
      BY <1>3, <1>4, <1>8 DEF With
    <2>2. \A i : i \in With(payload, some, start, b) => i \in With(payload, some, start, lo) \/ (i = b /\ payload[b].fault \in some)
      BY <1>3, <1>4, <1>5, <1>8 DEF With
    <2>3. \A i : i \in With(payload, some, start, lo) => i \in With(payload, some, start, b)
      BY <1>3, <1>4, <1>8 DEF With
    <2>4. payload[b].fault \in some => b \in With(payload, some, start, b)
      BY <1>3, <1>4, <1>8 DEF With
    <2>5. CASE payload[b].fault \in some
      <3>1. \A i : i \in With(payload, some, start, b) <=> i \in With(payload, some, start, lo) \cup {b}
        BY <2>2, <2>3, <2>4, <2>5
      <3>2. With(payload, some, start, b) = With(payload, some, start, lo) \cup {b}
        BY <3>1
      <3> QED BY <2>1, <2>5, <3>2
    <2>6. CASE payload[b].fault \notin some
      <3>1. \A i : i \in With(payload, some, start, b) <=> i \in With(payload, some, start, lo)
        BY <2>2, <2>3, <2>6
      <3>2. With(payload, some, start, b) = With(payload, some, start, lo)
        BY <3>1
      <3> QED BY <2>1, <2>6, <3>2
    <2> QED BY <2>5, <2>6
  <1>9. ASSUME NEW other, NEW verdict \in BOOLEAN, other[b] = verdict,
               \A i \in With(payload, all, past, lo) : other[i] = what[i]
        PROVE  Along(Append(told, verdict), BOOLEAN, other, With(payload, all, past, b))
    <2>1. Along(told, BOOLEAN, other, With(payload, all, past, lo))
      BY <1>9, AlongAgrees
    <2>2. Along(Append(told, verdict), BOOLEAN, other, With(payload, all, past, lo) \cup {b})
      BY <2>1, <1>1, <1>3, <1>7, <1>9, AlongAppend
    <2> QED BY <2>2, <1>7
  <1>10. Along(Tail(fifo), Carrying, payload, With(payload, all, b, hi))
    BY <1>2, <1>6
  <1>11. JudgedAt(b, payload, fifo, all, past, lo, hi, told, what)
    BY <1>2, <1>3, <1>4, <1>8, <1>9, <1>10 DEF JudgedAt
  <1> QED BY <1>3, <1>11
LEMMA PipeChecked ==
    ASSUME TypeOK, rxEngVerifyCheckSum,
           NEW c \in Nat, NEW h \in Nat, NEW f \in Nat, NEW m \in Nat, NEW v \in Nat, NEW x \in Nat,
           NEW taken \in SUBSET Int,
           PipeInv(c, h, f, m, v, x, taken), DropInv(m, v, x, taken)
    PROVE  \E b \in Nat : PipeInv(c, h, f, b, v, x, taken)' /\ DropInv(b, v, x, taken)'
  <1> DEFINE seg == Head(metaInfo)
             bad == seg.fault = "checksum"
  <1>1. /\ payload \in Seq(Carrying) /\ metaInfo \in Seq(Sound) /\ valid \in Seq(Sound)
        /\ verdicts \in [{"checksum", "handler", "fsm"} -> Seq(BOOLEAN)]
        /\ metaInfo # <<>> /\ metaInfo' = Tail(metaInfo)
        /\ bad => valid' = valid
        /\ ~bad => valid' = Append(valid, seg)
        /\ payload' = payload /\ dropper' = dropper /\ fsm' = fsm /\ fsmMeta' = fsmMeta
    BY DEF TypeOK, SegmentTypes, VerdictTypes, rxEngVerifyCheckSum
  <1>2. /\ seg.length = 0 => verdicts' = verdicts
        /\ seg.length # 0 => verdicts' = [verdicts EXCEPT !["checksum"] = Append(@, bad)]
    BY DEF rxEngVerifyCheckSum, Judge
  <1>3. seg \in Sound /\ (seg.length # 0 <=> seg \in Carrying)
    BY <1>1, TailFacts DEF Carrying
  <1>4. /\ FsmLine' = FsmLine
        /\ c = PastChecksum' /\ h = PastHandler' /\ f = PastFsm'
    BY <1>1 DEF FsmLine, PastChecksum, PastHandler, PastFsm, Behind, PipeInv
  <1>5. /\ Along(metaInfo, Carrying, payload, With(payload, Faults, m, Len(payload)))
        /\ Along(valid, Carrying, payload, With(payload, Later, v, m))
        /\ Along(FsmLine, Carrying, payload, With(payload, Good, x, v))
        /\ Along(verdicts.checksum, BOOLEAN, Faulty(payload, "checksum"), With(payload, Faults, c, m))
        /\ Along(verdicts.handler, BOOLEAN, Faulty(payload, "handler"), With(payload, Later, h, v))
        /\ Along(verdicts.fsm, BOOLEAN, Unwanted(payload, taken), With(payload, Good, f, x))
        /\ x <= v /\ v <= m /\ m <= Len(payload) /\ taken \subseteq With(payload, Good, 0, x)
    BY DEF PipeInv
  <1>6. Len(payload) \in Nat /\ DOMAIN payload = 1 .. Len(payload)
    BY <1>1, SegmentFacts
  <1>7. CASE seg \notin Carrying
    <2>1. Along(metaInfo', Carrying, payload', With(payload', Faults, m, Len(payload')))
      BY <1>1, <1>5, <1>7, AlongTailOther
    <2>2. Along(valid', Carrying, payload', With(payload', Later, v, m))
      <3>1. CASE bad
        BY <3>1, <1>1, <1>5
      <3>2. CASE ~bad
        BY <3>2, <1>1, <1>3, <1>5, <1>7, AlongAppendOther
      <3> QED BY <3>1, <3>2
    <2>3. verdicts' = verdicts
      BY <1>2, <1>3, <1>7
    <2>4. PipeInv(c, h, f, m, v, x, taken)'
      BY <2>1, <2>2, <2>3, <1>1, <1>4, <1>5 DEF PipeInv
    <2>5. DropInv(m, v, x, taken)'
      BY <1>1 DEF DropInv
    <2> QED BY <2>4, <2>5
  <1>8. CASE seg \in Carrying
    <2>1. c \in 0 .. 1 /\ (c = 0 \/ m >= 1)
      BY <1>4, <1>1 DEF PastChecksum, Behind, DropInv
    <2>2. PICK b \in Nat : JudgedAt(b, payload, metaInfo, Faults, c, m, Len(payload),
                                    verdicts.checksum, Faulty(payload, "checksum"))
      <3>1. verdicts.checksum \in Seq(BOOLEAN) /\ Head(metaInfo) \in Carrying
        BY <1>1, <1>8
      <3> QED BY <3>1, <2>1, <1>1, <1>5, <1>6, Judging
    <2>3. /\ c < b /\ m < b /\ b <= Len(payload)
          /\ payload[b] = seg /\ payload[b].fault \in Faults
          /\ Along(Tail(metaInfo), Carrying, payload, With(payload, Faults, b, Len(payload)))
      BY <2>2 DEF JudgedAt
    <2>4. Along(verdicts'.checksum, BOOLEAN, Faulty(payload', "checksum"), With(payload', Faults, c, b))
      <3>1. Faulty(payload, "checksum")[b] = bad /\ bad \in BOOLEAN
        BY <2>3, <1>6 DEF Faulty
      <3>2. Along(Append(verdicts.checksum, bad), BOOLEAN, Faulty(payload, "checksum"), With(payload, Faults, c, b))
        BY <3>1, <2>2 DEF JudgedAt
      <3>3. verdicts'.checksum = Append(verdicts.checksum, bad)
        BY <1>1, <1>2, <1>3, <1>8
      <3> QED BY <3>2, <3>3, <1>1
    <2>5. verdicts'.handler = verdicts.handler /\ verdicts'.fsm = verdicts.fsm
      BY <1>1, <1>2, <1>3, <1>8
    <2>6. Along(valid', Carrying, payload', With(payload', Later, v, b))
      <3>1. Later \in SUBSET Faults /\ (payload[b].fault \in Later <=> ~bad)
        BY <2>3 DEF Later, Faults
      <3>2. CASE bad
        <4>1. With(payload, Later, v, b) = With(payload, Later, v, m)
          BY <3>1, <3>2, <2>2, <1>5 DEF JudgedAt
        <4> QED BY <4>1, <3>2, <1>1, <1>5
      <3>3. CASE ~bad
        <4>1. /\ With(payload, Later, v, b) = With(payload, Later, v, m) \cup {b}
              /\ \A i \in With(payload, Later, v, m) : i < b
          BY <3>1, <3>3, <2>2, <1>5 DEF JudgedAt
        <4>2. With(payload, Later, v, m) \in SUBSET Int /\ b \in Int /\ payload[b] = seg
          BY <2>3 DEF With
        <4> HIDE DEF seg
        <4>3. Along(Append(valid, seg), Carrying, payload, With(payload, Later, v, m) \cup {b})
          BY <4>1, <4>2, <1>1, <1>3, <1>5, <1>8, AlongAppend
        <4>4. valid' = Append(valid, seg)
          BY <3>3, <1>1
        <4> QED BY <4>1, <4>3, <4>4, <1>1
      <3> QED BY <3>2, <3>3
    <2>7. PipeInv(c, h, f, b, v, x, taken)'
      <3>1. v <= b
        BY <2>3, <1>5
      <3> QED BY <3>1, <2>3, <2>4, <2>5, <2>6, <1>1, <1>4, <1>5 DEF PipeInv
    <2>8. DropInv(b, v, x, taken)'
      BY <2>3, <1>1 DEF DropInv
    <2> QED BY <2>7, <2>8
  <1> QED BY <1>7, <1>8
(* What the FSM holds stands before what waits for it.                     *)
LEMMA LineAppends ==
    ASSUME NEW held, held # None => held.seg \in Sound, NEW fifo \in Seq(Sound), NEW seg \in Sound
    PROVE  LET holds == IF held = None THEN <<>> ELSE <<held.seg>>
           IN  /\ holds \in Seq(Sound) /\ holds \o fifo \in Seq(Sound)
               /\ holds \o Append(fifo, seg) = Append(holds \o fifo, seg)
  BY ConcatFacts, EmptySeq

LEMMA PipeHandled ==
    ASSUME TypeOK, rxEngMetadataHandler,
           NEW c \in Nat, NEW h \in Nat, NEW f \in Nat, NEW m \in Nat, NEW v \in Nat, NEW x \in Nat,
           NEW taken \in SUBSET Int,
           PipeInv(c, h, f, m, v, x, taken), DropInv(m, v, x, taken)
    PROVE  \E b \in Nat : PipeInv(c, h, f, m, b, x, taken)' /\ DropInv(m, b, x, taken)'
  <1> DEFINE seg == Head(valid)
             bad == seg.fault = "handler"
  <1>1. /\ payload \in Seq(Carrying) /\ metaInfo \in Seq(Sound) /\ valid \in Seq(Sound)
        /\ verdicts \in [{"checksum", "handler", "fsm"} -> Seq(BOOLEAN)]
        /\ fsmMeta \in Seq(Sound) /\ (fsm # None => fsm.seg \in Sound)
        /\ valid # <<>> /\ valid' = Tail(valid)
        /\ bad => fsmMeta' = fsmMeta
        /\ ~bad => fsmMeta' = Append(fsmMeta, seg)
        /\ payload' = payload /\ dropper' = dropper /\ fsm' = fsm /\ metaInfo' = metaInfo
    BY DEF TypeOK, SegmentTypes, VerdictTypes, rxEngMetadataHandler
  <1>2. /\ seg.length = 0 => verdicts' = verdicts
        /\ seg.length # 0 => verdicts' = [verdicts EXCEPT !["handler"] = Append(@, bad)]
    BY DEF rxEngMetadataHandler, Judge
  <1>3. seg \in Sound /\ (seg.length # 0 <=> seg \in Carrying)
    BY <1>1, TailFacts DEF Carrying
  <1>4. /\ c = PastChecksum' /\ h = PastHandler' /\ f = PastFsm'
    BY <1>1 DEF PastChecksum, PastHandler, PastFsm, Behind, PipeInv
  <1>5. /\ Along(metaInfo, Carrying, payload, With(payload, Faults, m, Len(payload)))
        /\ Along(valid, Carrying, payload, With(payload, Later, v, m))
        /\ Along(FsmLine, Carrying, payload, With(payload, Good, x, v))
        /\ Along(verdicts.checksum, BOOLEAN, Faulty(payload, "checksum"), With(payload, Faults, c, m))
        /\ Along(verdicts.handler, BOOLEAN, Faulty(payload, "handler"), With(payload, Later, h, v))
        /\ Along(verdicts.fsm, BOOLEAN, Unwanted(payload, taken), With(payload, Good, f, x))
        /\ x <= v /\ v <= m /\ m <= Len(payload) /\ taken \subseteq With(payload, Good, 0, x)
    BY DEF PipeInv
  <1>6. FsmLine \in Seq(Sound) /\ (bad => FsmLine' = FsmLine) /\ (~bad => FsmLine' = Append(FsmLine, seg))
    <2>1. /\ FsmLine \in Seq(Sound)
          /\ (IF fsm = None THEN <<>> ELSE <<fsm.seg>>) \o Append(fsmMeta, seg) = Append(FsmLine, seg)
      <3> HIDE DEF seg
      <3> QED BY <1>1, <1>3, LineAppends DEF FsmLine
    <2>2. bad => FsmLine' = FsmLine
      BY <1>1 DEF FsmLine
    <2>3. ~bad => FsmLine' = (IF fsm = None THEN <<>> ELSE <<fsm.seg>>) \o Append(fsmMeta, seg)
      BY <1>1 DEF FsmLine
    <2> QED BY <2>1, <2>2, <2>3
  <1>7. Len(payload) \in Nat /\ DOMAIN payload = 1 .. Len(payload)
    BY <1>1, SegmentFacts
  <1>8. CASE seg \notin Carrying
    <2>1. Along(valid', Carrying, payload', With(payload', Later, v, m))
      BY <1>1, <1>5, <1>8, AlongTailOther
    <2>2. Along(FsmLine', Carrying, payload', With(payload', Good, x, v))
      <3>1. CASE bad
        BY <3>1, <1>1, <1>5, <1>6
      <3>2. CASE ~bad
        <4> HIDE DEF seg
        <4>1. Along(Append(FsmLine, seg), Carrying, payload, With(payload, Good, x, v))
          BY <1>3, <1>5, <1>6, <1>8, AlongAppendOther
        <4> QED BY <4>1, <3>2, <1>1, <1>6
      <3> QED BY <3>1, <3>2
    <2>3. verdicts' = verdicts
      BY <1>2, <1>3, <1>8
    <2>4. PipeInv(c, h, f, m, v, x, taken)'
      BY <2>1, <2>2, <2>3, <1>1, <1>4, <1>5 DEF PipeInv
    <2>5. DropInv(m, v, x, taken)'
      BY <1>1 DEF DropInv
    <2> QED BY <2>4, <2>5
  <1>9. CASE seg \in Carrying
    <2>1. h \in 0 .. 1 /\ (h = 0 \/ v >= 1 \/ payload[1].fault \notin Later)
      <3>1. m >= 1 => payload[1].fault \in Faults
        BY <1>1, <1>5, <1>7, SegmentFacts
      <3> QED BY <3>1, <1>4, <1>1, <1>5 DEF VerdictTypes, TypeOK, PastHandler, Behind, DropInv, Faults, Later
    <2>2. PICK b \in Nat : JudgedAt(b, payload, valid, Later, h, v, m, verdicts.handler, Faulty(payload, "handler"))
      <3>1. verdicts.handler \in Seq(BOOLEAN) /\ Head(valid) \in Carrying
        BY <1>1, <1>9
      <3> QED BY <3>1, <2>1, <1>1, <1>5, Judging
    <2>3. /\ h < b /\ v < b /\ b <= m
          /\ payload[b] = seg /\ payload[b].fault \in Later
          /\ Along(Tail(valid), Carrying, payload, With(payload, Later, b, m))
      BY <2>2 DEF JudgedAt
    <2>4. Along(verdicts'.handler, BOOLEAN, Faulty(payload', "handler"), With(payload', Later, h, b))
      <3>1. Faulty(payload, "handler")[b] = bad /\ bad \in BOOLEAN
        BY <2>3, <1>5, <1>7 DEF Faulty
      <3>2. Along(Append(verdicts.handler, bad), BOOLEAN, Faulty(payload, "handler"), With(payload, Later, h, b))
        BY <3>1, <2>2 DEF JudgedAt
      <3>3. verdicts'.handler = Append(verdicts.handler, bad)
        BY <1>1, <1>2, <1>3, <1>9
      <3> QED BY <3>2, <3>3, <1>1
    <2>5. verdicts'.checksum = verdicts.checksum /\ verdicts'.fsm = verdicts.fsm
      BY <1>1, <1>2, <1>3, <1>9
    <2>6. Along(FsmLine', Carrying, payload', With(payload', Good, x, b))
      <3>1. Good \in SUBSET Later /\ (payload[b].fault \in Good <=> ~bad)
        BY <2>3 DEF Later, Good
      <3>2. CASE bad
        <4>1. With(payload, Good, x, b) = With(payload, Good, x, v)
          BY <3>1, <3>2, <2>2, <1>5 DEF JudgedAt
        <4> QED BY <4>1, <3>2, <1>1, <1>5, <1>6
      <3>3. CASE ~bad
        <4>1. /\ With(payload, Good, x, b) = With(payload, Good, x, v) \cup {b}
              /\ \A i \in With(payload, Good, x, v) : i < b
          BY <3>1, <3>3, <2>2, <1>5 DEF JudgedAt
        <4>2. With(payload, Good, x, v) \in SUBSET Int /\ b \in Int /\ payload[b] = seg
          BY <2>3 DEF With
        <4> HIDE DEF seg
        <4>3. Along(Append(FsmLine, seg), Carrying, payload, With(payload, Good, x, v) \cup {b})
          BY <4>1, <4>2, <1>1, <1>3, <1>5, <1>6, <1>9, AlongAppend
        <4>4. FsmLine' = Append(FsmLine, seg)
          BY <3>3, <1>6
        <4> QED BY <4>1, <4>3, <4>4, <1>1
      <3> QED BY <3>2, <3>3
    <2>7. PipeInv(c, h, f, m, b, x, taken)'
      <3>1. x <= b
        BY <2>3, <1>5
      <3> QED BY <3>1, <2>3, <2>4, <2>5, <2>6, <1>1, <1>4, <1>5 DEF PipeInv
    <2>8. DropInv(m, b, x, taken)'
      BY <2>3, <1>1 DEF DropInv
    <2> QED BY <2>7, <2>8
  <1> QED BY <1>8, <1>9
(* Steps that leave the payloads, the segments and the verdicts alone.     *)
LEMMA PipeSame ==
    ASSUME UNCHANGED <<payload, metaInfo, valid, FsmLine, verdicts, dropper>>,
           NEW c \in Nat, NEW h \in Nat, NEW f \in Nat, NEW m \in Nat, NEW v \in Nat, NEW x \in Nat,
           NEW taken, PipeInv(c, h, f, m, v, x, taken), DropInv(m, v, x, taken)
    PROVE  PipeInv(c, h, f, m, v, x, taken)' /\ DropInv(m, v, x, taken)'
  BY DEF PipeInv, DropInv, PastChecksum, PastHandler, PastFsm, Behind

LEMMA LoadKeepsLine ==
    ASSUME TypeOK, StagesInv, Load
    PROVE  /\ FsmLine' = FsmLine
           /\ fsm' \in Loaded /\ fsm' # None
           /\ fsm'.seg = Head(fsmMeta) /\ fsm'.seg \in Sound /\ fsm'.seg.session \in Sessions
           /\ fsm'.sar = rx_table[fsm'.seg.session]
  <1> DEFINE seg == Head(fsmMeta)
  <1>1. /\ fsm = None /\ fsmMeta # <<>> /\ fsmMeta \in Seq(Sound) /\ fsmMeta' = Tail(fsmMeta)
        /\ fsm' = [seg |-> seg, sar |-> rx_table[seg.session]]
        /\ rx_table \in [Sessions -> Entries]
    BY DEF Load, TypeOK, SegmentTypes, ReadTypes
  <1>2. seg \in Sound /\ Tail(fsmMeta) \in Seq(Sound) /\ seg.fault = "none"
    BY <1>1, TailFacts DEF StagesInv
  <1>3. seg.session \in Sessions /\ seg \in Segments
    BY <1>2 DEF Sound
  <1> HIDE DEF seg
  <1>4. rx_table[seg.session] \in Entries /\ fsm'.seg = seg /\ fsm'.sar = rx_table[seg.session]
    BY <1>1, <1>3
  <1>5. fsm' \in Loaded
    BY <1>1, <1>3, <1>4 DEF Loaded
  <1>6. fsm' # None
    BY <1>5, NoEntryAssumption
  <1>7. FsmLine = fsmMeta
    BY <1>1, ConcatEmptySeq DEF FsmLine
  <1>8. FsmLine' = <<seg>> \o Tail(fsmMeta)
    BY <1>1, <1>4, <1>6 DEF FsmLine
  <1>9. <<seg>> \o Tail(fsmMeta) = fsmMeta
    BY <1>1, ConcatFacts DEF seg
  <1> QED BY <1>2, <1>3, <1>4, <1>5, <1>6, <1>7, <1>8, <1>9 DEF seg

(* The FSM writes back, with a verdict if the segment has a payload.       *)
LEMMA PipeTransition ==
    ASSUME TypeOK, fsm # None, fsm' = None, UNCHANGED <<payload, metaInfo, valid, fsmMeta, dropper>>,
           NEW drop \in BOOLEAN, Judge("fsm", fsm.seg, drop),
           NEW c \in Nat, NEW h \in Nat, NEW f \in Nat, NEW m \in Nat, NEW v \in Nat, NEW x \in Nat,
           NEW taken \in SUBSET Int, NEW rest \in Seq(Carrying),
           PipeInv(c, h, f, m, v, x, taken), DropInv(m, v, x, taken), Along(rest, Carrying, payload, taken),
           NEW longer, fsm.seg.length = 0 \/ drop => longer = rest,
           fsm.seg.length # 0 /\ ~drop => longer = Append(rest, fsm.seg)
    PROVE  \E b \in Nat, taken2 \in SUBSET Int :
              /\ PipeInv(c, h, f, m, v, b, taken2)' /\ DropInv(m, v, b, taken2)'
              /\ Along(longer, Carrying, payload', taken2)
  <1> DEFINE seg == fsm.seg
  <1>1. /\ payload \in Seq(Carrying) /\ fsmMeta \in Seq(Sound) /\ seg \in Sound
        /\ verdicts \in [{"checksum", "handler", "fsm"} -> Seq(BOOLEAN)]
        /\ seg.length = 0 => verdicts' = verdicts
        /\ seg.length # 0 => verdicts' = [verdicts EXCEPT !["fsm"] = Append(@, drop)]
        /\ seg.length # 0 <=> seg \in Carrying
    BY DEF TypeOK, SegmentTypes, VerdictTypes, Judge, Carrying
  <1>2. FsmLine \in Seq(Sound) /\ FsmLine # <<>> /\ Head(FsmLine) = seg /\ FsmLine' = Tail(FsmLine)
    <2> HIDE DEF seg
    <2>1. FsmLine = <<seg>> \o fsmMeta /\ FsmLine' = <<>> \o fsmMeta
      BY DEF FsmLine, seg
    <2>2. /\ <<seg>> \o fsmMeta \in Seq(Sound) /\ <<seg>> \o fsmMeta # <<>>
          /\ Head(<<seg>> \o fsmMeta) = seg /\ Tail(<<seg>> \o fsmMeta) = fsmMeta
      BY <1>1, ConsFacts
    <2>3. <<>> \o fsmMeta = fsmMeta
      BY <1>1, ConcatEmptySeq
    <2> QED BY <2>1, <2>2, <2>3
  <1>3. c = PastChecksum' /\ h = PastHandler' /\ f = PastFsm' /\ f = PastFsm
    BY DEF PastChecksum, PastHandler, PastFsm, Behind, PipeInv
  <1>4. /\ Along(metaInfo, Carrying, payload, With(payload, Faults, m, Len(payload)))
        /\ Along(valid, Carrying, payload, With(payload, Later, v, m))
        /\ Along(FsmLine, Carrying, payload, With(payload, Good, x, v))
        /\ Along(verdicts.checksum, BOOLEAN, Faulty(payload, "checksum"), With(payload, Faults, c, m))
        /\ Along(verdicts.handler, BOOLEAN, Faulty(payload, "handler"), With(payload, Later, h, v))
        /\ Along(verdicts.fsm, BOOLEAN, Unwanted(payload, taken), With(payload, Good, f, x))
        /\ x <= v /\ v <= m /\ m <= Len(payload) /\ taken \subseteq With(payload, Good, 0, x)
    BY DEF PipeInv
  <1>5. Len(payload) \in Nat /\ DOMAIN payload = 1 .. Len(payload)
    BY <1>1, SegmentFacts
  <1>6. CASE seg \notin Carrying
    <2>1. Along(FsmLine', Carrying, payload', With(payload', Good, x, v))
      BY <1>2, <1>4, <1>6, AlongTailOther
    <2>2. verdicts' = verdicts
      BY <1>1, <1>6
    <2>3. PipeInv(c, h, f, m, v, x, taken)'
      BY <2>1, <2>2, <1>3, <1>4 DEF PipeInv
    <2>4. DropInv(m, v, x, taken)'
      BY DEF DropInv
    <2> QED BY <2>3, <2>4, <1>1, <1>6
  <1>7. CASE seg \in Carrying
    <2>1. f \in 0 .. 1 /\ (f = 0 \/ x >= 1 \/ payload[1].fault \notin Good)
      BY <1>3, <1>4 DEF VerdictTypes, TypeOK, PastFsm, Behind, DropInv, Good
    <2>2. PICK b \in Nat : JudgedAt(b, payload, FsmLine, Good, f, x, v, verdicts.fsm, Unwanted(payload, taken))
      <3>1. verdicts.fsm \in Seq(BOOLEAN) /\ Head(FsmLine) \in Carrying
        BY <1>1, <1>2, <1>7
      <3> QED BY <3>1, <2>1, <1>2, <1>4, Judging
    <2> DEFINE taken2 == IF drop THEN taken ELSE taken \cup {b}
    <2>3. /\ f < b /\ x < b /\ b <= v
          /\ payload[b] = seg /\ payload[b].fault \in Good
          /\ Along(Tail(FsmLine), Carrying, payload, With(payload, Good, b, v))
      BY <2>2, <1>2 DEF JudgedAt
    <2>4. With(payload, Good, 0, b) = With(payload, Good, 0, x) \cup {b}
      <3>1. 0 \in Nat /\ 0 <= x /\ Good \in SUBSET Good
        OBVIOUS
      <3> QED BY <3>1, <2>2, <2>3 DEF JudgedAt
    <2>5. \A i \in taken : i < b /\ i \in Int
      BY <2>3, <1>4 DEF With
    <2>6. taken2 \in SUBSET Int /\ taken2 \subseteq With(payload, Good, 0, b)
      BY <2>4, <1>4
    <2>7. Along(verdicts'.fsm, BOOLEAN, Unwanted(payload', taken2), With(payload', Good, f, b))
      <3>1. Unwanted(payload, taken2)[b] = drop
        <4>1. b \in DOMAIN payload /\ (b \notin taken2 <=> drop)
          BY <2>3, <2>5, <1>4, <1>5
        <4> QED BY <4>1 DEF Unwanted
      <3>2. \A i \in With(payload, Good, f, x) : Unwanted(payload, taken2)[i] = Unwanted(payload, taken)[i]
        <4>1. \A i \in With(payload, Good, f, x) : i \in DOMAIN payload /\ (i \in taken2 <=> i \in taken)
          BY <2>1, <2>3, <1>4, <1>5 DEF With
        <4> QED BY <4>1 DEF Unwanted
      <3> HIDE DEF taken2
      <3>3. Along(Append(verdicts.fsm, drop), BOOLEAN, Unwanted(payload, taken2), With(payload, Good, f, b))
        BY <3>1, <3>2, <2>2 DEF JudgedAt
      <3>4. verdicts'.fsm = Append(verdicts.fsm, drop)
        BY <1>1, <1>7
      <3> QED BY <3>3, <3>4
    <2>8. verdicts'.checksum = verdicts.checksum /\ verdicts'.handler = verdicts.handler
      BY <1>1, <1>7
    <2>9. PipeInv(c, h, f, m, v, b, taken2)'
      <3> HIDE DEF taken2
      <3> QED BY <2>3, <2>6, <2>7, <2>8, <1>2, <1>3, <1>4 DEF PipeInv
    <2>10. DropInv(m, v, b, taken2)'
      <3>1. dropper = "DROP" => b # 1
        BY <2>3, <1>3 DEF PastFsm, Behind
      <3> QED BY <3>1, <2>3 DEF DropInv
    <2>11. drop => Along(rest, Carrying, payload', taken2)
      OBVIOUS
    <2>12. ~drop => Along(Append(rest, seg), Carrying, payload', taken2)
      <3>1. ASSUME ~drop PROVE Along(Append(rest, seg), Carrying, payload, taken \cup {b})
        <4>1. b \in Int /\ \A i \in taken : i < b
          BY <2>5
        <4> HIDE DEF seg
        <4> QED BY <4>1, <2>3, <1>7, AlongAppend
      <3> QED BY <3>1
    <2> HIDE DEF taken2
    <2>13. Along(longer, Carrying, payload', taken2)
      BY <2>11, <2>12, <1>1, <1>7
    <2> QED BY <2>6, <2>9, <2>10, <2>13
  <1> QED BY <1>6, <1>7
(* The dropper takes a verdict: it is the one on the first payload.        *)
LEMMA FirstVerdict ==
    ASSUME payload \in Seq(Carrying), NEW told \in Seq(BOOLEAN), told # <<>>,
           NEW what, NEW all, NEW hi \in Nat, hi <= Len(payload),
           hi >= 1 => payload[1].fault \in all,
           Along(told, BOOLEAN, what, With(payload, all, 0, hi))
    PROVE  /\ hi >= 1 /\ 1 \in DOMAIN payload /\ what[1] = Head(told) /\ Head(told) \in BOOLEAN
           /\ Along(Tail(told), BOOLEAN, what, With(payload, all, 1, hi))
  <1>1. With(payload, all, 0, hi) \in SUBSET Int /\ Head(told) \in BOOLEAN
    BY TailFacts DEF With
  <1>2. PICK b \in With(payload, all, 0, hi) :
           /\ \A i \in With(payload, all, 0, hi) : b <= i
           /\ what[b] = Head(told)
           /\ Along(Tail(told), BOOLEAN, what, With(payload, all, 0, hi) \ {b})
    BY <1>1, AlongTail
  <1>3. hi >= 1
    BY DEF With
  <1>4. b = 1 /\ With(payload, all, 0, hi) \ {b} = With(payload, all, 1, hi)
    BY <1>2, <1>3, WithFirst
  <1>5. 1 \in DOMAIN payload
    BY <1>3, SegmentFacts
  <1> QED BY <1>1, <1>2, <1>3, <1>4, <1>5

LEMMA PipeReads ==
    ASSUME TypeOK, UNCHANGED <<payload, metaInfo, valid, fsmMeta, fsm>>,
           \/ ReadVerdict("RD_VERIFY_CHECKSUM", "checksum", "RD_META_HANDLER")
           \/ ReadVerdict("RD_META_HANDLER", "handler", "RD_FSM_DROP")
           \/ ReadVerdict("RD_FSM_DROP", "fsm", "FWD"),
           NEW c \in Nat, NEW h \in Nat, NEW f \in Nat, NEW m \in Nat, NEW v \in Nat, NEW x \in Nat,
           NEW taken \in SUBSET Int,
           PipeInv(c, h, f, m, v, x, taken), DropInv(m, v, x, taken)
    PROVE  \E c2, h2, f2 \in Nat : PipeInv(c2, h2, f2, m, v, x, taken)' /\ DropInv(m, v, x, taken)'
  <1>1. /\ payload \in Seq(Carrying) /\ verdicts \in [{"checksum", "handler", "fsm"} -> Seq(BOOLEAN)]
        /\ FsmLine' = FsmLine /\ Len(payload) \in Nat
        /\ m >= 1 => payload[1].fault \in Faults
    <2>1. payload \in Seq(Carrying) /\ verdicts \in [{"checksum", "handler", "fsm"} -> Seq(BOOLEAN)]
      BY DEF TypeOK, SegmentTypes, VerdictTypes
    <2>2. m <= Len(payload)
      BY DEF PipeInv
    <2> QED BY <2>1, <2>2, SegmentFacts DEF FsmLine
  <1>2. /\ Along(metaInfo, Carrying, payload, With(payload, Faults, m, Len(payload)))
        /\ Along(valid, Carrying, payload, With(payload, Later, v, m))
        /\ Along(FsmLine, Carrying, payload, With(payload, Good, x, v))
        /\ Along(verdicts.checksum, BOOLEAN, Faulty(payload, "checksum"), With(payload, Faults, c, m))
        /\ Along(verdicts.handler, BOOLEAN, Faulty(payload, "handler"), With(payload, Later, h, v))
        /\ Along(verdicts.fsm, BOOLEAN, Unwanted(payload, taken), With(payload, Good, f, x))
        /\ x <= v /\ v <= m /\ m <= Len(payload) /\ taken \subseteq With(payload, Good, 0, x)
        /\ x <= Len(payload) /\ v <= Len(payload)
    <2>1. x <= v /\ v <= m /\ m <= Len(payload)
      BY DEF PipeInv
    <2> QED BY <2>1, <1>1 DEF PipeInv
  <1>3. PICK c2 \in Nat, h2 \in Nat, f2 \in Nat : c2 = PastChecksum' /\ h2 = PastHandler' /\ f2 = PastFsm'
    BY DEF PastChecksum, PastHandler, PastFsm, Behind
  <1>4. SUFFICES /\ Along(verdicts'.checksum, BOOLEAN, Faulty(payload, "checksum"), With(payload, Faults, c2, m))
                 /\ Along(verdicts'.handler, BOOLEAN, Faulty(payload, "handler"), With(payload, Later, h2, v))
                 /\ Along(verdicts'.fsm, BOOLEAN, Unwanted(payload, taken), With(payload, Good, f2, x))
                 /\ DropInv(m, v, x, taken)'
    <2>1. PipeInv(c2, h2, f2, m, v, x, taken)'
      BY <1>1, <1>2, <1>3, <1>4 DEF PipeInv
    <2> QED BY <2>1, <1>4
  <1>5. CASE ReadVerdict("RD_VERIFY_CHECKSUM", "checksum", "RD_META_HANDLER")
    <2>1. /\ dropper = "RD_VERIFY_CHECKSUM" /\ verdicts.checksum # <<>> /\ verdicts.checksum \in Seq(BOOLEAN)
          /\ verdicts'.checksum = Tail(verdicts.checksum)
          /\ verdicts'.handler = verdicts.handler /\ verdicts'.fsm = verdicts.fsm
          /\ dropper' = IF Head(verdicts.checksum) THEN "DROP" ELSE "RD_META_HANDLER"
      BY <1>5, <1>1 DEF ReadVerdict
    <2>2. c = 0 /\ h = 0 /\ f = 0 /\ c2 = 1
      BY <2>1, <1>3 DEF PipeInv, PastChecksum, PastHandler, PastFsm, Behind
    <2>3. /\ m >= 1 /\ 1 \in DOMAIN payload /\ Faulty(payload, "checksum")[1] = Head(verdicts.checksum)
          /\ Along(Tail(verdicts.checksum), BOOLEAN, Faulty(payload, "checksum"), With(payload, Faults, 1, m))
      BY <2>1, <2>2, <1>1, <1>2, FirstVerdict
    <2>4. Head(verdicts.checksum) <=> payload[1].fault = "checksum"
      BY <2>3 DEF Faulty
    <2>5. CASE Head(verdicts.checksum)
      <3>1. dropper' = "DROP" /\ h2 = 1 /\ f2 = 1 /\ 1 \notin taken
        BY <2>1, <2>4, <2>5, <1>2, <1>3 DEF PastHandler, PastFsm, Behind, With, Good
      <3>2. With(payload, Later, 0, v) = With(payload, Later, 1, v) /\ With(payload, Good, 0, x) = With(payload, Good, 1, x)
        BY <2>4, <2>5, WithoutFirst DEF Later, Good
      <3>3. DropInv(m, v, x, taken)'
        BY <3>1, <2>3, <2>4, <2>5 DEF DropInv
      <3> QED BY <3>1, <3>2, <3>3, <2>1, <2>2, <2>3, <1>2
    <2>6. CASE ~Head(verdicts.checksum)
      <3>1. dropper' = "RD_META_HANDLER" /\ h2 = 0 /\ f2 = 0
        BY <2>1, <2>6, <1>3 DEF PastHandler, PastFsm, Behind
      <3>2. DropInv(m, v, x, taken)'
        BY <3>1, <2>3, <2>4, <2>6 DEF DropInv
      <3> QED BY <3>1, <3>2, <2>1, <2>2, <2>3, <1>2
    <2> QED BY <2>5, <2>6
  <1>6. CASE ReadVerdict("RD_META_HANDLER", "handler", "RD_FSM_DROP")
    <2>1. /\ dropper = "RD_META_HANDLER" /\ verdicts.handler # <<>> /\ verdicts.handler \in Seq(BOOLEAN)
          /\ verdicts'.handler = Tail(verdicts.handler)
          /\ verdicts'.checksum = verdicts.checksum /\ verdicts'.fsm = verdicts.fsm
          /\ dropper' = IF Head(verdicts.handler) THEN "DROP" ELSE "RD_FSM_DROP"
      BY <1>6, <1>1 DEF ReadVerdict
    <2>2. c = 1 /\ h = 0 /\ f = 0 /\ c2 = 1 /\ h2 = 1
      BY <2>1, <1>3 DEF PipeInv, PastChecksum, PastHandler, PastFsm, Behind
    <2>3. m >= 1 /\ payload[1].fault \in Later
      BY <2>1, <1>1 DEF DropInv, Later, Faults
    <2>4. /\ v >= 1 /\ 1 \in DOMAIN payload /\ Faulty(payload, "handler")[1] = Head(verdicts.handler)
          /\ Along(Tail(verdicts.handler), BOOLEAN, Faulty(payload, "handler"), With(payload, Later, 1, v))
      BY <2>1, <2>2, <2>3, <1>1, <1>2, FirstVerdict
    <2>5. Head(verdicts.handler) <=> payload[1].fault = "handler"
      BY <2>4 DEF Faulty
    <2>6. CASE Head(verdicts.handler)
      <3>1. dropper' = "DROP" /\ f2 = 1 /\ 1 \notin taken
        BY <2>1, <2>5, <2>6, <1>2, <1>3 DEF PastFsm, Behind, With, Good
      <3>2. With(payload, Good, 0, x) = With(payload, Good, 1, x)
        BY <2>5, <2>6, WithoutFirst DEF Good
      <3>3. DropInv(m, v, x, taken)'
        BY <3>1, <2>3, <2>4, <2>5, <2>6 DEF DropInv
      <3> QED BY <3>1, <3>2, <3>3, <2>1, <2>2, <2>4, <1>2
    <2>7. CASE ~Head(verdicts.handler)
      <3>1. dropper' = "RD_FSM_DROP" /\ f2 = 0
        BY <2>1, <2>7, <1>3 DEF PastFsm, Behind
      <3>2. DropInv(m, v, x, taken)'
        BY <3>1, <2>3, <2>4, <2>5, <2>7 DEF DropInv, Later
      <3> QED BY <3>1, <3>2, <2>1, <2>2, <2>4, <1>2
    <2> QED BY <2>6, <2>7
  <1>7. CASE ReadVerdict("RD_FSM_DROP", "fsm", "FWD")
    <2>1. /\ dropper = "RD_FSM_DROP" /\ verdicts.fsm # <<>> /\ verdicts.fsm \in Seq(BOOLEAN)
          /\ verdicts'.fsm = Tail(verdicts.fsm)
          /\ verdicts'.checksum = verdicts.checksum /\ verdicts'.handler = verdicts.handler
          /\ dropper' = IF Head(verdicts.fsm) THEN "DROP" ELSE "FWD"
      BY <1>7, <1>1 DEF ReadVerdict
    <2>2. c = 1 /\ h = 1 /\ f = 0 /\ c2 = 1 /\ h2 = 1 /\ f2 = 1
      BY <2>1, <1>3 DEF PipeInv, PastChecksum, PastHandler, PastFsm, Behind
    <2>3. m >= 1 /\ payload[1].fault = "none" /\ payload[1].fault \in Good
      BY <2>1 DEF DropInv, Good
    <2>4. /\ x >= 1 /\ 1 \in DOMAIN payload /\ Unwanted(payload, taken)[1] = Head(verdicts.fsm)
          /\ Along(Tail(verdicts.fsm), BOOLEAN, Unwanted(payload, taken), With(payload, Good, 1, x))
      BY <2>1, <2>2, <2>3, <1>1, <1>2, FirstVerdict
    <2>5. Head(verdicts.fsm) <=> 1 \notin taken
      BY <2>4 DEF Unwanted
    <2>6. DropInv(m, v, x, taken)'
      BY <2>1, <2>3, <2>4, <2>5 DEF DropInv
    <2> QED BY <2>1, <2>2, <2>4, <2>6, <1>2
  <1> QED BY <1>5, <1>6, <1>7
(* The dropper takes the first payload away.                               *)
LEMMA AlongMovesDown ==
    ASSUME payload \in Seq(Carrying), payload # <<>>, payload' = Tail(payload),
           NEW fifo, NEW K, NEW what, NEW other,
           NEW all, NEW lo \in Nat, NEW hi \in Nat, hi <= Len(payload),
           lo = 0 => hi = 0 \/ payload[1].fault \notin all,
           Along(fifo, K, what, With(payload, all, lo, hi)),
           \A i \in DOMAIN payload' : i + 1 \in DOMAIN payload /\ payload'[i] = payload[i + 1] => other[i] = what[i + 1]
    PROVE  Along(fifo, K, other, With(payload', all, Down(lo), Down(hi)))
  <1> DEFINE I == With(payload, all, lo, hi)
             I2 == With(payload', all, Down(lo), Down(hi))
  <1>1. /\ I2 \in SUBSET Int /\ I \in SUBSET Int
        /\ \A i \in Int : i \in I2 <=> i + 1 \in I
        /\ \A i \in I2 : payload'[i] = payload[i + 1] /\ i \in DOMAIN payload' /\ i + 1 \in DOMAIN payload
    BY WithTail
  <1>2. \A i \in I2 : other[i] = what[i + 1]
    BY <1>1
  <1>3. Along(fifo, K, what, I)
    OBVIOUS
  <1> HIDE DEF I, I2
  <1>4. Along(fifo, K, other, I2)
    BY <1>1, <1>2, <1>3, AlongShift
  <1> QED BY <1>4 DEF I2

LEMMA PipeLeaves ==
    ASSUME TypeOK, UNCHANGED <<metaInfo, valid, fsmMeta, fsm, verdicts>>,
           dropper \in {"FWD", "DROP"}, dropper' = "RD_VERIFY_CHECKSUM",
           payload # <<>>, payload' = Tail(payload),
           NEW c \in Nat, NEW h \in Nat, NEW f \in Nat, NEW m \in Nat, NEW v \in Nat, NEW x \in Nat,
           NEW taken \in SUBSET Int, NEW rest \in Seq(Carrying),
           PipeInv(c, h, f, m, v, x, taken), DropInv(m, v, x, taken), Along(rest, Carrying, payload, taken)
    PROVE  \E m2, v2, x2 \in Nat, taken2 \in SUBSET Int :
              /\ PipeInv(0, 0, 0, m2, v2, x2, taken2)' /\ DropInv(m2, v2, x2, taken2)'
              /\ dropper = "DROP" => Along(rest, Carrying, payload', taken2)
              /\ dropper = "FWD" => /\ rest # <<>> /\ Head(rest) = Head(payload)
                                    /\ Along(Tail(rest), Carrying, payload', taken2)
  <1>1. /\ payload \in Seq(Carrying) /\ FsmLine' = FsmLine
        /\ Len(payload) \in Nat \ {0} /\ DOMAIN payload = 1 .. Len(payload)
        /\ Len(payload') = Len(payload) - 1 /\ DOMAIN payload' = 1 .. Len(payload) - 1
        /\ \A i \in 1 .. Len(payload) - 1 : payload'[i] = payload[i + 1]
        /\ Head(payload) = payload[1] /\ payload[1].fault \in Faults
    <2>1. payload \in Seq(Carrying)
      BY DEF TypeOK, SegmentTypes
    <2>2. Len(payload) \in Nat \ {0} /\ Tail(payload) \in Seq(Carrying)
      BY <2>1, TailFacts
    <2>3. payload[1].fault \in Faults
      BY <2>1, <2>2, SegmentFacts
    <2> QED BY <2>1, <2>2, <2>3, TailFacts, LenProperties DEF FsmLine
  <1>2. /\ Along(metaInfo, Carrying, payload, With(payload, Faults, m, Len(payload)))
        /\ Along(valid, Carrying, payload, With(payload, Later, v, m))
        /\ Along(FsmLine, Carrying, payload, With(payload, Good, x, v))
        /\ Along(verdicts.checksum, BOOLEAN, Faulty(payload, "checksum"), With(payload, Faults, c, m))
        /\ Along(verdicts.handler, BOOLEAN, Faulty(payload, "handler"), With(payload, Later, h, v))
        /\ Along(verdicts.fsm, BOOLEAN, Unwanted(payload, taken), With(payload, Good, f, x))
        /\ x <= v /\ v <= m /\ m <= Len(payload) /\ taken \subseteq With(payload, Good, 0, x)
        /\ c = 1 /\ h = 1 /\ f = 1
    BY DEF PipeInv, PastChecksum, PastHandler, PastFsm, Behind
  <1>3. /\ m >= 1 /\ x <= Len(payload) /\ v <= Len(payload)
        /\ v = 0 => payload[1].fault \notin Later
        /\ x = 0 => payload[1].fault \notin Good
    <2>1. m >= 1 /\ x <= Len(payload) /\ v <= Len(payload)
      BY <1>1, <1>2 DEF DropInv
    <2>2. CASE dropper = "FWD"
      BY <2>1, <2>2, <1>2 DEF DropInv
    <2>3. CASE dropper = "DROP"
      <3>1. x = 0 => payload[1].fault # "none"
        BY <2>3 DEF DropInv
      <3>2. v = 0 => payload[1].fault # "handler" /\ x = 0
        BY <2>3, <1>2 DEF DropInv
      <3> QED BY <2>1, <3>1, <3>2 DEF Later, Good
    <2> QED BY <2>2, <2>3
  <1>4. PICK m2 \in Nat, v2 \in Nat, x2 \in Nat : m2 = Down(m) /\ v2 = Down(v) /\ x2 = Down(x)
    BY DEF Down
  <1>5. x2 <= v2 /\ v2 <= m2 /\ m2 <= Len(payload') /\ Down(1) = 0 /\ Down(Len(payload)) = Len(payload')
    BY <1>1, <1>2, <1>3, <1>4 DEF Down
  <1>6. PICK taken2 \in SUBSET Int : taken2 = {i \in Nat \ {0} : i + 1 \in taken}
    <2>1. {i \in Nat \ {0} : i + 1 \in taken} \in SUBSET Int
      OBVIOUS
    <2> QED BY <2>1
  <1>7. taken2 \subseteq With(payload', Good, 0, x2)
    <2> SUFFICES ASSUME NEW i \in taken2 PROVE i \in With(payload', Good, 0, x2)
      OBVIOUS
    <2>1. i \in Nat \ {0} /\ i + 1 \in 0 + 1 .. x /\ payload[i + 1].fault \in Good
      BY <1>2, <1>6 DEF With
    <2>2. i \in 0 + 1 .. x2
      BY <2>1, <1>4 DEF Down
    <2>3. payload'[i] = payload[i + 1]
      BY <2>1, <1>1, <1>3
    <2> QED BY <2>1, <2>2, <2>3 DEF With
  <1>8. \A i \in DOMAIN payload' : i + 1 \in DOMAIN payload /\ payload'[i] = payload[i + 1] =>
           /\ Faulty(payload', "checksum")[i] = Faulty(payload, "checksum")[i + 1]
           /\ Faulty(payload', "handler")[i] = Faulty(payload, "handler")[i + 1]
           /\ Unwanted(payload', taken2)[i] = Unwanted(payload, taken)[i + 1]
    <2>1. \A i \in DOMAIN payload' : i \in taken2 <=> i + 1 \in taken
      BY <1>1, <1>6
    <2> QED BY <2>1 DEF Faulty, Unwanted
  <1>9. Along(metaInfo, Carrying, payload', With(payload', Faults, m2, Len(payload')))
    <2>1. Along(metaInfo, Carrying, payload', With(payload', Faults, Down(m), Down(Len(payload))))
      <3>1. Len(payload) \in Nat /\ Len(payload) <= Len(payload) /\ m # 0
        BY <1>1, <1>3
      <3>2. \A i \in DOMAIN payload' : i + 1 \in DOMAIN payload /\ payload'[i] = payload[i + 1] => payload'[i] = payload[i + 1]
        OBVIOUS
      <3> QED BY <3>1, <3>2, <1>1, <1>2, AlongMovesDown
    <2> QED BY <2>1, <1>4, <1>5
  <1>10. Along(valid, Carrying, payload', With(payload', Later, v2, m2))
    <2>1. Along(valid, Carrying, payload', With(payload', Later, Down(v), Down(m)))
      BY <1>1, <1>2, <1>3, AlongMovesDown
    <2> QED BY <2>1, <1>4
  <1>11. Along(FsmLine, Carrying, payload', With(payload', Good, x2, v2))
    <2>1. Along(FsmLine, Carrying, payload', With(payload', Good, Down(x), Down(v)))
      BY <1>1, <1>2, <1>3, AlongMovesDown
    <2> QED BY <2>1, <1>4
  <1>12. Along(verdicts.checksum, BOOLEAN, Faulty(payload', "checksum"), With(payload', Faults, 0, m2))
    <2>1. Along(verdicts.checksum, BOOLEAN, Faulty(payload', "checksum"), With(payload', Faults, Down(c), Down(m)))
      BY <1>1, <1>2, <1>3, <1>8, AlongMovesDown
    <2> QED BY <2>1, <1>2, <1>4, <1>5
  <1>13. Along(verdicts.handler, BOOLEAN, Faulty(payload', "handler"), With(payload', Later, 0, v2))
    <2>1. Along(verdicts.handler, BOOLEAN, Faulty(payload', "handler"), With(payload', Later, Down(h), Down(v)))
      BY <1>1, <1>2, <1>3, <1>8, AlongMovesDown
    <2> QED BY <2>1, <1>2, <1>4, <1>5
  <1>14. Along(verdicts.fsm, BOOLEAN, Unwanted(payload', taken2), With(payload', Good, 0, x2))
    <2>1. Along(verdicts.fsm, BOOLEAN, Unwanted(payload', taken2), With(payload', Good, Down(f), Down(x)))
      BY <1>1, <1>2, <1>3, <1>8, AlongMovesDown
    <2> QED BY <2>1, <1>2, <1>4, <1>5
  <1>15. PipeInv(0, 0, 0, m2, v2, x2, taken2)' /\ DropInv(m2, v2, x2, taken2)'
    <2>1. PastChecksum' = 0 /\ PastHandler' = 0 /\ PastFsm' = 0
      BY DEF PastChecksum, PastHandler, PastFsm, Behind
    <2>2. PipeInv(0, 0, 0, m2, v2, x2, taken2)'
      BY <2>1, <1>1, <1>5, <1>7, <1>9, <1>10, <1>11, <1>12, <1>13, <1>14 DEF PipeInv
    <2>3. DropInv(m2, v2, x2, taken2)'
      BY DEF DropInv
    <2> QED BY <2>2, <2>3
  <1>16. \A i \in taken2 : payload'[i] = payload[i + 1]
    <2>1. \A i \in taken2 : i \in 1 .. Len(payload) - 1
      BY <1>1, <1>2, <1>3, <1>6 DEF With
    <2> QED BY <2>1, <1>1
  <1>17. ASSUME dropper = "DROP" PROVE Along(rest, Carrying, payload', taken2)
    <2>1. \A i \in taken : i >= 1 /\ i # 1
      BY <1>17, <1>2 DEF DropInv, With
    <2>2. \A i \in Int : i \in taken2 <=> i + 1 \in taken
      <3> SUFFICES ASSUME NEW i \in Int PROVE i \in taken2 <=> i + 1 \in taken
        OBVIOUS
      <3>1. i + 1 \in taken => i >= 1
        BY <2>1
      <3> QED BY <3>1, <1>6
    <2> QED BY <2>2, <1>16, AlongShift
  <1>18. ASSUME dropper = "FWD"
         PROVE  rest # <<>> /\ Head(rest) = Head(payload) /\ Along(Tail(rest), Carrying, payload', taken2)
    <2>1. 1 \in taken /\ \A i \in taken : i >= 1
      BY <1>18, <1>2 DEF DropInv, With
    <2>2. rest # <<>>
      <3>1. ASSUME rest = <<>> PROVE FALSE
        <4>1. Counting(rest, Carrying) = {}
          BY <3>1 DEF Counting
        <4> QED BY <4>1, <2>1, AlongNone
      <3> QED BY <3>1
    <2>3. Head(rest) \in Carrying
      BY <2>2, TailFacts
    <2>4. PICK b \in taken : /\ \A i \in taken : b <= i
                             /\ payload[b] = Head(rest)
                             /\ Along(Tail(rest), Carrying, payload, taken \ {b})
      BY <2>2, <2>3, AlongTail
    <2>5. b = 1 /\ taken \ {b} \in SUBSET Int
      <3>1. b \in Int /\ b <= 1 /\ b >= 1
        BY <2>1, <2>4
      <3> QED BY <3>1
    <2>6. \A i \in Int : i \in taken2 <=> i + 1 \in taken \ {b}
      <3>1. \A i \in Int : i + 1 \in taken \ {b} => i \in Nat \ {0}
        BY <2>1, <2>5
      <3>2. \A i \in Nat \ {0} : i + 1 # b
        BY <2>5
      <3> QED BY <3>1, <3>2, <1>6
    <2>7. Along(Tail(rest), Carrying, payload', taken2)
      BY <2>4, <2>5, <2>6, <1>16, AlongShift
    <2> QED BY <2>2, <2>4, <2>5, <2>7, <1>1
  <1> QED BY <1>15, <1>17, <1>18
-----------------------------------------------------------------------------
(* The streams.                                                            *)
LEMMA MinOf ==
    ASSUME NEW a \in Int, NEW b \in Int
    PROVE  Min({a, b}) = IF a <= b THEN a ELSE b
  <1>1. PICK m \in {a, b} : \A y \in {a, b} : m <= y
    OBVIOUS
  <1>2. Min({a, b}) \in {a, b} /\ \A y \in {a, b} : Min({a, b}) <= y
    BY <1>1 DEF Min
  <1> QED BY <1>2

(* A notification asks for what a segment of the line has.                 *)
Wished == [session : Sessions, length : Nat]
LEMMA WishFacts ==
    ASSUME NEW S, \A r \in S : Wish(r) \in Wished, NEW fifo \in Seq(S)
    PROVE  /\ Wishes(fifo) \in Seq(Wished) /\ Len(Wishes(fifo)) = Len(fifo) /\ Len(fifo) \in Nat
           /\ \A i \in 1 .. Len(fifo) : Wishes(fifo)[i] = Wish(fifo[i])
           /\ \A e \in S : Wishes(Append(fifo, e)) = Append(Wishes(fifo), Wish(e))
           /\ fifo # <<>> => /\ Wishes(fifo) # <<>> /\ Wishes(Tail(fifo)) = Tail(Wishes(fifo))
                             /\ Head(Wishes(fifo)) = Wish(Head(fifo))
  <1>1. ASSUME NEW g \in Seq(S)
        PROVE  /\ Wishes(g) \in Seq(Wished) /\ Len(Wishes(g)) = Len(g) /\ Len(g) \in Nat
               /\ \A i \in 1 .. Len(g) : Wishes(g)[i] = Wish(g[i]) /\ Wish(g[i]) \in Wished
    <2>1. Len(g) \in Nat /\ DOMAIN g = 1 .. Len(g) /\ \A i \in 1 .. Len(g) : g[i] \in S
      BY LenProperties, ElementOfSeq
    <2>2. Wishes(g) \in [1 .. Len(g) -> Wished]
      BY <2>1 DEF Wishes
    <2>3. Wishes(g) \in Seq(Wished)
      BY <2>1, <2>2, SeqDef
    <2>4. Len(Wishes(g)) = Len(g)
      BY <2>1, <2>2, <2>3, LenProperties
    <2> QED BY <2>1, <2>3, <2>4 DEF Wishes
  <1>2. ASSUME NEW e \in S PROVE Wishes(Append(fifo, e)) = Append(Wishes(fifo), Wish(e))
    <2> DEFINE A == Append(fifo, e)
               B == Append(Wishes(fifo), Wish(e))
    <2>1. /\ A \in Seq(S) /\ Len(A) = Len(fifo) + 1 /\ A[Len(fifo) + 1] = e /\ \A i \in 1 .. Len(fifo) : A[i] = fifo[i]
      BY AppendFacts
    <2>2. /\ B \in Seq(Wished) /\ Len(B) = Len(fifo) + 1 /\ B[Len(fifo) + 1] = Wish(e)
          /\ \A i \in 1 .. Len(fifo) : B[i] = Wishes(fifo)[i]
      BY <1>1, AppendFacts
    <2> HIDE DEF A, B
    <2>3. Wishes(A) \in Seq(Wished) /\ Len(Wishes(A)) = Len(fifo) + 1
      BY <1>1, <2>1
    <2>4. \A i \in 1 .. Len(fifo) + 1 : Wishes(A)[i] = B[i]
      BY <1>1, <2>1, <2>2
    <2>5. Wishes(A) = B
      BY <2>2, <2>3, <2>4, SeqEqual
    <2> QED BY <2>5 DEF A, B
  <1>3. ASSUME fifo # <<>>
        PROVE  /\ Wishes(fifo) # <<>> /\ Wishes(Tail(fifo)) = Tail(Wishes(fifo))
               /\ Head(Wishes(fifo)) = Wish(Head(fifo))
    <2> DEFINE T == Tail(fifo)
               W == Wishes(fifo)
               B == Tail(W)
    <2>1. /\ T \in Seq(S) /\ Len(T) = Len(fifo) - 1 /\ \A i \in 1 .. Len(fifo) - 1 : T[i] = fifo[i + 1]
          /\ Len(fifo) \in Nat \ {0} /\ Head(fifo) = fifo[1]
      BY <1>3, TailFacts
    <2>2. /\ W \in Seq(Wished) /\ Len(W) = Len(fifo) /\ W # <<>>
          /\ \A i \in 1 .. Len(fifo) : W[i] = Wish(fifo[i])
      <3>1. W \in Seq(Wished) /\ Len(W) = Len(fifo) /\ \A i \in 1 .. Len(fifo) : W[i] = Wish(fifo[i])
        BY <1>1
      <3> QED BY <3>1, <2>1
    <2> HIDE DEF W
    <2>3. /\ B \in Seq(Wished) /\ Len(B) = Len(fifo) - 1 /\ \A i \in 1 .. Len(fifo) - 1 : B[i] = W[i + 1]
          /\ Head(W) = W[1]
      BY <2>2, TailFacts
    <2> HIDE DEF T, B
    <2>4. Wishes(T) \in Seq(Wished) /\ Len(Wishes(T)) = Len(fifo) - 1
      BY <1>1, <2>1
    <2>5. ASSUME NEW i \in 1 .. Len(fifo) - 1 PROVE Wishes(T)[i] = B[i]
      <3>1. i \in 1 .. Len(T) /\ i + 1 \in 1 .. Len(fifo)
        BY <2>1
      <3>2. Wishes(T)[i] = Wish(T[i])
        BY <3>1, <2>1, <1>1
      <3>3. B[i] = Wish(fifo[i + 1])
        BY <3>1, <2>2, <2>3
      <3> QED BY <3>2, <3>3, <2>1
    <2>6. Wishes(T) = B
      BY <2>3, <2>4, <2>5, SeqEqual
    <2> QED BY <2>1, <2>2, <2>3, <2>6 DEF T, W, B
  <1> QED BY <1>1, <1>2, <1>3

LEMMA WishTypes ==
    /\ \A r \in Notes : Wish(r) \in Wished /\ Wish(r).length = r.length
    /\ \A seg \in Carrying : seg.session \in Sessions => Wish(seg) \in Wanted
    /\ \A w \in Wished : w \in Wanted <=> w.length # 0
  BY DEF Notes, Wished, Wanted, Wish, Carrying, Sound, Segments
(* Of a table of the right type, how far the streams are.                  *)
LEMMA TakenIs ==
    ASSUME NEW table \in [Sessions -> Entries], NEW s \in Sessions
    PROVE  /\ table[s].recvd \in Nat /\ Taken(table, s) \in Nat /\ Taken(table, s) <= StreamLength
           /\ Taken(table, s) = IF table[s].recvd <= StreamLength THEN table[s].recvd ELSE StreamLength
  <1>1. table[s].recvd \in Nat /\ StreamLength \in Nat
    BY RxPathAssumption DEF Entries
  <1> QED BY <1>1, MinOf DEF Taken

LEMMA PosFacts ==
    ASSUME NEW line \in Seq(Carrying), NEW pos \in [0 .. Len(line) -> [Sessions -> Nat]], StreamInv(line, pos)
    PROVE  /\ Len(line) \in Nat /\ \A k \in 1 .. Len(line) : line[k] \in Carrying /\ line[k].length \in Nat \ {0}
           /\ \A k \in 0 .. Len(line) : \A s \in Sessions : pos[k][s] \in Nat
           /\ \A k \in 1 .. Len(line) : \A s \in Sessions :
                 pos[k][s] = pos[k - 1][s] + IF s = line[k].session THEN line[k].length ELSE 0
  <1>1. Len(line) \in Nat /\ \A k \in 1 .. Len(line) : line[k] \in Carrying
    BY LenProperties, ElementOfSeq
  <1>2. \A seg \in Carrying : seg.length \in Nat \ {0}
    BY DEF Carrying, Sound, Segments
  <1>3. \A k \in 0 .. Len(line) : pos[k] \in [Sessions -> Nat] /\ \A s \in Sessions : pos[k][s] \in Nat
    BY <1>1
  <1>4. ASSUME NEW k \in 1 .. Len(line), NEW s \in Sessions
        PROVE  pos[k][s] = pos[k - 1][s] + IF s = line[k].session THEN line[k].length ELSE 0
    <2>1. k - 1 \in 0 .. Len(line) /\ pos[k] = [pos[k - 1] EXCEPT ![line[k].session] = @ + line[k].length]
      <3>1. k - 1 \in 0 .. Len(line)
        BY <1>1
      <3> QED BY <3>1 DEF StreamInv
    <2>2. pos[k - 1] \in [Sessions -> Nat] /\ pos[k - 1][s] \in Nat
      BY <2>1, <1>3
    <2>3. CASE s = line[k].session
      BY <2>1, <2>2, <2>3
    <2>4. CASE s # line[k].session
      BY <2>1, <2>2, <2>4
    <2> QED BY <2>3, <2>4
  <1> QED BY <1>1, <1>2, <1>3, <1>4

(* A stream only grows along the line.                                     *)
LEMMA PosGrows ==
    ASSUME NEW line \in Seq(Carrying), NEW pos \in [0 .. Len(line) -> [Sessions -> Nat]], StreamInv(line, pos),
           NEW s \in Sessions
    PROVE  \A i, j \in 0 .. Len(line) : i <= j => pos[i][s] <= pos[j][s]
  <1> DEFINE T == {d \in Nat : \A i \in 0 .. Len(line) : i + d \in 0 .. Len(line) => pos[i][s] <= pos[i + d][s]}
  <1>1. 0 \in T
    <2>1. \A i \in 0 .. Len(line) : i + 0 = i /\ pos[i][s] \in Nat
      BY PosFacts
    <2> QED BY <2>1
  <1>2. ASSUME NEW d \in Nat, d \in T PROVE d + 1 \in T
    <2> SUFFICES ASSUME NEW i \in 0 .. Len(line), i + (d + 1) \in 0 .. Len(line)
                 PROVE  pos[i][s] <= pos[i + (d + 1)][s]
      OBVIOUS
    <2>1. PICK k \in 1 .. Len(line) : k = i + (d + 1)
      BY PosFacts
    <2>2. k - 1 = i + d /\ k - 1 \in 0 .. Len(line) /\ Len(line) \in Nat
      BY <2>1, PosFacts
    <2>3. pos[i][s] <= pos[k - 1][s]
      BY <1>2, <2>2
    <2> HIDE DEF T
    <2>4. /\ pos[i][s] \in Nat /\ pos[k - 1][s] \in Nat /\ pos[k][s] \in Nat /\ line[k].length \in Nat
          /\ pos[k][s] = pos[k - 1][s] + IF s = line[k].session THEN line[k].length ELSE 0
      BY <2>2, PosFacts
    <2>5. PICK a, b, n, c \in Nat :
             /\ a = pos[i][s] /\ b = pos[k - 1][s] /\ n = line[k].length /\ c = pos[k][s]
             /\ c = b \/ c = b + n
      <3>1. pos[k][s] = pos[k - 1][s] \/ pos[k][s] = pos[k - 1][s] + line[k].length
        BY <2>4
      <3> QED BY <2>4, <3>1
    <2>6. a <= b
      BY <2>3, <2>5
    <2>7. c = b \/ c = b + n
      BY <2>5
    <2>8. a <= c
      BY <2>6, <2>7
    <2> QED BY <2>1, <2>5, <2>8
  <1> HIDE DEF T
  <1>3. Nat \subseteq T
    BY <1>1, <1>2, NatSetInduction
  <1> SUFFICES ASSUME NEW i \in 0 .. Len(line), NEW j \in 0 .. Len(line), i <= j PROVE pos[i][s] <= pos[j][s]
    OBVIOUS
  <1>4. PICK d \in Nat : j = i + d
    <2>1. j - i \in Nat /\ j = i + (j - i)
      BY PosFacts
    <2> QED BY <2>1
  <1>5. d \in T
    BY <1>3
  <1> QED BY <1>4, <1>5 DEF T

(* Nothing is asked for that was not taken.                                *)
LEMMA AskedIsTaken ==
    ASSUME NEW line \in Seq(Carrying), NEW pos \in [0 .. Len(line) -> [Sessions -> Nat]], StreamInv(line, pos),
           answers \in Seq(Sessions), NEW s \in Sessions
    PROVE  requested[s] <= Taken(rx_table, s)
  <1>1. Len(answers) \in 0 .. Len(line) /\ Len(line) \in 0 .. Len(line) /\ Len(answers) <= Len(line)
    <2>1. Len(answers) \in Nat /\ Len(line) \in Nat
      BY PosFacts, LenProperties
    <2> QED BY <2>1 DEF StreamInv
  <1>2. pos[Len(answers)][s] <= pos[Len(line)][s]
    BY <1>1, PosGrows
  <1> QED BY <1>2 DEF StreamInv
(* The FSM takes a segment: the stream goes on with it.                    *)
LEMMA StreamExtends ==
    ASSUME NEW line \in Seq(Carrying), NEW pos \in [0 .. Len(line) -> [Sessions -> Nat]], StreamInv(line, pos),
           NEW seg \in Carrying, seg.session \in Sessions, seg.seq = Taken(rx_table, seg.session),
           \A s \in Sessions :
              Taken(rx_table', s) = Taken(rx_table, s) + IF s = seg.session THEN seg.length ELSE 0,
           answers \in Seq(Sessions), UNCHANGED <<got, answers, requested>>
    PROVE  \E pos2 \in [0 .. Len(Append(line, seg)) -> [Sessions -> Nat]] : StreamInv(Append(line, seg), pos2)'
  <1> DEFINE n == Len(line) + 1
             A == Append(line, seg)
  <1>1. /\ Len(line) \in Nat /\ n \in Nat /\ Len(A) = n /\ A[n] = seg
        /\ \A k \in 1 .. Len(line) : A[k] = line[k]
        /\ Len(line) \in 0 .. Len(line) /\ Len(answers) \in Nat /\ Len(answers) <= Len(line)
    BY AppendFacts, LenProperties DEF StreamInv
  <1>2. seg.length \in Nat /\ \A k \in 0 .. Len(line) : pos[k] \in [Sessions -> Nat]
    BY DEF Carrying, Sound, Segments
  <1> DEFINE end == [pos[Len(line)] EXCEPT ![seg.session] = @ + seg.length]
             pos2 == [k \in 0 .. n |-> IF k = n THEN end ELSE pos[k]]
  <1>3. /\ end \in [Sessions -> Nat]
        /\ \A s \in Sessions : end[s] = pos[Len(line)][s] + IF s = seg.session THEN seg.length ELSE 0
    <2>1. pos[Len(line)] \in [Sessions -> Nat]
      BY <1>1, <1>2
    <2> QED BY <2>1, <1>2
  <1>4. pos2[n] = end /\ \A k \in 0 .. Len(line) : pos2[k] = pos[k]
    BY <1>1
  <1>5. pos2 \in [0 .. n -> [Sessions -> Nat]]
    <2>1. \A k \in 0 .. n : k = n \/ k \in 0 .. Len(line)
      BY <1>1
    <2> HIDE DEF end
    <2> QED BY <2>1, <1>2, <1>3
  <1> HIDE DEF pos2, A, n
  <1>6. \A s \in Sessions : pos2[0][s] = Len(got'[s])
    BY <1>1, <1>4 DEF StreamInv
  <1>7. ASSUME NEW k \in 1 .. n
        PROVE  /\ A[k].session \in Sessions
               /\ A[k].seq = pos2[k - 1][A[k].session]
               /\ pos2[k] = [pos2[k - 1] EXCEPT ![A[k].session] = @ + A[k].length]
    <2>1. CASE k = n
      <3>1. n - 1 = Len(line) /\ A[k] = seg /\ pos2[k - 1] = pos[Len(line)] /\ pos2[k] = end
        BY <2>1, <1>1, <1>4 DEF n
      <3>2. pos[Len(line)][seg.session] = Taken(rx_table, seg.session)
        BY DEF StreamInv
      <3> QED BY <3>1, <3>2
    <2>2. CASE k # n
      <3>1. k \in 1 .. Len(line) /\ k \in 0 .. Len(line) /\ k - 1 \in 0 .. Len(line)
        BY <2>2, <1>1 DEF n
      <3>2. A[k] = line[k] /\ pos2[k] = pos[k] /\ pos2[k - 1] = pos[k - 1]
        BY <3>1, <1>1, <1>4
      <3>3. /\ line[k].session \in Sessions /\ line[k].seq = pos[k - 1][line[k].session]
            /\ pos[k] = [pos[k - 1] EXCEPT ![line[k].session] = @ + line[k].length]
        BY <3>1 DEF StreamInv
      <3> QED BY <3>2, <3>3
    <2> QED BY <2>1, <2>2
  <1>8. ASSUME NEW s \in Sessions PROVE pos2[n][s] = Taken(rx_table', s)
    <2>1. pos[Len(line)][s] = Taken(rx_table, s)
      BY DEF StreamInv
    <2> QED BY <2>1, <1>3, <1>4
  <1>9. /\ Len(answers') <= n /\ requested' = pos2[Len(answers')]
        /\ \A k \in 1 .. Len(answers') : answers'[k] = A[k].session
    <2>1. Len(answers) \in 0 .. Len(line) /\ Len(answers) <= n
      BY <1>1 DEF n
    <2>2. requested = pos[Len(answers)] /\ \A k \in 1 .. Len(answers) : answers[k] = line[k].session
      BY DEF StreamInv
    <2>3. \A k \in 1 .. Len(answers) : k \in 1 .. Len(line)
      BY <1>1
    <2> QED BY <2>1, <2>2, <2>3, <1>1, <1>4
  <1>10. StreamInv(A, pos2)'
    BY <1>1, <1>5, <1>6, <1>7, <1>8, <1>9 DEF StreamInv
  <1> QED BY <1>1, <1>5, <1>10 DEF A

(* The application asks for the next segment of the line.                  *)
LEMMA StreamAsked ==
    ASSUME NEW line \in Seq(Carrying), NEW pos \in [0 .. Len(line) -> [Sessions -> Nat]], StreamInv(line, pos),
           answers \in Seq(Sessions), Len(answers) < Len(line), NEW k \in Nat, k = Len(answers) + 1,
           answers' = Append(answers, line[k].session),
           requested' = [requested EXCEPT ![line[k].session] = @ + line[k].length],
           \A s \in Sessions : Taken(rx_table', s) = Taken(rx_table, s), UNCHANGED got
    PROVE  StreamInv(line, pos)'
  <1>1. Len(line) \in Nat /\ Len(answers) \in Nat /\ k \in 1 .. Len(line) /\ k - 1 = Len(answers)
    BY LenProperties
  <1>2. line[k].session \in Sessions /\ pos[k] = [pos[k - 1] EXCEPT ![line[k].session] = @ + line[k].length]
    BY <1>1 DEF StreamInv
  <1>3. Len(answers') = k /\ answers'[k] = line[k].session /\ \A j \in 1 .. Len(answers) : answers'[j] = answers[j]
    BY <1>1, <1>2, AppendFacts
  <1>4. requested' = pos[Len(answers')]
    BY <1>1, <1>2, <1>3 DEF StreamInv
  <1>5. \A j \in 1 .. Len(answers') : answers'[j] = line[j].session
    <2>1. \A j \in 1 .. k : j = k \/ j \in 1 .. Len(answers)
      BY <1>1
    <2>2. \A j \in 1 .. Len(answers) : answers[j] = line[j].session
      BY DEF StreamInv
    <2> QED BY <2>1, <2>2, <1>3
  <1>6. Len(answers') <= Len(line)
    BY <1>1, <1>3
  <1> QED BY <1>4, <1>5, <1>6 DEF StreamInv

(* The application reads the first segment of the line.                    *)
LEMMA StreamShrinks ==
    ASSUME NEW line \in Seq(Carrying), NEW pos \in [0 .. Len(line) -> [Sessions -> Nat]], StreamInv(line, pos),
           line # <<>>, answers \in Seq(Sessions), answers # <<>>, answers' = Tail(answers),
           got \in [Sessions -> Seq(Sessions \X Nat)],
           \A s \in Sessions : Len(got'[s]) = Len(got[s]) + IF s = line[1].session THEN line[1].length ELSE 0,
           UNCHANGED <<rx_table, requested>>
    PROVE  \E pos2 \in [0 .. Len(Tail(line)) -> [Sessions -> Nat]] : StreamInv(Tail(line), pos2)'
  <1> DEFINE T == Tail(line)
  <1>1. /\ Len(line) \in Nat \ {0} /\ Len(T) = Len(line) - 1
        /\ \A k \in 1 .. Len(T) : T[k] = line[k + 1]
        /\ Len(answers) \in Nat \ {0} /\ Len(answers') = Len(answers) - 1
        /\ \A k \in 1 .. Len(answers') : answers'[k] = answers[k + 1]
    BY TailFacts
  <1> DEFINE pos2 == [k \in 0 .. Len(T) |-> pos[k + 1]]
  <1> HIDE DEF T
  <1>2. \A k \in 0 .. Len(T) : k + 1 \in 1 .. Len(line) /\ k + 1 \in 0 .. Len(line) /\ pos2[k] = pos[k + 1]
    BY <1>1
  <1>3. pos2 \in [0 .. Len(T) -> [Sessions -> Nat]]
    BY <1>2
  <1> HIDE DEF pos2
  <1>4. 0 \in 0 .. Len(T) /\ Len(T) \in 0 .. Len(T) /\ 1 \in 1 .. Len(line) /\ Len(T) + 1 = Len(line)
    BY <1>1
  <1>5. ASSUME NEW s \in Sessions PROVE pos2[0][s] = Len(got'[s])
    <2>1. pos[1][s] = pos[0][s] + IF s = line[1].session THEN line[1].length ELSE 0
      <3>1. PICK k \in 1 .. Len(line) : k = 1
        BY <1>4
      <3>2. pos[k][s] = pos[k - 1][s] + IF s = line[k].session THEN line[k].length ELSE 0
        BY PosFacts
      <3>3. k - 1 = 0
        BY <3>1
      <3> QED BY <3>1, <3>2, <3>3
    <2>2. pos[0][s] = Len(got[s])
      BY DEF StreamInv
    <2>3. pos2[0] = pos[1]
      <3>1. PICK k \in 0 .. Len(T) : k = 0
        BY <1>4
      <3>2. pos2[k] = pos[k + 1] /\ k + 1 = 1
        BY <3>1, <1>2
      <3> QED BY <3>1, <3>2
    <2> QED BY <2>1, <2>2, <2>3
  <1>6. ASSUME NEW k \in 1 .. Len(T)
        PROVE  /\ T[k].session \in Sessions
               /\ T[k].seq = pos2[k - 1][T[k].session]
               /\ pos2[k] = [pos2[k - 1] EXCEPT ![T[k].session] = @ + T[k].length]
    <2>1. PICK j \in 1 .. Len(line) : j = k + 1
      BY <1>1
    <2>2. k \in 0 .. Len(T) /\ k - 1 \in 0 .. Len(T) /\ (k - 1) + 1 = k /\ j - 1 = k
      BY <2>1, <1>1
    <2>3. T[k] = line[j] /\ pos2[k] = pos[j] /\ pos2[k - 1] = pos[j - 1]
      BY <2>1, <2>2, <1>1, <1>2
    <2>4. /\ line[j].session \in Sessions /\ line[j].seq = pos[j - 1][line[j].session]
          /\ pos[j] = [pos[j - 1] EXCEPT ![line[j].session] = @ + line[j].length]
      BY DEF StreamInv
    <2> QED BY <2>3, <2>4
  <1>7. ASSUME NEW s \in Sessions PROVE pos2[Len(T)][s] = Taken(rx_table', s)
    <2>1. pos2[Len(T)] = pos[Len(line)]
      BY <1>2, <1>4
    <2> QED BY <2>1 DEF StreamInv
  <1>8. /\ Len(answers') <= Len(T) /\ requested' = pos2[Len(answers')]
        /\ \A k \in 1 .. Len(answers') : answers'[k] = T[k].session
    <2>1. /\ Len(answers) <= Len(line) /\ requested = pos[Len(answers)]
          /\ \A k \in 1 .. Len(answers) : answers[k] = line[k].session
      BY DEF StreamInv
    <2>2. Len(answers') <= Len(T) /\ Len(answers') \in 0 .. Len(T) /\ Len(answers') + 1 = Len(answers)
      BY <2>1, <1>1
    <2>3. requested' = pos2[Len(answers')]
      BY <2>1, <2>2, <1>2
    <2>4. ASSUME NEW k \in 1 .. Len(answers') PROVE answers'[k] = T[k].session
      <3>1. PICK j \in 1 .. Len(answers) : j = k + 1
        BY <2>2
      <3>2. k \in 1 .. Len(T)
        BY <2>2, <1>1
      <3> QED BY <3>1, <3>2, <2>1, <1>1
    <2> QED BY <2>2, <2>3, <2>4
  <1>9. StreamInv(T, pos2)'
    BY <1>3, <1>5, <1>6, <1>7, <1>8 DEF StreamInv
  <1> QED BY <1>3, <1>9 DEF T
-----------------------------------------------------------------------------
(* What is asked for.                                                      *)
LEMMA OneIs == One(reader) \in 0 .. 1 /\ (reader = None <=> One(reader) = 0)
  BY DEF One

LEMMA AskedExtends ==
    ASSUME NEW line \in Seq(Carrying), AskedInv(line), NEW seg \in Carrying, seg.session \in Sessions,
           notifications \in Seq(Notes), NEW note \in Notes, Wish(note) = Wish(seg),
           notifications' = Append(notifications, note),
           answers \in Seq(Sessions), Len(answers) <= Len(line), UNCHANGED <<reader, answers>>
    PROVE  AskedInv(Append(line, seg))'
  <1> DEFINE A == Append(line, seg)
             n == Len(line) + 1
             lo == Len(answers) + One(reader) + 1
             I == lo .. Len(line)
             e == Wish(seg)
  <1>1. /\ Len(line) \in Nat /\ n \in Nat /\ Len(A) = n /\ A[n] = seg /\ DOMAIN A = 1 .. n
        /\ DOMAIN line = 1 .. Len(line) /\ \A k \in 1 .. Len(line) : A[k] = line[k]
        /\ Len(answers) \in Nat
    BY AppendProperties, LenProperties
  <1>2. lo \in Nat /\ lo <= n /\ 1 <= lo
    BY <1>1, OneIs DEF AskedInv
  <1>3. Wishes(A)[n] = e /\ \A i \in 1 .. Len(line) : Wishes(A)[i] = Wishes(line)[i]
    BY <1>1 DEF Wishes
  <1>4. /\ Wishes(notifications) \in Seq(Wished) /\ Wishes(notifications') = Append(Wishes(notifications), e)
        /\ e \in Wished /\ e \in Wanted
    <2>1. Wish(note) \in Wished /\ \A r \in Notes : Wish(r) \in Wished
      BY WishTypes
    <2>2. Wish(seg) \in Wanted
      BY WishTypes
    <2> QED BY <2>1, <2>2, WishFacts
  <1>5. Along(Wishes(notifications), Wanted, Wishes(line), I)
    BY DEF AskedInv
  <1> HIDE DEF A, n, lo, e
  <1>6. I \in SUBSET Int /\ \A i \in I : i < n /\ i \in 1 .. Len(line)
    BY <1>1, <1>2 DEF n
  <1>7. I \cup {n} = lo .. n
    <2>1. \A i : i \in I \cup {n} <=> i \in lo .. n
      BY <1>1, <1>2 DEF n
    <2> QED BY <2>1
  <1> HIDE DEF I
  <1>8. Along(Wishes(notifications), Wanted, Wishes(A), I)
    BY <1>3, <1>5, <1>6, AlongAgrees
  <1>9. Along(Append(Wishes(notifications), e), Wanted, Wishes(A), I \cup {n})
    <2>1. /\ Wishes(notifications) \in Seq(Wished) /\ e \in Wished /\ e \in Wanted
          /\ n \in Int /\ I \in SUBSET Int /\ Wishes(A)[n] = e
      BY <1>1, <1>3, <1>4, <1>6
    <2>2. \A i \in I : i < n
      BY <1>6
    <2> QED BY <2>1, <2>2, <1>8, AlongAppend
  <1>10. Along(Wishes(notifications'), Wanted, Wishes(A), lo .. Len(A))
    BY <1>1, <1>4, <1>7, <1>9
  <1>11. reader # None => Len(answers) < n /\ Len(answers) + 1 \in 1 .. Len(line)
    BY <1>1 DEF AskedInv, n
  <1>12. reader # None => Len(answers) < Len(A) /\ Wish(A[Len(answers) + 1]) = Wish(reader)
    BY <1>1, <1>11 DEF AskedInv
  <1>13. AskedInv(A)'
    BY <1>10, <1>12 DEF AskedInv, lo
  <1> QED BY <1>13 DEF A

LEMMA AskedOther ==
    ASSUME NEW line, AskedInv(line), notifications \in Seq(Notes), UNCHANGED <<reader, answers>>,
           \/ notifications' = notifications
           \/ \E note \in Notes : note.length = 0 /\ notifications' = Append(notifications, note)
    PROVE  AskedInv(line)'
  <1>1. Along(Wishes(notifications), Wanted, Wishes(line), Len(answers) + One(reader) + 1 .. Len(line))
    BY DEF AskedInv
  <1>2. Along(Wishes(notifications'), Wanted, Wishes(line), Len(answers) + One(reader) + 1 .. Len(line))
    <2>1. CASE notifications' = notifications
      BY <2>1, <1>1
    <2>2. ASSUME NEW note \in Notes, note.length = 0, notifications' = Append(notifications, note)
          PROVE  Along(Wishes(notifications'), Wanted, Wishes(line), Len(answers) + One(reader) + 1 .. Len(line))
      <3>1. Wish(note) \in Wished /\ Wish(note) \notin Wanted /\ \A r \in Notes : Wish(r) \in Wished
        BY <2>2, WishTypes
      <3>2. Wishes(notifications) \in Seq(Wished) /\ Wishes(notifications') = Append(Wishes(notifications), Wish(note))
        BY <2>2, <3>1, WishFacts
      <3> QED BY <3>1, <3>2, <1>1, AlongAppendOther
    <2> QED BY <2>1, <2>2
  <1> QED BY <1>2 DEF AskedInv

LEMMA AskedNext ==
    ASSUME NEW line \in Seq(Carrying), AskedInv(line), notifications \in Seq(Notes), notifications # <<>>,
           notifications' = Tail(notifications), reader = None,
           answers \in Seq(Sessions), answers' = answers,
           Head(notifications).length = 0 => reader' = None,
           Head(notifications).length # 0 => reader' # None /\ Wish(reader') = Wish(Head(notifications))
    PROVE  AskedInv(line)'
  <1> DEFINE r == Head(notifications)
             W == Wishes(notifications)
             lo == Len(answers) + 1
             I == lo .. Len(line)
  <1>1. r \in Notes /\ Len(line) \in Nat /\ Len(answers) \in Nat /\ lo \in Nat /\ DOMAIN line = 1 .. Len(line)
    BY TailFacts, LenProperties
  <1>2. W \in Seq(Wished) /\ W # <<>> /\ Wishes(notifications') = Tail(W) /\ Head(W) = Wish(r)
    BY WishFacts, WishTypes
  <1>3. Wish(r) \in Wished /\ (Wish(r) \in Wanted <=> r.length # 0)
    BY <1>1, WishTypes
  <1>4. Along(W, Wanted, Wishes(line), I)
    <2>1. Len(answers) + One(reader) + 1 = lo
      BY <1>1 DEF One
    <2> QED BY <2>1 DEF AskedInv
  <1>5. CASE r.length = 0
    <2> HIDE DEF W, I
    <2>1. Along(Tail(W), Wanted, Wishes(line), I)
      BY <1>2, <1>3, <1>4, <1>5, AlongTailOther
    <2>2. Len(answers) + One(reader') + 1 = lo /\ reader' = None
      BY <1>1, <1>5 DEF One
    <2> QED BY <2>1, <2>2, <1>2 DEF AskedInv, I
  <1>6. CASE r.length # 0
    <2>1. I \in SUBSET Int
      OBVIOUS
    <2> HIDE DEF W, I, r
    <2>2. PICK b \in I : /\ \A i \in I : b <= i
                         /\ Wishes(line)[b] = Head(W)
                         /\ Along(Tail(W), Wanted, Wishes(line), I \ {b})
      BY <2>1, <1>2, <1>3, <1>4, <1>6, AlongTail
    <2>3. b = lo /\ lo <= Len(line)
      BY <2>2, <1>1 DEF I
    <2>4. Wish(line[lo]) = Wish(r)
      BY <2>2, <2>3, <1>1, <1>2 DEF Wishes
    <2>5. I \ {b} = lo + 1 .. Len(line)
      <3>1. \A i : i \in I \ {b} <=> i \in lo + 1 .. Len(line)
        BY <2>3, <1>1 DEF I
      <3> QED BY <3>1
    <2>6. reader' # None /\ Wish(reader') = Wish(r)
      BY <1>6 DEF r
    <2>7. Len(answers) + One(reader') + 1 = lo + 1
      BY <2>6, <1>1 DEF One
    <2>8. Along(Wishes(notifications'), Wanted, Wishes(line), Len(answers) + One(reader') + 1 .. Len(line))
      BY <2>2, <2>5, <2>7, <1>2
    <2>9. Len(answers) < Len(line)
      BY <2>3, <1>1
    <2> QED BY <2>4, <2>6, <2>8, <2>9 DEF AskedInv
  <1> QED BY <1>5, <1>6

LEMMA AskedMoves ==
    ASSUME NEW line, AskedInv(line), reader # None, reader' = None, Len(answers) \in Nat,
           Len(answers') = Len(answers) + 1, notifications' = notifications
    PROVE  AskedInv(line)'
  <1>1. Len(answers') + One(reader') + 1 = Len(answers) + One(reader) + 1
    BY DEF One
  <1> QED BY <1>1 DEF AskedInv

LEMMA AskedShrinks ==
    ASSUME NEW line \in Seq(Carrying), AskedInv(line), line # <<>>,
           answers \in Seq(Sessions), answers # <<>>, answers' = Tail(answers),
           UNCHANGED <<reader, notifications>>
    PROVE  AskedInv(Tail(line))'
  <1> DEFINE T == Tail(line)
             lo == Len(answers) + One(reader) + 1
             lo2 == Len(answers') + One(reader) + 1
  <1>1. /\ Len(line) \in Nat \ {0} /\ Len(T) = Len(line) - 1 /\ DOMAIN line = 1 .. Len(line) /\ DOMAIN T = 1 .. Len(T)
        /\ \A k \in 1 .. Len(T) : T[k] = line[k + 1]
        /\ Len(answers) \in Nat \ {0} /\ Len(answers') = Len(answers) - 1
    BY TailFacts, LenProperties
  <1>2. lo \in Int /\ lo2 \in Int /\ lo = lo2 + 1 /\ lo2 >= 1
    BY <1>1, OneIs
  <1>3. Along(Wishes(notifications), Wanted, Wishes(line), lo .. Len(line))
    BY DEF AskedInv
  <1> HIDE DEF T, lo, lo2
  <1>4. \A i \in Int : i \in lo2 .. Len(T) <=> i + 1 \in lo .. Len(line)
    BY <1>1, <1>2
  <1>5. \A i \in lo2 .. Len(T) : Wishes(T)[i] = Wishes(line)[i + 1]
    <2>1. \A i \in lo2 .. Len(T) : i \in 1 .. Len(T) /\ i + 1 \in 1 .. Len(line)
      BY <1>1, <1>2
    <2> QED BY <2>1, <1>1 DEF Wishes
  <1>6. lo .. Len(line) \in SUBSET Int /\ lo2 .. Len(T) \in SUBSET Int
    OBVIOUS
  <1>7. Along(Wishes(notifications), Wanted, Wishes(T), lo2 .. Len(T))
    BY <1>3, <1>4, <1>5, <1>6, AlongShift
  <1>8. reader # None => /\ Len(answers') < Len(T)
                         /\ Wish(T[Len(answers') + 1]) = Wish(reader)
    <2> SUFFICES ASSUME reader # None
                 PROVE  Len(answers') < Len(T) /\ Wish(T[Len(answers') + 1]) = Wish(reader)
      OBVIOUS
    <2>1. Len(answers) < Len(line) /\ Wish(line[Len(answers) + 1]) = Wish(reader)
      BY DEF AskedInv
    <2>2. PICK k \in 1 .. Len(T) : k = Len(answers') + 1
      <3>1. Len(answers') + 1 \in 1 .. Len(T)
        BY <2>1, <1>1
      <3> QED BY <3>1
    <2>3. T[k] = line[k + 1] /\ k + 1 = Len(answers) + 1 /\ Len(answers') < Len(T)
      BY <2>1, <2>2, <1>1
    <2> QED BY <2>1, <2>2, <2>3
  <1>9. AskedInv(T)'
    BY <1>7, <1>8 DEF AskedInv, lo2
  <1> QED BY <1>9 DEF T
-----------------------------------------------------------------------------
(* What arrives is of a stream or fails.                                   *)
LEMMA LastOffset == Max(Offsets) \in Offsets
  <1> DEFINE T == {StreamLength - o : o \in Offsets}
  <1>1. T \in SUBSET Nat /\ T # {}
    <2>1. \A o \in Offsets : StreamLength - o \in Nat
      BY RxPathAssumption
    <2>2. PICK o \in Offsets : TRUE
      BY RxPathAssumption
    <2>3. StreamLength - o \in T
      OBVIOUS
    <2> QED BY <2>1, <2>3
  <1>2. PICK x \in T : \A y \in T : x <= y
    BY <1>1, LeastNat
  <1>3. PICK o \in Offsets : x = StreamLength - o
    BY <1>2
  <1>4. \A y \in Offsets : o >= y
    <2> SUFFICES ASSUME NEW y \in Offsets PROVE o >= y
      OBVIOUS
    <2>1. StreamLength - y \in T
      OBVIOUS
    <2>2. o \in Nat /\ y \in Nat /\ StreamLength \in Nat
      BY RxPathAssumption
    <2>3. StreamLength - o <= StreamLength - y
      BY <2>1, <1>2, <1>3
    <2> QED BY <2>2, <2>3
  <1> QED BY <1>4 DEF Max

LEMMA ArrivesSound ==
    ASSUME Stray = FALSE, Arrive
    PROVE  \E seg \in Sound : FinFits(seg) /\ rxEngGetMetaData(seg)
  <1>0. StreamLength \in Nat /\ Kinds \subseteq {"RST", "SYN", "BOGUS"}
    BY RxPathAssumption
  <1>1. ASSUME NEW s \in Sessions, NEW seg \in Arrivals(s), OfTheStream(seg), rxEngGetMetaData(seg)
        PROVE  seg \in Sound /\ FinFits(seg)
    <2>1. ASSUME NEW seq \in Offsets, NEW length \in Lengths \ {0}, seg = Segment(s, "ACK", seq, length)
          PROVE  seg \in Sound /\ FinFits(seg)
      <3>1. seq \in Nat /\ length \in Nat
        BY RxPathAssumption
      <3> QED BY <3>1, <2>1, <1>0, <1>1 DEF Segment, Sound, Segments, FinFits, OfTheStream
    <2>2. CASE seg = Segment(s, "ACK", 0, 0)
      BY <2>2, <1>0, <1>1 DEF Segment, Sound, Segments, FinFits, OfTheStream
    <2>3. ASSUME NEW length \in {n \in Lengths : n <= StreamLength /\ StreamLength <= AdvertisedEdge(s)},
                 seg = Segment(s, "FIN_ACK", StreamLength - length, length)
          PROVE  seg \in Sound /\ FinFits(seg)
      <3>1. length \in Nat /\ StreamLength - length \in Nat /\ (StreamLength - length) + length = StreamLength
        BY <1>0, RxPathAssumption
      <3>2. StreamLength <= AdvertisedEdge(s)
        OBVIOUS
      <3>3. /\ seg.session = s /\ seg.kind = "FIN_ACK" /\ seg.fault = "none"
            /\ seg.length = length /\ seg.seq = StreamLength - length
        BY <2>3 DEF Segment
      <3>4. seg \in Segments
        BY <2>3, <3>1 DEF Segment, Segments
      <3>5. seg.seq + seg.length = StreamLength /\ seg.kind \notin Kinds
        BY <3>1, <3>3, <1>0
      <3> QED BY <3>2, <3>3, <3>4, <3>5 DEF Sound, FinFits
    <2>4. ASSUME NEW kind \in Kinds, NEW length \in {0}, seg = Segment(s, kind, Max(Offsets), length)
          PROVE  seg \in Sound /\ FinFits(seg)
      <3>1. Max(Offsets) \in Nat
        <4>1. \A o \in Offsets : o \in Nat
          BY RxPathAssumption
        <4> QED BY <4>1, LastOffset
      <3>2. kind # "ACK" /\ kind # "FIN_ACK"
        BY <1>0
      <3> QED BY <2>4, <3>1, <3>2 DEF Segment, Sound, Segments, FinFits
    <2> QED BY <2>1, <2>2, <2>3, <2>4, Stray = FALSE DEF Arrivals
  <1>2. ASSUME NEW fault \in {"checksum", "handler"}
        PROVE  Foreign(fault) \in Sound /\ FinFits(Foreign(fault))
    BY <1>0 DEF Foreign, Segment, Sound, Segments, FinFits
  <1> QED BY <1>1, <1>2 DEF Arrive
-----------------------------------------------------------------------------
(* The judgement goes on beside what the application does.                 *)
LEMMA JudgedKept ==
    ASSUME TypeOK, StagesInv, NEW taken \in SUBSET Int, NEW rest \in Seq(Carrying), Judged(taken, rest),
           \/ \E seg \in Sound : rxEngGetMetaData(seg)
           \/ rxEngVerifyCheckSum \/ rxEngMetadataHandler \/ Load
           \/ rxEngPacketDropper /\ ~Forward
           \/ UNCHANGED <<payload, metaInfo, valid, FsmLine, verdicts, dropper>>
    PROVE  \E taken2 \in SUBSET Int : Judged(taken2, rest)'
  <1>1. PICK c \in Nat, h \in Nat, f \in Nat, m \in Nat, v \in Nat, x \in Nat :
           PipeInv(c, h, f, m, v, x, taken) /\ DropInv(m, v, x, taken)
    BY DEF Judged
  <1>2. Along(rest, Carrying, payload, taken)
    BY DEF Judged
  <1>3. ASSUME NEW seg \in Sound, rxEngGetMetaData(seg) PROVE \E taken2 \in SUBSET Int : Judged(taken2, rest)'
    <2>1. /\ PipeInv(c, h, f, m, v, x, taken)' /\ DropInv(m, v, x, taken)'
          /\ Along(rest, Carrying, payload', taken)
      BY <1>1, <1>2, <1>3, PipeArrives
    <2> QED BY <2>1 DEF Judged
  <1>4. CASE rxEngVerifyCheckSum
    <2>1. PICK b \in Nat : PipeInv(c, h, f, b, v, x, taken)' /\ DropInv(b, v, x, taken)'
      BY <1>1, <1>4, PipeChecked
    <2>2. payload' = payload
      BY <1>4 DEF rxEngVerifyCheckSum
    <2> QED BY <2>1, <2>2, <1>2 DEF Judged
  <1>5. CASE rxEngMetadataHandler
    <2>1. PICK b \in Nat : PipeInv(c, h, f, m, b, x, taken)' /\ DropInv(m, b, x, taken)'
      BY <1>1, <1>5, PipeHandled
    <2>2. payload' = payload
      BY <1>5 DEF rxEngMetadataHandler
    <2> QED BY <2>1, <2>2, <1>2 DEF Judged
  <1>6. ASSUME UNCHANGED <<payload, metaInfo, valid, FsmLine, verdicts, dropper>>
        PROVE  \E taken2 \in SUBSET Int : Judged(taken2, rest)'
    <2>1. PipeInv(c, h, f, m, v, x, taken)' /\ DropInv(m, v, x, taken)'
      BY <1>1, <1>6, PipeSame
    <2> QED BY <2>1, <1>2, <1>6 DEF Judged
  <1>7. CASE Load
    <2>1. FsmLine' = FsmLine
      BY <1>7, LoadKeepsLine
    <2>2. UNCHANGED <<payload, metaInfo, valid, FsmLine, verdicts, dropper>>
      BY <2>1, <1>7 DEF Load, judging
    <2> QED BY <2>2, <1>6
  <1>8. CASE rxEngPacketDropper /\ ~Forward
    <2>1. UNCHANGED <<metaInfo, valid, fsmMeta, fsm>>
      BY <1>8 DEF rxEngPacketDropper
    <2>2. CASE \/ ReadVerdict("RD_VERIFY_CHECKSUM", "checksum", "RD_META_HANDLER")
               \/ ReadVerdict("RD_META_HANDLER", "handler", "RD_FSM_DROP")
               \/ ReadVerdict("RD_FSM_DROP", "fsm", "FWD")
      <3>1. payload' = payload
        BY <2>2 DEF ReadVerdict
      <3>2. PICK c2 \in Nat, h2 \in Nat, f2 \in Nat :
               PipeInv(c2, h2, f2, m, v, x, taken)' /\ DropInv(m, v, x, taken)'
        BY <2>1, <2>2, <3>1, <1>1, PipeReads
      <3> QED BY <3>1, <3>2, <1>2 DEF Judged
    <2>3. CASE Drop
      <3>1. /\ dropper = "DROP" /\ dropper' = "RD_VERIFY_CHECKSUM" /\ payload # <<>> /\ payload' = Tail(payload)
            /\ verdicts' = verdicts
        BY <2>3 DEF Drop
      <3>2. PICK m2 \in Nat, v2 \in Nat, x2 \in Nat, taken2 \in SUBSET Int :
               /\ PipeInv(0, 0, 0, m2, v2, x2, taken2)' /\ DropInv(m2, v2, x2, taken2)'
               /\ Along(rest, Carrying, payload', taken2)
        BY <2>1, <3>1, <1>1, <1>2, PipeLeaves
      <3> QED BY <3>2 DEF Judged
    <2> QED BY <2>2, <2>3, <1>8 DEF rxEngPacketDropper
  <1> QED BY <1>3, <1>4, <1>5, <1>6, <1>7, <1>8

LEMMA JudgedForwards ==
    ASSUME TypeOK, NEW taken \in SUBSET Int, NEW rest \in Seq(Carrying), Judged(taken, rest),
           Forward, UNCHANGED <<metaInfo, valid, fsmMeta, fsm>>
    PROVE  /\ \E taken2 \in SUBSET Int : Judged(taken2, Tail(rest))'
           /\ rest # <<>> /\ Head(rest) = Head(payload)
  <1>1. PICK c \in Nat, h \in Nat, f \in Nat, m \in Nat, v \in Nat, x \in Nat :
           PipeInv(c, h, f, m, v, x, taken) /\ DropInv(m, v, x, taken)
    BY DEF Judged
  <1>2. Along(rest, Carrying, payload, taken)
    BY DEF Judged
  <1>3. /\ dropper = "FWD" /\ dropper' = "RD_VERIFY_CHECKSUM" /\ payload # <<>> /\ payload' = Tail(payload)
        /\ verdicts' = verdicts
    BY DEF Forward
  <1>4. PICK m2 \in Nat, v2 \in Nat, x2 \in Nat, taken2 \in SUBSET Int :
           /\ PipeInv(0, 0, 0, m2, v2, x2, taken2)' /\ DropInv(m2, v2, x2, taken2)'
           /\ rest # <<>> /\ Head(rest) = Head(payload)
           /\ Along(Tail(rest), Carrying, payload', taken2)
    BY <1>1, <1>2, <1>3, PipeLeaves
  <1> QED BY <1>4 DEF Judged

LEMMA JudgedTransition ==
    ASSUME TypeOK, fsm # None, fsm' = None, UNCHANGED <<payload, metaInfo, valid, fsmMeta, dropper>>,
           NEW drop \in BOOLEAN, Judge("fsm", fsm.seg, drop),
           NEW taken \in SUBSET Int, NEW rest \in Seq(Carrying), Judged(taken, rest),
           NEW longer, fsm.seg.length = 0 \/ drop => longer = rest,
           fsm.seg.length # 0 /\ ~drop => longer = Append(rest, fsm.seg)
    PROVE  \E taken2 \in SUBSET Int : Judged(taken2, longer)'
  <1>1. PICK c \in Nat, h \in Nat, f \in Nat, m \in Nat, v \in Nat, x \in Nat :
           PipeInv(c, h, f, m, v, x, taken) /\ DropInv(m, v, x, taken)
    BY DEF Judged
  <1>2. Along(rest, Carrying, payload, taken)
    BY DEF Judged
  <1>3. PICK b \in Nat, taken2 \in SUBSET Int :
              /\ PipeInv(c, h, f, m, v, b, taken2)' /\ DropInv(m, v, b, taken2)'
              /\ Along(longer, Carrying, payload', taken2)
    BY <1>1, <1>2, PipeTransition
  <1> QED BY <1>3 DEF Judged
-----------------------------------------------------------------------------
(* What the FSM does with a segment: it takes its payload, or a FIN without *)
(* one, or leaves the streams alone.                                       *)
Quiet ==
    \/ notifications' = notifications
    \/ \E note \in Notes : note.length = 0 /\ notifications' = Append(notifications, note)
Takes ==
    /\ fsm.seg.length # 0 /\ fsm.seg.seq = fsm.sar.recvd /\ Judge("fsm", fsm.seg, FALSE)
    /\ \/ /\ fsm.seg.kind = "ACK" /\ FreeSpace(fsm.sar) > fsm.seg.length
          /\ Received(fsm.seg.seq + fsm.seg.length)
       \/ fsm.seg.kind = "FIN_ACK" /\ Received(fsm.seg.seq + fsm.seg.length + 1)
    /\ \E note \in Notes : Wish(note) = Wish(fsm.seg) /\ notifications' = Append(notifications, note)
Finishes ==
    /\ fsm.seg.length = 0 /\ fsm.seg.kind = "FIN_ACK" /\ fsm.seg.seq = fsm.sar.recvd
    /\ Judge("fsm", fsm.seg, FALSE) /\ Received(fsm.seg.seq + fsm.seg.length + 1) /\ Quiet
Leaves ==
    Judge("fsm", fsm.seg, TRUE) /\ rx_table' = rx_table /\ Quiet

LEMMA TransitionCases ==
    ASSUME TypeOK, StagesInv, Transition
    PROVE  /\ fsm # None /\ fsm.seg \in Sound /\ fsm.seg.session \in Sessions /\ fsm' = None
           /\ UNCHANGED <<payload, metaInfo, valid, dropper, data, fsmMeta, reader, answers, requested, got>>
           /\ Takes \/ Finishes \/ Leaves
  <1> DEFINE seg == fsm.seg
  <1>1. /\ fsm # None /\ fsm' = None /\ seg \in Sound
        /\ UNCHANGED <<payload, metaInfo, valid, dropper, data, fsmMeta, reader, answers, requested, got>>
    BY DEF Transition, reading, TypeOK, SegmentTypes
  <1>2. seg.session \in Sessions /\ seg.length \in Nat /\ (seg.kind \in Kinds => seg.length = 0)
    BY <1>1 DEF StagesInv, Sound, Segments
  <1>3. ASSUME NEW length \in Nat, NEW closed \in BOOLEAN, Notify(length, closed)
        PROVE  \E note \in Notes : /\ note.length = length /\ Wish(note) = [session |-> seg.session, length |-> length]
                                   /\ notifications' = Append(notifications, note)
    <2> DEFINE note == [session |-> seg.session, length |-> length, closed |-> closed]
    <2>1. note \in Notes /\ note.length = length /\ Wish(note) = [session |-> seg.session, length |-> length]
      BY <1>2 DEF Notes, Wish
    <2> QED BY <2>1, <1>3 DEF Notify
  <1>4. ASSUME NEW closed \in BOOLEAN, Notify(seg.length, closed)
        PROVE  \E note \in Notes : Wish(note) = Wish(seg) /\ notifications' = Append(notifications, note)
    BY <1>2, <1>3, <1>4 DEF Wish
  <1>5. ASSUME NEW closed \in BOOLEAN, NEW length \in Nat, length = 0, Notify(length, closed) PROVE Quiet
    BY <1>3, <1>5 DEF Quiet
  <1>6. ASSUME NEW ackOk \in BOOLEAN, seg.kind = "ACK", Ack(ackOk) PROVE Takes \/ Leaves
    <2>1. CASE state[seg.session] \in Receiving /\ seg.length # 0 /\ InOrder /\ FreeSpace(fsm.sar) > seg.length
      <3>1. Received(seg.seq + seg.length) /\ Notify(seg.length, FALSE) /\ Judge("fsm", seg, FALSE)
        BY <1>6, <2>1 DEF Ack
      <3> QED BY <3>1, <1>4, <1>6, <2>1 DEF Takes, InOrder
    <2>2. CASE ~(state[seg.session] \in Receiving /\ seg.length # 0 /\ InOrder /\ FreeSpace(fsm.sar) > seg.length)
      BY <1>6, <2>2 DEF Ack, Refuse, Leaves, Quiet
    <2> QED BY <2>1, <2>2
  <1>7. ASSUME NEW ackOk \in BOOLEAN, seg.kind = "FIN_ACK", Fin(ackOk) PROVE Takes \/ Finishes \/ Leaves
    <2>1. CASE state[seg.session] \in Finishing /\ InOrder
      <3>1. /\ Received(seg.seq + seg.length + 1) /\ Judge("fsm", seg, FALSE)
            /\ IF seg.length # 0 \/ state[seg.session] = "ESTABLISHED"
                 THEN Notify(seg.length, TRUE) ELSE UNCHANGED notifications
        BY <1>7, <2>1 DEF Fin
      <3>2. CASE seg.length # 0
        <4>1. Notify(seg.length, TRUE)
          BY <3>1, <3>2
        <4> QED BY <3>1, <3>2, <4>1, <1>4, <1>7, <2>1 DEF Takes, InOrder
      <3>3. CASE seg.length = 0
        <4>1. Quiet
          <5>1. CASE state[seg.session] = "ESTABLISHED"
            BY <5>1, <3>1, <3>3, <1>2, <1>5
          <5>2. CASE state[seg.session] # "ESTABLISHED"
            BY <5>2, <3>1, <3>3 DEF Quiet
          <5> QED BY <5>1, <5>2
        <4> QED BY <3>1, <3>3, <4>1, <1>7, <2>1 DEF Finishes, InOrder
      <3> QED BY <3>2, <3>3
    <2>2. CASE ~(state[seg.session] \in Finishing /\ InOrder)
      BY <1>7, <2>2 DEF Fin, Refuse, Leaves, Quiet
    <2> QED BY <2>1, <2>2
  <1>8. ASSUME NEW ackOk \in BOOLEAN, seg.kind \in Kinds, OtherCase(seg.kind, ackOk) PROVE Leaves
    <2>1. verdicts' = verdicts /\ rx_table' = rx_table
      BY <1>8 DEF OtherCase
    <2>2. Judge("fsm", seg, TRUE)
      BY <2>1, <1>2, <1>8 DEF Judge
    <2>3. Quiet
      <3>1. CASE seg.kind = "RST" /\ InOrder
        <4>1. Notify(0, TRUE)
          BY <3>1, <1>8 DEF OtherCase
        <4> QED BY <4>1, <1>5
      <3>2. CASE ~(seg.kind = "RST" /\ InOrder)
        BY <3>2, <1>8 DEF OtherCase, Quiet
      <3> QED BY <3>1, <3>2
    <2> QED BY <2>1, <2>2, <2>3 DEF Leaves
  <1> QED BY <1>1, <1>2, <1>6, <1>7, <1>8 DEF Transition

(* The table after recvd is written.                                       *)
LEMMA ReceivedIs ==
    ASSUME rx_table \in [Sessions -> Entries], fsm.seg.session \in Sessions,
           NEW n \in 0 .. StreamLength + 1, Received(n)
    PROVE  /\ rx_table' \in [Sessions -> Entries]
           /\ \A s \in Sessions : rx_table'[s].appd = rx_table[s].appd
           /\ \A s \in Sessions : rx_table'[s].recvd = IF s = fsm.seg.session THEN n ELSE rx_table[s].recvd
  <1> DEFINE t == fsm.seg.session
  <1>1. rx_table' = [rx_table EXCEPT ![t] = [rx_table[t] EXCEPT !.recvd = n]]
    BY DEF Received
  <1> HIDE DEF t
  <1>2. t \in Sessions /\ rx_table[t] \in Entries
    BY DEF t
  <1>3. /\ [rx_table[t] EXCEPT !.recvd = n] \in Entries
        /\ [rx_table[t] EXCEPT !.recvd = n].recvd = n /\ [rx_table[t] EXCEPT !.recvd = n].appd = rx_table[t].appd
    BY <1>2 DEF Entries
  <1> DEFINE e == [rx_table[t] EXCEPT !.recvd = n]
  <1> HIDE DEF e
  <1>4. rx_table' = [rx_table EXCEPT ![t] = e] /\ e \in Entries /\ e.recvd = n /\ e.appd = rx_table[t].appd
    BY <1>1, <1>3 DEF e
  <1> QED BY <1>2, <1>4 DEF t

LEMMA TakesIs ==
    ASSUME TypeOK, WindowInv, fsm # None, fsm.seg \in Sound, fsm.seg.session \in Sessions,
           fsm.seg.fault = "none", Takes \/ Finishes
    PROVE  /\ rx_table' \in [Sessions -> Entries] /\ \A s \in Sessions : rx_table'[s].appd = rx_table[s].appd
           /\ fsm.seg.seq = Taken(rx_table, fsm.seg.session)
           /\ \A s \in Sessions :
                 Taken(rx_table', s) = Taken(rx_table, s) + IF s = fsm.seg.session THEN fsm.seg.length ELSE 0
  <1> DEFINE seg == fsm.seg
             t == fsm.seg.session
  <1>1. /\ rx_table \in [Sessions -> Entries] /\ seg.seq = rx_table[t].recvd
        /\ seg.seq \in Nat /\ seg.length \in Nat /\ StreamLength \in Nat
        /\ seg.seq + seg.length <= StreamLength
        /\ (seg.kind = "ACK" /\ seg.length # 0) \/ seg.seq + seg.length = StreamLength
    <2>1. rx_table \in [Sessions -> Entries]
      BY DEF TypeOK, ReadTypes
    <2>2. seg.seq = fsm.sar.recvd /\ fsm.sar.recvd = rx_table[t].recvd
      BY DEF WindowInv, Takes, Finishes
    <2>3. seg.seq \in Nat /\ seg.length \in Nat /\ StreamLength \in Nat
      BY RxPathAssumption DEF Sound, Segments
    <2>4. \/ seg.kind = "ACK" /\ seg.length # 0
          \/ seg.kind = "FIN_ACK"
      BY DEF Takes, Finishes
    <2>5. seg.kind = "ACK" => seg.seq + seg.length <= StreamLength
      BY DEF Sound
    <2>6. seg.kind = "FIN_ACK" => seg.seq + seg.length = StreamLength
      BY DEF Sound
    <2> QED BY <2>1, <2>2, <2>3, <2>4, <2>5, <2>6
  <1>2. PICK n \in 0 .. StreamLength + 1 :
           /\ Received(n)
           /\ \/ n = seg.seq + seg.length
              \/ n = seg.seq + seg.length + 1 /\ seg.seq + seg.length = StreamLength
    <2>1. CASE seg.kind = "ACK"
      <3>1. Received(seg.seq + seg.length) /\ seg.seq + seg.length \in 0 .. StreamLength + 1
        BY <2>1, <1>1 DEF Takes, Finishes
      <3> QED BY <3>1
    <2>2. CASE seg.kind = "FIN_ACK"
      <3>1. /\ Received(seg.seq + seg.length + 1) /\ seg.seq + seg.length + 1 \in 0 .. StreamLength + 1
            /\ seg.seq + seg.length = StreamLength
        <4>1. seg.seq + seg.length = StreamLength
          BY <2>2 DEF Sound
        <4>2. Received(seg.seq + seg.length + 1)
          BY <2>2 DEF Takes, Finishes
        <4> QED BY <4>1, <4>2, <1>1
      <3> QED BY <3>1
    <2> QED BY <2>1, <2>2 DEF Takes, Finishes
  <1>3. /\ rx_table' \in [Sessions -> Entries]
        /\ \A s \in Sessions : rx_table'[s].appd = rx_table[s].appd
        /\ \A s \in Sessions : rx_table'[s].recvd = IF s = t THEN n ELSE rx_table[s].recvd
    BY <1>1, <1>2, ReceivedIs
  <1>4. seg.seq = Taken(rx_table, t)
    BY <1>1, TakenIs
  <1>5. ASSUME NEW s \in Sessions
        PROVE  Taken(rx_table', s) = Taken(rx_table, s) + IF s = t THEN seg.length ELSE 0
    <2>1. /\ Taken(rx_table', s) = IF rx_table'[s].recvd <= StreamLength THEN rx_table'[s].recvd ELSE StreamLength
          /\ Taken(rx_table, s) = IF rx_table[s].recvd <= StreamLength THEN rx_table[s].recvd ELSE StreamLength
          /\ Taken(rx_table, s) \in Nat
      BY <1>1, <1>3, TakenIs
    <2>2. CASE s = t
      <3>1. Taken(rx_table', s) = IF n <= StreamLength THEN n ELSE StreamLength
        BY <2>1, <2>2, <1>3
      <3>2. Taken(rx_table', s) = seg.seq + seg.length
        BY <3>1, <1>1, <1>2
      <3> QED BY <3>2, <2>2, <1>4
    <2>3. CASE s # t
      <3>1. rx_table'[s].recvd = rx_table[s].recvd
        BY <2>3, <1>3
      <3> QED BY <3>1, <2>1, <2>3
    <2> QED BY <2>2, <2>3
  <1> QED BY <1>3, <1>4, <1>5
-----------------------------------------------------------------------------
(* The line is kept by every step.                                         *)

(* What passes a stage, is loaded or dropped is not on the line.           *)
LEMMA LineKept ==
    ASSUME TypeOK, StagesInv, LineInv,
           UNCHANGED <<data, got, rx_table, notifications, reader, answers, requested>>,
           \/ \E seg \in Sound : rxEngGetMetaData(seg)
           \/ rxEngVerifyCheckSum \/ rxEngMetadataHandler \/ Load
           \/ rxEngPacketDropper /\ ~Forward
           \/ UNCHANGED <<payload, metaInfo, valid, FsmLine, verdicts, dropper>>
    PROVE  LineInv'
  <1>1. PICK taken \in SUBSET Int, rest \in Seq(Carrying), line \in Seq(Carrying) :
           /\ Judged(taken, rest) /\ line = data \o rest
           /\ \E pos \in [0 .. Len(line) -> [Sessions -> Nat]] : StreamInv(line, pos)
           /\ AskedInv(line)
    BY DEF LineInv
  <1>2. PICK pos \in [0 .. Len(line) -> [Sessions -> Nat]] : StreamInv(line, pos)
    BY <1>1
  <1>3. PICK taken2 \in SUBSET Int : Judged(taken2, rest)'
    BY <1>1, JudgedKept
  <1>4. StreamInv(line, pos)' /\ AskedInv(line)' /\ line = data' \o rest
    BY <1>1, <1>2 DEF StreamInv, AskedInv, Taken
  <1> QED BY <1>3, <1>4 DEF LineInv

(* A payload that is forwarded keeps its place.                            *)
LEMMA LineForwards ==
    ASSUME TypeOK, LineInv, rxEngPacketDropper, Forward
    PROVE  LineInv'
  <1>1. PICK taken \in SUBSET Int, rest \in Seq(Carrying), line \in Seq(Carrying) :
           /\ Judged(taken, rest) /\ line = data \o rest
           /\ \E pos \in [0 .. Len(line) -> [Sessions -> Nat]] : StreamInv(line, pos)
           /\ AskedInv(line)
    BY DEF LineInv
  <1>2. PICK pos \in [0 .. Len(line) -> [Sessions -> Nat]] : StreamInv(line, pos)
    BY <1>1
  <1>3. /\ UNCHANGED <<metaInfo, valid, fsmMeta, fsm, got, rx_table, notifications, reader, answers, requested>>
        /\ data' = Append(data, Head(payload)) /\ data \in Seq(Carrying)
    BY DEF rxEngPacketDropper, Forward, reading, TypeOK, SegmentTypes
  <1>4. /\ \E taken2 \in SUBSET Int : Judged(taken2, Tail(rest))'
        /\ rest # <<>> /\ Head(rest) = Head(payload)
    BY <1>1, <1>3, JudgedForwards
  <1>5. data' \o Tail(rest) = line /\ Tail(rest) \in Seq(Carrying)
    BY <1>1, <1>3, <1>4, ConcatFacts, TailFacts
  <1>6. StreamInv(line, pos)' /\ AskedInv(line)'
    BY <1>1, <1>2, <1>3 DEF StreamInv, AskedInv, Taken
  <1> QED BY <1>4, <1>5, <1>6 DEF LineInv

(* The FSM puts a segment at the end of the line.                          *)
LEMMA LineTakes ==
    ASSUME TypeOK, StagesInv, LineInv, WindowInv, Transition
    PROVE  LineInv'
  <1>1. PICK taken \in SUBSET Int, rest \in Seq(Carrying), line \in Seq(Carrying) :
           /\ Judged(taken, rest) /\ line = data \o rest
           /\ \E pos \in [0 .. Len(line) -> [Sessions -> Nat]] : StreamInv(line, pos)
           /\ AskedInv(line)
    BY DEF LineInv
  <1>2. PICK pos \in [0 .. Len(line) -> [Sessions -> Nat]] : StreamInv(line, pos)
    BY <1>1
  <1>3. /\ fsm # None /\ fsm.seg \in Sound /\ fsm.seg.session \in Sessions /\ fsm' = None /\ fsm.seg.fault = "none"
        /\ UNCHANGED <<payload, metaInfo, valid, dropper, data, fsmMeta, reader, answers, requested, got>>
        /\ Takes \/ Finishes \/ Leaves
        /\ data \in Seq(Carrying) /\ notifications \in Seq(Notes) /\ answers \in Seq(Sessions)
    BY TransitionCases DEF StagesInv, TypeOK, SegmentTypes, ReadTypes
  <1>4. PICK seg \in Sound : seg = fsm.seg
    BY <1>3
  <1>5. CASE Takes
    <2>1. seg.length # 0 /\ Judge("fsm", fsm.seg, FALSE) /\ seg \in Carrying
      BY <1>4, <1>5 DEF Takes, Carrying
    <2>2. PICK note \in Notes : Wish(note) = Wish(seg) /\ notifications' = Append(notifications, note)
      BY <1>4, <1>5 DEF Takes
    <2>3. PICK longer : longer = Append(rest, seg)
      OBVIOUS
    <2>4. PICK onward : onward = Append(line, seg)
      OBVIOUS
    <2>5. longer \in Seq(Carrying) /\ onward \in Seq(Carrying)
      BY <2>1, <2>3, <2>4, AppendFacts
    <2>6. \E taken2 \in SUBSET Int : Judged(taken2, longer)'
      <3>1. Judged(taken, rest) /\ FALSE \in BOOLEAN /\ taken \in SUBSET Int /\ rest \in Seq(Carrying)
        BY <1>1
      <3>2. /\ fsm.seg.length = 0 \/ FALSE => longer = rest
            /\ fsm.seg.length # 0 /\ ~FALSE => longer = Append(rest, fsm.seg)
        BY <2>1, <2>3, <1>4
      <3>3. UNCHANGED <<payload, metaInfo, valid, fsmMeta, dropper>> /\ fsm # None /\ fsm' = None
        BY <1>3
      <3> QED BY <2>1, <3>1, <3>2, <3>3, JudgedTransition
    <2>7. /\ seg.seq = Taken(rx_table, seg.session) /\ seg.session \in Sessions
          /\ \A s \in Sessions :
                Taken(rx_table', s) = Taken(rx_table, s) + IF s = seg.session THEN seg.length ELSE 0
      BY <1>3, <1>4, <1>5, TakesIs
    <2>8. \E pos2 \in [0 .. Len(onward) -> [Sessions -> Nat]] : StreamInv(onward, pos2)'
      <3>1. UNCHANGED <<got, answers, requested>> /\ answers \in Seq(Sessions)
        BY <1>3
      <3>2. \E pos2 \in [0 .. Len(Append(line, seg)) -> [Sessions -> Nat]] : StreamInv(Append(line, seg), pos2)'
        BY <2>1, <2>7, <3>1, <1>2, StreamExtends
      <3> QED BY <3>2, <2>4
    <2>9. AskedInv(onward)'
      <3>1. Len(answers) <= Len(line)
        BY <1>2 DEF StreamInv
      <3>2. UNCHANGED <<reader, answers>> /\ answers \in Seq(Sessions) /\ notifications \in Seq(Notes)
        BY <1>3
      <3>3. AskedInv(line) /\ line \in Seq(Carrying)
        BY <1>1
      <3>4. AskedInv(Append(line, seg))'
        BY <2>1, <2>2, <2>7, <3>1, <3>2, <3>3, AskedExtends
      <3> QED BY <3>4, <2>4
    <2>10. onward = data' \o longer
      BY <2>1, <2>3, <2>4, <1>1, <1>3, ConcatFacts
    <2> QED BY <2>5, <2>6, <2>8, <2>9, <2>10 DEF LineInv
  <1>6. CASE Finishes \/ Leaves
    <2>1. PICK drop \in BOOLEAN : Judge("fsm", fsm.seg, drop) /\ (fsm.seg.length = 0 \/ drop)
      BY <1>6 DEF Finishes, Leaves
    <2>2. \E taken2 \in SUBSET Int : Judged(taken2, rest)'
      BY <2>1, <1>1, <1>3, JudgedTransition
    <2>3. \A s \in Sessions : Taken(rx_table', s) = Taken(rx_table, s)
      <3>1. CASE Finishes
        <4>1. \A s \in Sessions : Taken(rx_table', s) = Taken(rx_table, s) + IF s = fsm.seg.session THEN fsm.seg.length ELSE 0
          BY <3>1, <1>3, TakesIs
        <4>2. fsm.seg.length = 0 /\ \A s \in Sessions : Taken(rx_table, s) \in Nat
          BY <3>1, TakenIs DEF Finishes, TypeOK, ReadTypes
        <4> QED BY <4>1, <4>2
      <3>2. CASE Leaves
        BY <3>2 DEF Leaves
      <3> QED BY <3>1, <3>2, <1>6
    <2>4. StreamInv(line, pos)'
      BY <2>3, <1>2, <1>3 DEF StreamInv
    <2>5. Quiet
      BY <1>6 DEF Finishes, Leaves
    <2>6. AskedInv(line)'
      BY <2>5, <1>1, <1>3, AskedOther DEF Quiet
    <2>7. line = data' \o rest
      BY <1>1, <1>3
    <2> QED BY <2>2, <2>4, <2>6, <2>7 DEF LineInv
  <1> QED BY <1>3, <1>5, <1>6

(* The application asks for what it was told of.                           *)
LEMMA LineAsked ==
    ASSUME TypeOK, StagesInv, LineInv, AskPointer
    PROVE  LineInv'
  <1>1. PICK taken \in SUBSET Int, rest \in Seq(Carrying), line \in Seq(Carrying) :
           /\ Judged(taken, rest) /\ line = data \o rest
           /\ \E pos \in [0 .. Len(line) -> [Sessions -> Nat]] : StreamInv(line, pos)
           /\ AskedInv(line)
    BY DEF LineInv
  <1>2. PICK pos \in [0 .. Len(line) -> [Sessions -> Nat]] : StreamInv(line, pos)
    BY <1>1
  <1> DEFINE r == Head(notifications)
  <1>3. /\ reader = None /\ notifications # <<>> /\ notifications' = Tail(notifications)
        /\ UNCHANGED <<payload, metaInfo, valid, verdicts, dropper, data, fsmMeta, fsm, rx_table, answers, requested, got>>
        /\ notifications \in Seq(Notes) /\ answers \in Seq(Sessions) /\ rx_table \in [Sessions -> Entries]
        /\ r.length = 0 => reader' = None
        /\ r.length # 0 => reader' = [session |-> r.session, length |-> r.length, appd |-> rx_table[r.session].appd]
    BY DEF AskPointer, judging, TypeOK, ReadTypes
  <1>4. ASSUME r.length # 0 PROVE reader' # None /\ Wish(reader') = Wish(r)
    <2>1. r \in Notes
      BY <1>3, TailFacts
    <2>2. reader' \in Readers
      BY <2>1, <1>3, <1>4 DEF Notes, Readers, Entries
    <2>3. Wish(reader') = Wish(r)
      BY <1>3, <1>4 DEF Wish
    <2> QED BY <2>2, <2>3, NoEntryAssumption
  <1>5. AskedInv(line)'
    BY <1>1, <1>3, <1>4, AskedNext
  <1>6. UNCHANGED <<payload, metaInfo, valid, FsmLine, verdicts, dropper>>
    BY <1>3 DEF FsmLine
  <1>7. \E taken2 \in SUBSET Int : Judged(taken2, rest)'
    BY <1>1, <1>6, JudgedKept
  <1>8. StreamInv(line, pos)' /\ line = data' \o rest
    BY <1>1, <1>2, <1>3 DEF StreamInv, Taken
  <1> QED BY <1>5, <1>7, <1>8 DEF LineInv

LEMMA LineMoves ==
    ASSUME TypeOK, StagesInv, LineInv, MovePointer
    PROVE  LineInv'
  <1>1. PICK taken \in SUBSET Int, rest \in Seq(Carrying), line \in Seq(Carrying) :
           /\ Judged(taken, rest) /\ line = data \o rest
           /\ \E pos \in [0 .. Len(line) -> [Sessions -> Nat]] : StreamInv(line, pos)
           /\ AskedInv(line)
    BY DEF LineInv
  <1>2. PICK pos \in [0 .. Len(line) -> [Sessions -> Nat]] : StreamInv(line, pos)
    BY <1>1
  <1>3. /\ reader # None /\ reader \in Readers /\ reader' = None
        /\ answers' = Append(answers, reader.session)
        /\ rx_table' = [rx_table EXCEPT ![reader.session].appd = (reader.appd + reader.length) % Window]
        /\ requested' = [requested EXCEPT ![reader.session] = @ + reader.length]
        /\ UNCHANGED <<payload, metaInfo, valid, verdicts, dropper, data, fsmMeta, fsm, notifications, got>>
        /\ answers \in Seq(Sessions) /\ rx_table \in [Sessions -> Entries]
    BY DEF MovePointer, judging, TypeOK, ReadTypes
  <1>4. PICK k \in Nat : k = Len(answers) + 1
    BY <1>3, LenProperties
  <1>5. Len(answers) < Len(line) /\ line[k].session = reader.session /\ line[k].length = reader.length
    <2>1. Len(answers) < Len(line) /\ Wish(line[k]) = Wish(reader)
      BY <1>1, <1>3, <1>4 DEF AskedInv
    <2>2. Wish(line[k]).session = Wish(reader).session /\ Wish(line[k]).length = Wish(reader).length
      BY <2>1
    <2> QED BY <2>1, <2>2 DEF Wish
  <1>6. \A s \in Sessions : Taken(rx_table', s) = Taken(rx_table, s)
    <2>1. \A s \in Sessions : rx_table'[s].recvd = rx_table[s].recvd
      BY <1>3 DEF Entries
    <2> QED BY <2>1 DEF Taken
  <1>7. StreamInv(line, pos)'
    BY <1>2, <1>3, <1>4, <1>5, <1>6, StreamAsked
  <1>8. AskedInv(line)'
    <2>1. reader.session \in Sessions /\ Len(answers) \in Nat
      BY <1>3, LenProperties DEF Readers
    <2>2. Len(answers') = Len(answers) + 1
      BY <2>1, <1>3, AppendFacts
    <2> QED BY <2>1, <2>2, <1>1, <1>3, AskedMoves
  <1>9. UNCHANGED <<payload, metaInfo, valid, FsmLine, verdicts, dropper>>
    BY <1>3 DEF FsmLine
  <1>10. \E taken2 \in SUBSET Int : Judged(taken2, rest)'
    BY <1>1, <1>9, JudgedKept
  <1>11. line = data' \o rest
    BY <1>1, <1>3
  <1> QED BY <1>7, <1>8, <1>10, <1>11 DEF LineInv

(* The application reads the first of the line for its oldest request: it  *)
(* is what that request was about and goes on where the stream stopped.    *)
LEMMA BytesFacts ==
    ASSUME NEW seg \in Carrying, seg.session \in Sessions, NEW read \in Seq(Sessions \X Nat)
    PROVE  /\ read \o Bytes(seg) \in Seq(Sessions \X Nat)
           /\ Len(read) \in Nat /\ Len(read \o Bytes(seg)) = Len(read) + seg.length
           /\ \A k \in 1 .. Len(read) : (read \o Bytes(seg))[k] = read[k]
           /\ \A k \in 1 .. Len(read) + seg.length :
                 k > Len(read) => (read \o Bytes(seg))[k] = <<seg.session, seg.seq + (k - Len(read)) - 1>>
  <1>1. seg.length \in Nat /\ seg.seq \in Nat /\ seg.session \in Sessions
    BY DEF Carrying, Sound, Segments
  <1>2. PICK n \in Nat, q \in Nat, s \in Sessions : n = seg.length /\ q = seg.seq /\ s = seg.session
    BY <1>1
  <1> DEFINE b == [k \in 1 .. n |-> <<s, q + k - 1>>]
  <1>3. Bytes(seg) = b /\ \A k \in 1 .. n : b[k] = <<s, q + k - 1>>
    BY <1>2 DEF Bytes
  <1>4. b \in [1 .. n -> Sessions \X Nat]
    <2>1. \A k \in 1 .. n : q + k - 1 \in Nat
      BY <1>2
    <2> QED BY <2>1
  <1> HIDE DEF b
  <1>5. b \in Seq(Sessions \X Nat) /\ Len(b) = n /\ Len(read) \in Nat
    <2>1. b \in Seq(Sessions \X Nat)
      BY <1>4, SeqDef
    <2> QED BY <2>1, <1>4, LenProperties
  <1>6. /\ read \o b \in Seq(Sessions \X Nat) /\ Len(read \o b) = Len(read) + n
        /\ \A k \in 1 .. Len(read) + n : (read \o b)[k] = IF k <= Len(read) THEN read[k] ELSE b[k - Len(read)]
    <2>1. \A k \in 1 .. Len(read) + Len(b) : (read \o b)[k] = IF k <= Len(read) THEN read[k] ELSE b[k - Len(read)]
      BY <1>5, ConcatProperties
    <2> QED BY <2>1, <1>5, ConcatProperties
  <1>7. ASSUME NEW k \in 1 .. Len(read) + n, k > Len(read)
        PROVE  (read \o b)[k] = <<s, q + (k - Len(read)) - 1>>
    <2>1. k - Len(read) \in 1 .. n /\ ~(k <= Len(read))
      BY <1>5, <1>7
    <2> QED BY <2>1, <1>3, <1>6
  <1>8. \A k \in 1 .. Len(read) : (read \o b)[k] = read[k]
    BY <1>5, <1>6
  <1> QED BY <1>2, <1>3, <1>5, <1>6, <1>7, <1>8

LEMMA LineReads ==
    ASSUME TypeOK, StagesInv, LineInv, DeliveredIsStream, AppTakes
    PROVE  LineInv' /\ DeliveredIsStream' /\ got' \in [Sessions -> Seq(Sessions \X Nat)]
  <1>1. PICK taken \in SUBSET Int, rest \in Seq(Carrying), line \in Seq(Carrying) :
           /\ Judged(taken, rest) /\ line = data \o rest
           /\ \E pos \in [0 .. Len(line) -> [Sessions -> Nat]] : StreamInv(line, pos)
           /\ AskedInv(line)
    BY DEF LineInv
  <1>2. PICK pos \in [0 .. Len(line) -> [Sessions -> Nat]] : StreamInv(line, pos)
    BY <1>1
  <1>3. /\ answers # <<>> /\ data # <<>> /\ answers' = Tail(answers) /\ data' = Tail(data)
        /\ got' = [got EXCEPT ![Head(answers)] = @ \o Bytes(Head(data))]
        /\ UNCHANGED <<payload, metaInfo, valid, verdicts, dropper, fsmMeta, fsm, rx_table, notifications,
                       reader, requested>>
        /\ answers \in Seq(Sessions) /\ data \in Seq(Carrying) /\ got \in [Sessions -> Seq(Sessions \X Nat)]
    BY DEF AppTakes, TypeOK, SegmentTypes, ReadTypes
  <1>4. Head(line) = Head(data) /\ Tail(line) = data' \o rest
    BY <1>1, <1>3, ConcatTail
  <1>5. line # <<>> /\ 1 \in 1 .. Len(line) /\ 1 \in 1 .. Len(answers) /\ Head(answers) = answers[1]
    <2>1. Len(data) \in Nat \ {0} /\ Len(rest) \in Nat /\ Len(line) = Len(data) + Len(rest)
      BY <1>1, <1>3, TailFacts, ConcatFacts, LenProperties
    <2>2. Len(line) \in Nat \ {0}
      BY <2>1
    <2>3. line # <<>>
      BY <2>2, EmptySeq
    <2>4. Len(answers) \in Nat \ {0} /\ Head(answers) = answers[1]
      BY <1>3, TailFacts
    <2> QED BY <2>2, <2>3, <2>4
  <1>6. PICK seg \in Carrying, s \in Sessions :
           seg = line[1] /\ seg = Head(data) /\ s = seg.session /\ s = Head(answers)
    <2>1. line[1] \in Carrying /\ Head(line) = line[1]
      BY <1>5, TailFacts
    <2>2. answers[1] = line[1].session /\ line[1].session \in Sessions
      BY <1>2, <1>5 DEF StreamInv
    <2> QED BY <2>1, <2>2, <1>4, <1>5
  <1>7. seg.seq = Len(got[s])
    <2>1. seg.seq = pos[0][s]
      <3>1. \A k \in 1 .. Len(line) : line[k].seq = pos[k - 1][line[k].session]
        BY <1>2 DEF StreamInv
      <3>2. line[1].seq = pos[1 - 1][line[1].session] /\ 1 - 1 = 0
        BY <3>1, <1>5
      <3> QED BY <3>2, <1>6
    <2>2. pos[0][s] = Len(got[s])
      BY <1>2 DEF StreamInv
    <2> QED BY <2>1, <2>2
  <1> DEFINE longer == got[s] \o Bytes(seg)
  <1>8. /\ longer \in Seq(Sessions \X Nat) /\ Len(got[s]) \in Nat
        /\ Len(longer) = Len(got[s]) + seg.length
        /\ \A k \in 1 .. Len(got[s]) : longer[k] = got[s][k]
        /\ \A k \in 1 .. Len(got[s]) + seg.length :
              k > Len(got[s]) => longer[k] = <<s, seg.seq + (k - Len(got[s])) - 1>>
    <2>1. PICK read \in Seq(Sessions \X Nat) : read = got[s]
      BY <1>3
    <2>2. seg.session \in Sessions
      BY <1>6
    <2>3. /\ read \o Bytes(seg) \in Seq(Sessions \X Nat)
          /\ Len(read) \in Nat /\ Len(read \o Bytes(seg)) = Len(read) + seg.length
          /\ \A k \in 1 .. Len(read) : (read \o Bytes(seg))[k] = read[k]
          /\ \A k \in 1 .. Len(read) + seg.length :
                k > Len(read) => (read \o Bytes(seg))[k] = <<seg.session, seg.seq + (k - Len(read)) - 1>>
      BY <2>2, BytesFacts
    <2> QED BY <2>1, <2>3, <1>6
  <1>9. got' = [got EXCEPT ![s] = longer]
    BY <1>3, <1>6
  <1>10. \A k \in 1 .. Len(longer) : longer[k] = <<s, k - 1>>
    <2> SUFFICES ASSUME NEW k \in 1 .. Len(longer) PROVE longer[k] = <<s, k - 1>>
      OBVIOUS
    <2>1. PICK n \in Nat : n = Len(got[s])
      BY <1>8
    <2>2. seg.length \in Nat
      BY DEF Carrying, Sound, Segments
    <2>3. k \in 1 .. n + seg.length /\ seg.seq = n
      BY <2>1, <1>7, <1>8
    <2>4. CASE k <= n
      <3>1. k \in 1 .. n
        BY <2>2, <2>3, <2>4
      <3>2. longer[k] = got[s][k]
        BY <3>1, <2>1, <1>8
      <3> QED BY <3>1, <3>2, <2>1 DEF DeliveredIsStream
    <2>5. CASE ~(k <= n)
      <3>1. longer[k] = <<s, n + (k - n) - 1>>
        <4>1. k > n
          BY <2>2, <2>3, <2>5
        <4> QED BY <4>1, <2>1, <2>3, <1>8
      <3>2. n + (k - n) - 1 = k - 1
        BY <2>2, <2>3
      <3> QED BY <3>1, <3>2
    <2> QED BY <2>4, <2>5
  <1> HIDE DEF longer
  <1>11. DeliveredIsStream'
    BY <1>3, <1>9, <1>10 DEF DeliveredIsStream
  <1>12. got' \in [Sessions -> Seq(Sessions \X Nat)]
    BY <1>3, <1>8, <1>9
  <1>13. PICK onward : onward = Tail(line)
    OBVIOUS
  <1>14. onward \in Seq(Carrying) /\ onward = data' \o rest
    BY <1>4, <1>5, <1>13, TailFacts
  <1>15. \E pos2 \in [0 .. Len(onward) -> [Sessions -> Nat]] : StreamInv(onward, pos2)'
    <2>1. \A u \in Sessions : Len(got'[u]) = Len(got[u]) + IF u = line[1].session THEN line[1].length ELSE 0
      <3> SUFFICES ASSUME NEW u \in Sessions
                   PROVE  Len(got'[u]) = Len(got[u]) + IF u = line[1].session THEN line[1].length ELSE 0
        OBVIOUS
      <3>1. CASE u = s
        BY <3>1, <1>3, <1>6, <1>8, <1>9
      <3>2. CASE u # s
        <4>1. got'[u] = got[u] /\ Len(got[u]) \in Nat
          BY <3>2, <1>3, <1>9, LenProperties
        <4> QED BY <4>1, <3>2, <1>6
      <3> QED BY <3>1, <3>2
    <2>2. \E pos2 \in [0 .. Len(Tail(line)) -> [Sessions -> Nat]] : StreamInv(Tail(line), pos2)'
      BY <2>1, <1>2, <1>3, <1>5, StreamShrinks
    <2> QED BY <2>2, <1>13
  <1>16. AskedInv(onward)'
    <2>1. AskedInv(Tail(line))'
      BY <1>1, <1>3, <1>5, AskedShrinks
    <2> QED BY <2>1, <1>13
  <1>17. \E taken2 \in SUBSET Int : Judged(taken2, rest)'
    <2>1. UNCHANGED <<payload, metaInfo, valid, FsmLine, verdicts, dropper>>
      BY <1>3 DEF FsmLine
    <2> QED BY <2>1, <1>1, JudgedKept
  <1>18. LineInv'
    BY <1>14, <1>15, <1>16, <1>17 DEF LineInv
  <1> QED BY <1>11, <1>12, <1>18
-----------------------------------------------------------------------------
(* The window.                                                             *)

(* The difference of two counters that are kept modulo W.                  *)
LEMMA FreeIs ==
    ASSUME NEW W \in Nat \ {0}, NEW old \in Int, NEW recvd \in Int, old <= recvd, recvd - old < W
    PROVE  ((old % W) - recvd - 1) % W = W - 1 - (recvd - old)
  <1>1. PICK b \in Int : b = 0 - recvd - 1
    OBVIOUS
  <1>2. old % W \in Int
    BY ModFacts
  <1>3. ((old % W) + b) % W = (old + b) % W
    BY ModPlus
  <1>4. PICK r \in 0 .. W - 1 : r = W - 1 - (recvd - old)
    OBVIOUS
  <1>5. (old + b) % W = r
    <2>1. old + b = W * (-1) + r /\ old + b \in Int /\ -1 \in Int
      BY <1>1, <1>4
    <2> QED BY <2>1, ModIs
  <1>6. (old % W) - recvd - 1 = (old % W) + b
    BY <1>1, <1>2
  <1> QED BY <1>3, <1>4, <1>5, <1>6

LEMMA WindowKept ==
    ASSUME WindowInv, UNCHANGED <<rx_table, requested, reader, fsm>>
    PROVE  WindowInv'
  BY DEF WindowInv, UnreadFits, Taken

LEMMA WindowTypes ==
    ASSUME TypeOK
    PROVE  /\ Window \in Nat \ {0} /\ StreamLength \in Nat
           /\ \A s \in Sessions : /\ Taken(rx_table, s) \in Nat /\ requested[s] \in Nat
                                  /\ Taken(rx_table, s) <= StreamLength
                                  /\ rx_table[s] \in Entries /\ rx_table[s].appd \in 0 .. Window - 1
  <1>1. rx_table \in [Sessions -> Entries] /\ requested \in [Sessions -> Nat]
    BY DEF TypeOK, ReadTypes
  <1>2. \A e \in Entries : e.appd \in 0 .. Window - 1
    BY DEF Entries
  <1> QED BY <1>1, <1>2, TakenIs, RxPathAssumption

LEMMA WindowLoads ==
    ASSUME TypeOK, StagesInv, WindowInv, Load
    PROVE  WindowInv'
  <1>1. /\ UNCHANGED <<rx_table, requested, reader>>
        /\ fsm'.seg.session \in Sessions /\ fsm'.sar = rx_table[fsm'.seg.session]
    BY LoadKeepsLine DEF Load, reading
  <1>2. PICK t \in Sessions : t = fsm'.seg.session
    BY <1>1
  <1>3. PICK old \in Nat : old = requested[t]
    BY WindowTypes
  <1>4. old \in 0 .. requested[t] /\ rx_table[t].appd = old % Window /\ Taken(rx_table, t) - old < Window
    BY <1>3 DEF WindowInv, UnreadFits, Taken
  <1>5. fsm'.sar.recvd = rx_table'[fsm'.seg.session].recvd
    BY <1>1
  <1>6. \E o \in 0 .. requested'[fsm'.seg.session] :
           fsm'.sar.appd = o % Window /\ Taken(rx_table', fsm'.seg.session) - o < Window
    BY <1>1, <1>2, <1>4
  <1>7. UnreadFits'
    BY <1>1 DEF WindowInv, UnreadFits
  <1>8. /\ \A s \in Sessions : rx_table'[s].appd = requested'[s] % Window
        /\ reader' # None => reader'.appd = rx_table'[reader'.session].appd
    BY <1>1 DEF WindowInv
  <1> QED BY <1>5, <1>6, <1>7, <1>8 DEF WindowInv

LEMMA WindowTakes ==
    ASSUME TypeOK, StagesInv, LineInv, WindowInv, Transition
    PROVE  WindowInv'
  <1>1. /\ fsm # None /\ fsm.seg \in Sound /\ fsm.seg.session \in Sessions /\ fsm' = None /\ fsm.seg.fault = "none"
        /\ UNCHANGED <<reader, requested>>
        /\ Takes \/ Finishes \/ Leaves
    BY TransitionCases DEF StagesInv
  <1>2. PICK seg \in Sound, t \in Sessions : seg = fsm.seg /\ t = fsm.seg.session
    BY <1>1
  <1>3. CASE Leaves
    <2>1. rx_table' = rx_table
      BY <1>3 DEF Leaves
    <2> QED BY <2>1, <1>1 DEF WindowInv, UnreadFits
  <1>4. CASE Takes \/ Finishes
    <2>1. /\ \A s \in Sessions : rx_table'[s].appd = rx_table[s].appd
          /\ seg.seq = Taken(rx_table, t)
          /\ \A s \in Sessions :
                Taken(rx_table', s) = Taken(rx_table, s) + IF s = t THEN seg.length ELSE 0
      BY <1>1, <1>2, <1>4, TakesIs
    <2>2. PICK had \in Nat, req \in Nat, n \in Nat :
             had = Taken(rx_table, t) /\ req = requested[t] /\ n = seg.length
      BY WindowTypes DEF Sound, Segments
    <2>3. had + n - req < Window
      <3>1. CASE fsm.seg.kind = "FIN_ACK"
        <4>1. seg.seq + seg.length = StreamLength
          BY <3>1, <1>2 DEF Sound
        <4>2. StreamLength <= req + Window - 1
          BY <3>1, <1>1, <1>2, <2>2 DEF StagesInv, FinFits, AdvertisedEdge
        <4> QED BY <4>1, <4>2, <2>1, <2>2, WindowTypes
      <3>2. CASE ~(fsm.seg.kind = "FIN_ACK")
        <4>1. FreeSpace(fsm.sar) > n
          BY <3>2, <1>2, <1>4, <2>2 DEF Takes, Finishes
        <4>2. fsm.sar.recvd = had
          BY <1>2, <1>4, <2>1, <2>2 DEF Takes, Finishes
        <4>3. PICK old \in 0 .. req : fsm.sar.appd = old % Window /\ had - old < Window
          BY <1>1, <1>2, <2>2 DEF WindowInv
        <4>4. req <= had
          <5>1. PICK line \in Seq(Carrying) :
                   \E pos \in [0 .. Len(line) -> [Sessions -> Nat]] : StreamInv(line, pos)
            BY DEF LineInv
          <5>2. answers \in Seq(Sessions)
            BY DEF TypeOK, ReadTypes
          <5> QED BY <5>1, <5>2, <2>2, AskedIsTaken
        <4>5. old \in Int /\ had \in Int /\ old <= req /\ old <= had
          BY <4>4
        <4>6. ((old % Window) - had - 1) % Window = Window - 1 - (had - old)
          BY <4>3, <4>5, FreeIs, WindowTypes
        <4>7. Window - 1 - (had - old) > n
          BY <4>1, <4>2, <4>3, <4>6 DEF FreeSpace
        <4> QED BY <4>5, <4>7, WindowTypes
      <3> QED BY <3>1, <3>2
    <2>4. ASSUME NEW s \in Sessions PROVE Taken(rx_table', s) - requested[s] < Window
      <3>1. CASE s = t
        BY <3>1, <2>1, <2>2, <2>3
      <3>2. CASE s # t
        <4>1. Taken(rx_table', s) = Taken(rx_table, s)
          BY <3>2, <2>1, WindowTypes
        <4> QED BY <4>1 DEF WindowInv, UnreadFits, Taken
      <3> QED BY <3>1, <3>2
    <2>5. UnreadFits'
      BY <2>4, <1>1 DEF UnreadFits, Taken
    <2>6. \A s \in Sessions : rx_table'[s].appd = requested'[s] % Window
      BY <2>1, <1>1 DEF WindowInv
    <2>7. reader' # None => reader'.appd = rx_table'[reader'.session].appd
      <3> SUFFICES ASSUME reader # None PROVE reader.appd = rx_table'[reader.session].appd
        BY <1>1
      <3>1. reader.session \in Sessions
        BY DEF TypeOK, ReadTypes, Readers
      <3> QED BY <3>1, <2>1 DEF WindowInv
    <2> QED BY <2>5, <2>6, <2>7, <1>1 DEF WindowInv
  <1> QED BY <1>1, <1>3, <1>4

LEMMA WindowAsks ==
    ASSUME TypeOK, WindowInv, AskPointer
    PROVE  WindowInv'
  <1>1. /\ UNCHANGED <<rx_table, requested, fsm>>
        /\ \/ reader' = None
           \/ reader' = [session |-> Head(notifications).session, length |-> Head(notifications).length,
                         appd |-> rx_table[Head(notifications).session].appd]
    BY DEF AskPointer
  <1>2. reader' # None => reader'.appd = rx_table'[reader'.session].appd
    BY <1>1
  <1> QED BY <1>1, <1>2 DEF WindowInv, UnreadFits, Taken

(* The table after appd is written, and what is asked for.                 *)
LEMMA MovesIs ==
    ASSUME TypeOK, WindowInv, MovePointer
    PROVE  /\ rx_table' \in [Sessions -> Entries] /\ requested' \in [Sessions -> Nat]
           /\ reader.session \in Sessions /\ reader.length \in Nat
           /\ \A s \in Sessions : rx_table'[s].recvd = rx_table[s].recvd
           /\ \A s \in Sessions : rx_table'[s].appd = requested'[s] % Window
           /\ \A s \in Sessions : requested[s] <= requested'[s]
  <1>1. /\ reader \in Readers /\ reader # None
        /\ rx_table' = [rx_table EXCEPT ![reader.session].appd = (reader.appd + reader.length) % Window]
        /\ requested' = [requested EXCEPT ![reader.session] = @ + reader.length]
        /\ rx_table \in [Sessions -> Entries] /\ requested \in [Sessions -> Nat]
    BY DEF MovePointer, TypeOK, ReadTypes
  <1>2. PICK t \in Sessions, n \in Nat, a \in 0 .. Window - 1 :
           t = reader.session /\ n = reader.length /\ a = reader.appd
    BY <1>1 DEF Readers
  <1>3. PICK next \in 0 .. Window - 1 : next = (a + n) % Window
    BY ModFacts, WindowTypes
  <1>4. next = (requested[t] + n) % Window
    <2>1. PICK req \in Nat : req = requested[t]
      BY <1>1
    <2>2. a = req % Window
      BY <2>1, <1>1, <1>2 DEF WindowInv
    <2>3. ((req % Window) + n) % Window = (req + n) % Window
      BY ModPlus, WindowTypes
    <2> QED BY <2>1, <2>2, <2>3, <1>3
  <1>5. PICK e \in Entries : e = [rx_table[t] EXCEPT !.appd = next] /\ e.appd = next /\ e.recvd = rx_table[t].recvd
    <2>1. rx_table[t] \in Entries
      BY <1>1
    <2>2. PICK old \in Entries : old = rx_table[t]
      BY <2>1
    <2>3. /\ [old EXCEPT !.appd = next] \in Entries /\ [old EXCEPT !.appd = next].appd = next
          /\ [old EXCEPT !.appd = next].recvd = old.recvd
      BY DEF Entries
    <2> QED BY <2>2, <2>3
  <1>6. rx_table' = [rx_table EXCEPT ![t] = e] /\ requested' = [requested EXCEPT ![t] = requested[t] + n]
    BY <1>1, <1>2, <1>3, <1>5
  <1>7. rx_table' \in [Sessions -> Entries] /\ requested' \in [Sessions -> Nat]
    <2>1. PICK m \in Nat : m = requested[t] + n
      BY <1>1
    <2> QED BY <2>1, <1>1, <1>6
  <1>8. ASSUME NEW s \in Sessions
        PROVE  /\ rx_table'[s].recvd = rx_table[s].recvd /\ rx_table'[s].appd = requested'[s] % Window
               /\ requested[s] <= requested'[s]
    <2>1. CASE s = t
      <3>1. rx_table'[s] = e /\ requested'[s] = requested[t] + n /\ requested[t] \in Nat
        BY <2>1, <1>1, <1>6
      <3>2. requested[s] <= requested'[s]
        BY <3>1, <2>1
      <3> QED BY <3>1, <3>2, <2>1, <1>4, <1>5
    <2>2. CASE s # t
      <3>1. rx_table'[s] = rx_table[s] /\ requested'[s] = requested[s] /\ requested[s] \in Nat
        BY <2>2, <1>1, <1>6
      <3> QED BY <3>1 DEF WindowInv
    <2> QED BY <2>1, <2>2
  <1> QED BY <1>2, <1>7, <1>8

LEMMA WindowMoves ==
    ASSUME TypeOK, StagesInv, WindowInv, MovePointer
    PROVE  WindowInv'
  <1>1. reader' = None /\ fsm' = fsm
    BY DEF MovePointer
  <1>2. ASSUME NEW s \in Sessions
        PROVE  /\ Taken(rx_table', s) = Taken(rx_table, s) /\ Taken(rx_table, s) \in Nat
               /\ requested[s] \in Nat /\ requested'[s] \in Nat /\ requested[s] <= requested'[s]
    BY MovesIs, WindowTypes DEF Taken
  <1>3. UnreadFits'
    <2>1. \A s \in Sessions : Taken(rx_table, s) - requested[s] < Window
      BY DEF WindowInv, UnreadFits, Taken
    <2>2. \A s \in Sessions : Taken(rx_table', s) - requested'[s] < Window
      BY <2>1, <1>2, WindowTypes
    <2> QED BY <2>2 DEF UnreadFits, Taken
  <1>4. ASSUME fsm # None
        PROVE  /\ fsm.sar.recvd = rx_table'[fsm.seg.session].recvd
               /\ \E old \in 0 .. requested'[fsm.seg.session] :
                     fsm.sar.appd = old % Window /\ Taken(rx_table', fsm.seg.session) - old < Window
    <2>1. PICK t \in Sessions : t = fsm.seg.session
      BY <1>4 DEF TypeOK, SegmentTypes, StagesInv, Sound
    <2>2. /\ fsm.sar.recvd = rx_table[t].recvd
          /\ \E old \in 0 .. requested[t] : fsm.sar.appd = old % Window /\ Taken(rx_table, t) - old < Window
      BY <2>1, <1>4 DEF WindowInv
    <2>3. PICK old \in 0 .. requested[t] : fsm.sar.appd = old % Window /\ Taken(rx_table, t) - old < Window
      BY <2>2
    <2>4. old \in 0 .. requested'[t]
      BY <2>3, <1>2
    <2>5. Taken(rx_table', t) - old < Window
      BY <2>3, <1>2
    <2> QED BY <2>1, <2>2, <2>3, <2>4, <2>5, MovesIs
  <1> QED BY <1>1, <1>3, <1>4, MovesIs DEF WindowInv
-----------------------------------------------------------------------------
(* The FIFOs of the stages hold segments that got that far.                *)
Fitting == {seg \in Sound : FinFits(seg)}
Passed  == {seg \in Fitting : seg.fault # "checksum"}
Handled == {seg \in Fitting : seg.fault = "none"}
Staged ==
    /\ metaInfo \in Seq(Fitting) /\ valid \in Seq(Passed) /\ fsmMeta \in Seq(Handled)
    /\ fsm # None => fsm \in Loaded /\ fsm.seg \in Handled
Payloads == payload \in Seq(Carrying) /\ data \in Seq(Carrying)

LEMMA SeqNarrow ==
    ASSUME NEW S, NEW f, NEW T \in SUBSET S
    PROVE  f \in Seq(T) <=> f \in Seq(S) /\ \A i \in DOMAIN f : f[i] \in T
  <1>1. ASSUME f \in Seq(T) PROVE f \in Seq(S) /\ \A i \in DOMAIN f : f[i] \in T
    <2>1. Len(f) \in Nat /\ DOMAIN f = 1 .. Len(f) /\ \A i \in 1 .. Len(f) : f[i] \in T
      BY <1>1, LenProperties, ElementOfSeq
    <2>2. f \in [1 .. Len(f) -> T]
      BY <1>1, LenProperties
    <2>3. f \in [1 .. Len(f) -> S]
      BY <2>2
    <2> QED BY <2>1, <2>3, SeqDef
  <1>2. ASSUME f \in Seq(S), \A i \in DOMAIN f : f[i] \in T PROVE f \in Seq(T)
    <2>1. Len(f) \in Nat /\ DOMAIN f = 1 .. Len(f) /\ f \in [1 .. Len(f) -> S]
      BY <1>2, LenProperties
    <2>2. f \in [1 .. Len(f) -> T]
      BY <2>1, <1>2
    <2> QED BY <2>1, <2>2, SeqDef
  <1> QED BY <1>1, <1>2

LEMMA StagesAre == SegmentTypes /\ StagesInv <=> Staged /\ Payloads
  <1>1. Fitting \in SUBSET Sound /\ Passed \in SUBSET Sound /\ Handled \in SUBSET Sound
    BY DEF Fitting, Passed, Handled
  <1>2. /\ metaInfo \in Seq(Fitting) <=> metaInfo \in Seq(Sound) /\ \A i \in DOMAIN metaInfo : metaInfo[i] \in Fitting
        /\ valid \in Seq(Passed) <=> valid \in Seq(Sound) /\ \A i \in DOMAIN valid : valid[i] \in Passed
        /\ fsmMeta \in Seq(Handled) <=> fsmMeta \in Seq(Sound) /\ \A i \in DOMAIN fsmMeta : fsmMeta[i] \in Handled
    BY <1>1, SeqNarrow
  <1>3. /\ metaInfo \in Seq(Fitting) <=> metaInfo \in Seq(Sound) /\ \A i \in DOMAIN metaInfo : FinFits(metaInfo[i])
        /\ valid \in Seq(Passed) <=> /\ valid \in Seq(Sound)
                                     /\ \A i \in DOMAIN valid : FinFits(valid[i]) /\ valid[i].fault # "checksum"
        /\ fsmMeta \in Seq(Handled) <=> /\ fsmMeta \in Seq(Sound)
                                        /\ \A i \in DOMAIN fsmMeta : FinFits(fsmMeta[i]) /\ fsmMeta[i].fault = "none"
    <2>1. /\ \A i \in DOMAIN metaInfo : metaInfo \in Seq(Sound) => metaInfo[i] \in Sound
          /\ \A i \in DOMAIN valid : valid \in Seq(Sound) => valid[i] \in Sound
          /\ \A i \in DOMAIN fsmMeta : fsmMeta \in Seq(Sound) => fsmMeta[i] \in Sound
      BY LenProperties, ElementOfSeq
    <2> QED BY <2>1, <1>2 DEF Fitting, Passed, Handled
  <1>4. ASSUME fsm # None
        PROVE  fsm.seg \in Handled <=> fsm.seg \in Sound /\ FinFits(fsm.seg) /\ fsm.seg.fault = "none"
    BY DEF Handled, Fitting
  <1> QED BY <1>3, <1>4 DEF SegmentTypes, StagesInv, Staged, Payloads

(* As long as nothing is asked for the stages hold the same.               *)
LEMMA SameStages ==
    ASSUME UNCHANGED requested
    PROVE  Fitting' = Fitting /\ Passed' = Passed /\ Handled' = Handled
  BY DEF Fitting, Passed, Handled, FinFits, AdvertisedEdge

LEMMA StagesKept ==
    ASSUME SegmentTypes, StagesInv, UNCHANGED <<payload, data, metaInfo, valid, fsmMeta, requested>>,
           fsm' = fsm \/ fsm' = None
    PROVE  SegmentTypes' /\ StagesInv'
  BY DEF SegmentTypes, StagesInv, FinFits, AdvertisedEdge

LEMMA StagesStep ==
    ASSUME TypeOK, StagesInv, UNCHANGED <<requested, data>>,
           \/ \E seg \in Sound : FinFits(seg) /\ rxEngGetMetaData(seg)
           \/ rxEngVerifyCheckSum \/ rxEngMetadataHandler \/ Load
    PROVE  SegmentTypes' /\ StagesInv'
  <1>1. Staged /\ Payloads
    BY StagesAre DEF TypeOK
  <1>2. PICK F, P, H :
           F = Fitting /\ P = Passed /\ H = Handled /\ F = Fitting' /\ P = Passed' /\ H = Handled'
    BY SameStages
  <1>3. /\ metaInfo \in Seq(F) /\ valid \in Seq(P) /\ fsmMeta \in Seq(H)
        /\ fsm # None => fsm \in Loaded /\ fsm.seg \in H
        /\ payload \in Seq(Carrying) /\ data' \in Seq(Carrying)
    BY <1>1, <1>2 DEF Staged, Payloads
  <1>4. /\ P \subseteq F /\ H \subseteq F
        /\ \A seg \in F : seg \in Sound /\ seg.fault \in Faults
        /\ \A seg \in F : seg.fault # "checksum" => seg \in P
        /\ \A seg \in P : seg \in F /\ seg.fault \in Faults \ {"checksum"}
        /\ \A seg \in P : seg.fault # "handler" => seg \in H
        /\ \A seg \in Sound : FinFits(seg) => seg \in F
        /\ \A seg \in Sound : seg.length # 0 => seg \in Carrying
    BY <1>2 DEF Fitting, Passed, Handled, Sound, Segments, Faults, Carrying
  <1>5. ASSUME metaInfo' \in Seq(F), valid' \in Seq(P), fsmMeta' \in Seq(H), payload' \in Seq(Carrying),
               fsm' # None => fsm' \in Loaded /\ fsm'.seg \in H
        PROVE  SegmentTypes' /\ StagesInv'
    <2>1. Staged' /\ Payloads'
      BY <1>2, <1>3, <1>5 DEF Staged, Payloads
    <2>2. (SegmentTypes /\ StagesInv <=> Staged /\ Payloads)'
      BY StagesAre, PTL
    <2> QED BY <2>1, <2>2
  <1>6. ASSUME NEW seg \in Sound, FinFits(seg), rxEngGetMetaData(seg)
        PROVE  SegmentTypes' /\ StagesInv'
    <2>1. metaInfo' = Append(metaInfo, seg) /\ UNCHANGED <<valid, fsmMeta, fsm>>
      BY <1>6 DEF rxEngGetMetaData
    <2>2. metaInfo' \in Seq(F)
      BY <2>1, <1>3, <1>4, <1>6, AppendFacts
    <2>3. payload' \in Seq(Carrying)
      <3>1. CASE seg.length # 0
        <4>1. payload' = Append(payload, seg) /\ seg \in Carrying
          BY <3>1, <1>4, <1>6 DEF rxEngGetMetaData
        <4> QED BY <4>1, <1>3, AppendFacts
      <3>2. CASE ~(seg.length # 0)
        BY <3>2, <1>3, <1>6 DEF rxEngGetMetaData
      <3> QED BY <3>1, <3>2
    <2> QED BY <2>1, <2>2, <2>3, <1>3, <1>5
  <1>7. CASE rxEngVerifyCheckSum
    <2> DEFINE seg == Head(metaInfo)
    <2>1. /\ metaInfo # <<>> /\ metaInfo' = Tail(metaInfo) /\ UNCHANGED <<payload, fsmMeta, fsm>>
          /\ seg.fault = "checksum" => valid' = valid
          /\ seg.fault # "checksum" => valid' = Append(valid, seg)
      BY <1>7 DEF rxEngVerifyCheckSum
    <2>2. seg \in F /\ metaInfo' \in Seq(F)
      BY <2>1, <1>3, TailFacts
    <2>3. valid' \in Seq(P)
      <3>1. CASE seg.fault = "checksum"
        BY <3>1, <2>1, <1>3
      <3>2. CASE seg.fault # "checksum"
        <4>1. seg \in P
          BY <3>2, <2>2, <1>4
        <4> HIDE DEF seg
        <4> QED BY <4>1, <3>2, <2>1, <1>3, AppendFacts
      <3> QED BY <3>1, <3>2
    <2> QED BY <2>1, <2>2, <2>3, <1>3, <1>5
  <1>8. CASE rxEngMetadataHandler
    <2> DEFINE seg == Head(valid)
    <2>1. /\ valid # <<>> /\ valid' = Tail(valid) /\ UNCHANGED <<payload, metaInfo, fsm>>
          /\ seg.fault = "handler" => fsmMeta' = fsmMeta
          /\ seg.fault # "handler" => fsmMeta' = Append(fsmMeta, seg)
      BY <1>8 DEF rxEngMetadataHandler
    <2>2. seg \in P /\ valid' \in Seq(P)
      BY <2>1, <1>3, TailFacts
    <2>3. fsmMeta' \in Seq(H)
      <3>1. CASE seg.fault = "handler"
        BY <3>1, <2>1, <1>3
      <3>2. CASE seg.fault # "handler"
        <4>1. seg \in H
          BY <3>2, <2>2, <1>4
        <4> HIDE DEF seg
        <4> QED BY <4>1, <3>2, <2>1, <1>3, AppendFacts
      <3> QED BY <3>1, <3>2
    <2> QED BY <2>1, <2>2, <2>3, <1>3, <1>5
  <1>9. CASE Load
    <2>1. /\ fsmMeta # <<>> /\ fsmMeta' = Tail(fsmMeta) /\ UNCHANGED <<payload, metaInfo, valid>>
          /\ fsm' \in Loaded /\ fsm'.seg = Head(fsmMeta)
      BY <1>9, LoadKeepsLine DEF Load, judging
    <2>2. Head(fsmMeta) \in H /\ fsmMeta' \in Seq(H)
      BY <2>1, <1>3, TailFacts
    <2> QED BY <2>1, <2>2, <1>3, <1>5
  <1> QED BY <1>6, <1>7, <1>8, <1>9

LEMMA StagesPayloads ==
    ASSUME SegmentTypes, StagesInv, UNCHANGED <<metaInfo, valid, fsmMeta, fsm, requested>>,
           payload' \in Seq(Carrying), data' \in Seq(Carrying)
    PROVE  SegmentTypes' /\ StagesInv'
  BY DEF SegmentTypes, StagesInv, FinFits, AdvertisedEdge

(* The window only moves on: a FIN that fitted still fits.                 *)
LEMMA StagesMoves ==
    ASSUME TypeOK, StagesInv, WindowInv, MovePointer
    PROVE  SegmentTypes' /\ StagesInv'
  <1>1. UNCHANGED <<payload, metaInfo, valid, data, fsmMeta, fsm>>
    BY DEF MovePointer, judging
  <1>2. ASSUME NEW seg \in Sound, FinFits(seg) PROVE FinFits(seg)'
    <2> SUFFICES ASSUME seg.kind = "FIN_ACK", seg.fault = "none"
                 PROVE  StreamLength <= requested'[seg.session] + Window - 1
      BY DEF FinFits, AdvertisedEdge
    <2>1. PICK s \in Sessions : s = seg.session
      BY DEF Sound
    <2>2. /\ requested[s] \in Nat /\ requested'[s] \in Nat /\ requested[s] <= requested'[s]
          /\ Window \in Nat /\ StreamLength \in Nat
      BY MovesIs, WindowTypes
    <2>3. StreamLength <= requested[s] + Window - 1
      BY <2>1, <1>2 DEF FinFits, AdvertisedEdge
    <2> QED BY <2>1, <2>2, <2>3
  <1>3. /\ \A i \in DOMAIN metaInfo : metaInfo[i] \in Sound
        /\ \A i \in DOMAIN valid : valid[i] \in Sound
        /\ \A i \in DOMAIN fsmMeta : fsmMeta[i] \in Sound
        /\ fsm # None => fsm.seg \in Sound
    BY LenProperties, ElementOfSeq DEF TypeOK, SegmentTypes
  <1>4. /\ \A i \in DOMAIN metaInfo : FinFits(metaInfo[i])'
        /\ \A i \in DOMAIN valid : FinFits(valid[i])'
        /\ \A i \in DOMAIN fsmMeta : FinFits(fsmMeta[i])'
        /\ fsm # None => FinFits(fsm.seg)'
    <2>1. PICK G : G = {seg \in Sound : FinFits(seg)}
      OBVIOUS
    <2>2. \A seg \in G : StreamLength <= requested'[seg.session] + Window - 1
                         \/ ~(seg.kind = "FIN_ACK" /\ seg.fault = "none")
      BY <2>1, <1>2 DEF FinFits, AdvertisedEdge
    <2>3. /\ \A i \in DOMAIN metaInfo : metaInfo[i] \in G
          /\ \A i \in DOMAIN valid : valid[i] \in G
          /\ \A i \in DOMAIN fsmMeta : fsmMeta[i] \in G
          /\ fsm # None => fsm.seg \in G
      BY <2>1, <1>3 DEF StagesInv
    <2> QED BY <2>2, <2>3, <1>1 DEF FinFits, AdvertisedEdge
  <1> QED BY <1>1, <1>4 DEF StagesInv, SegmentTypes, TypeOK
-----------------------------------------------------------------------------
(* The verdicts and what the application works with.                       *)
LEMMA VerdictsStay ==
    ASSUME VerdictTypes, UNCHANGED dropper,
           \/ verdicts' = verdicts
           \/ \E who \in {"checksum", "handler", "fsm"}, drop \in BOOLEAN, seg \in Sound : Judge(who, seg, drop)
    PROVE  VerdictTypes'
  <1>1. ASSUME NEW who \in {"checksum", "handler", "fsm"}, NEW drop \in BOOLEAN, NEW seg \in Sound,
               Judge(who, seg, drop)
        PROVE  VerdictTypes'
    <2>1. /\ verdicts[who] \in Seq(BOOLEAN)
          /\ verdicts' = verdicts \/ verdicts' = [verdicts EXCEPT ![who] = Append(verdicts[who], drop)]
      BY <1>1 DEF Judge, VerdictTypes
    <2>2. PICK told \in Seq(BOOLEAN) : told = Append(verdicts[who], drop)
      BY <2>1, AppendFacts
    <2> QED BY <2>1, <2>2 DEF VerdictTypes
  <1> QED BY <1>1 DEF VerdictTypes

LEMMA VerdictsDropper ==
    ASSUME VerdictTypes, rxEngPacketDropper
    PROVE  VerdictTypes'
  <1>1. ASSUME NEW who \in {"checksum", "handler", "fsm"}, NEW here,
               NEW next \in {"RD_META_HANDLER", "RD_FSM_DROP", "FWD"}, ReadVerdict(here, who, next)
        PROVE  VerdictTypes'
    <2>1. /\ verdicts[who] \in Seq(BOOLEAN) /\ verdicts[who] # <<>>
          /\ verdicts' = [verdicts EXCEPT ![who] = Tail(verdicts[who])]
          /\ dropper' = "DROP" \/ dropper' = next
      BY <1>1 DEF ReadVerdict, VerdictTypes
    <2>2. PICK told \in Seq(BOOLEAN) : told = Tail(verdicts[who])
      BY <2>1, TailFacts
    <2> QED BY <2>1, <2>2 DEF VerdictTypes
  <1>2. CASE Forward \/ Drop
    BY <1>2 DEF Forward, Drop, VerdictTypes
  <1> QED BY <1>1, <1>2 DEF rxEngPacketDropper

LEMMA ReadTypesTransition ==
    ASSUME TypeOK, StagesInv, WindowInv, Transition
    PROVE  ReadTypes'
  <1>1. /\ fsm # None /\ fsm.seg \in Sound /\ fsm.seg.session \in Sessions /\ fsm.seg.fault = "none"
        /\ UNCHANGED <<reader, answers, requested, got>>
        /\ Takes \/ Finishes \/ Leaves
    BY TransitionCases DEF StagesInv
  <1>2. rx_table' \in [Sessions -> Entries]
    <2>1. CASE Leaves
      BY <2>1 DEF Leaves, TypeOK, ReadTypes
    <2>2. CASE Takes \/ Finishes
      BY <2>2, <1>1, TakesIs
    <2> QED BY <1>1, <2>1, <2>2
  <1>3. notifications' \in Seq(Notes)
    <2>1. \/ notifications' = notifications
          \/ \E note \in Notes : notifications' = Append(notifications, note)
      BY <1>1 DEF Takes, Finishes, Leaves, Quiet
    <2>2. notifications \in Seq(Notes)
      BY DEF TypeOK, ReadTypes
    <2> QED BY <2>1, <2>2, AppendFacts
  <1> QED BY <1>1, <1>2, <1>3 DEF TypeOK, ReadTypes

LEMMA ReadTypesAsk ==
    ASSUME TypeOK, AskPointer
    PROVE  ReadTypes'
  <1> DEFINE r == Head(notifications)
  <1>1. /\ notifications \in Seq(Notes) /\ notifications # <<>> /\ notifications' = Tail(notifications)
        /\ UNCHANGED <<rx_table, answers, requested, got>>
        /\ rx_table \in [Sessions -> Entries]
        /\ r.length = 0 => reader' = None
        /\ r.length # 0 => reader' = [session |-> r.session, length |-> r.length, appd |-> rx_table[r.session].appd]
    BY DEF AskPointer, TypeOK, ReadTypes
  <1>2. r \in Notes /\ notifications' \in Seq(Notes)
    BY <1>1, TailFacts
  <1> HIDE DEF r
  <1>3. r.length # 0 => reader' \in Readers
    BY <1>1, <1>2 DEF Notes, Readers, Entries
  <1>4. reader' # None => reader' \in Readers
    BY <1>1, <1>3
  <1> QED BY <1>1, <1>2, <1>4 DEF TypeOK, ReadTypes

LEMMA ReadTypesMove ==
    ASSUME TypeOK, WindowInv, MovePointer
    PROVE  ReadTypes'
  <1>1. /\ rx_table' \in [Sessions -> Entries] /\ requested' \in [Sessions -> Nat] /\ reader.session \in Sessions
    BY MovesIs
  <1>2. reader' = None /\ answers' = Append(answers, reader.session) /\ UNCHANGED <<notifications, got>>
    BY DEF MovePointer
  <1>3. answers' \in Seq(Sessions)
    BY <1>1, <1>2, AppendFacts DEF TypeOK, ReadTypes
  <1> QED BY <1>1, <1>2, <1>3 DEF TypeOK, ReadTypes
-----------------------------------------------------------------------------
(* Initially nothing waits.                                                *)
LEMMA InitHolds == Init => IInv
  <1> SUFFICES ASSUME Init PROVE IInv
    OBVIOUS
  <1>1. TypeOK /\ StagesInv
    <2>1. SegmentTypes /\ StagesInv
      BY EmptySeq DEF Init, SegmentTypes, StagesInv
    <2>2. VerdictTypes
      <3>1. PICK S, e : S = Seq(BOOLEAN) /\ e = <<>> /\ e \in S
        BY EmptySeq
      <3> DEFINE r == [checksum |-> e, handler |-> e, fsm |-> e]
      <3>2. r = [who \in {"checksum", "handler", "fsm"} |-> r[who]]
        OBVIOUS
      <3>3. \A who \in {"checksum", "handler", "fsm"} : r[who] \in S
        <4>1. r["checksum"] = e /\ r["handler"] = e /\ r["fsm"] = e
          OBVIOUS
        <4> QED BY <4>1, <3>1
      <3>4. verdicts = r
        BY <3>1 DEF Init
      <3> HIDE DEF r
      <3>5. verdicts \in [{"checksum", "handler", "fsm"} -> S]
        BY <3>2, <3>3, <3>4
      <3> QED BY <3>1, <3>5 DEF Init, VerdictTypes
    <2>3. ReadTypes
      BY EmptySeq, RxPathAssumption DEF Init, ReadTypes, Entries
    <2> QED BY <2>1, <2>2, <2>3 DEF TypeOK
  <1>2. \A s \in Sessions : Taken(rx_table, s) = 0
    BY <1>1, TakenIs, RxPathAssumption DEF Init, TypeOK, ReadTypes
  <1>3. WindowInv
    <2>1. 0 % Window = 0
      BY ModIs, RxPathAssumption
    <2>2. \A s \in Sessions : rx_table[s].appd = 0 /\ requested[s] = 0
      BY DEF Init
    <2>3. UnreadFits
      BY <1>2, <2>2, RxPathAssumption DEF UnreadFits, Taken
    <2> QED BY <2>1, <2>2, <2>3 DEF WindowInv, Init
  <1>4. DeliveredIsStream
    BY DEF Init, DeliveredIsStream
  <1>5. LineInv
    <2> DEFINE rest == <<>>
               line == <<>>
               none == {}
               zero == [s \in Sessions |-> 0]
               pos  == [k \in 0 .. 0 |-> zero]
    <2>1. rest \in Seq(Carrying) /\ Len(line) = 0 /\ line = data \o rest /\ FsmLine = <<>>
      BY EmptySeq DEF Init, FsmLine
    <2>2. pos \in [0 .. Len(line) -> [Sessions -> Nat]] /\ pos[0] = zero
      BY <2>1
    <2>3. StreamInv(line, pos)
      BY <2>1, <2>2, <1>2, EmptySeq DEF Init, StreamInv
    <2>4. Wishes(notifications) = <<>>
      BY EmptySeq DEF Init, Wishes
    <2>5. AskedInv(line)
      <3>1. Len(answers) + One(reader) + 1 .. Len(line) = {}
        BY <2>1, EmptySeq DEF Init, One
      <3> QED BY <3>1, <2>4, AlongNone DEF Init, AskedInv
    <2>6. Judged(none, rest)
      <3>1. \A faults, lo, hi : lo = 0 /\ hi = 0 => With(payload, faults, lo, hi) = {}
        BY DEF With
      <3>2. PipeInv(0, 0, 0, 0, 0, 0, none)
        <4>1. /\ metaInfo = <<>> /\ valid = <<>> /\ verdicts.checksum = <<>> /\ verdicts.handler = <<>>
              /\ verdicts.fsm = <<>> /\ Len(payload) = 0 /\ dropper = "RD_VERIFY_CHECKSUM"
          BY EmptySeq DEF Init
        <4>2. PastChecksum = 0 /\ PastHandler = 0 /\ PastFsm = 0
          BY <4>1 DEF PastChecksum, PastHandler, PastFsm, Behind
        <4>3. /\ With(payload, Faults, 0, Len(payload)) = {} /\ With(payload, Faults, 0, 0) = {}
              /\ With(payload, Later, 0, 0) = {} /\ With(payload, Good, 0, 0) = {}
          BY <4>1, <3>1
        <4>4. \A K, what : Along(<<>>, K, what, {})
          BY AlongNone
        <4>5. /\ Along(metaInfo, Carrying, payload, With(payload, Faults, 0, Len(payload)))
              /\ Along(valid, Carrying, payload, With(payload, Later, 0, 0))
              /\ Along(FsmLine, Carrying, payload, With(payload, Good, 0, 0))
              /\ Along(verdicts.checksum, BOOLEAN, Faulty(payload, "checksum"), With(payload, Faults, 0, 0))
              /\ Along(verdicts.handler, BOOLEAN, Faulty(payload, "handler"), With(payload, Later, 0, 0))
              /\ Along(verdicts.fsm, BOOLEAN, Unwanted(payload, none), With(payload, Good, 0, 0))
          BY <4>1, <4>3, <4>4, <2>1
        <4> QED BY <4>1, <4>2, <4>3, <4>5 DEF PipeInv
      <3>3. DropInv(0, 0, 0, none)
        BY DEF Init, DropInv
      <3>4. Along(rest, Carrying, payload, none)
        BY AlongNone
      <3> QED BY <3>2, <3>3, <3>4 DEF Judged
    <2> HIDE DEF rest, line, none, pos, zero
    <2>7. none \in SUBSET Int /\ line \in Seq(Carrying)
      BY EmptySeq DEF none, line
    <2> QED BY <2>1, <2>2, <2>3, <2>5, <2>6, <2>7 DEF LineInv
  <1> QED BY <1>1, <1>3, <1>4, <1>5 DEF IInv

(* Every step keeps the invariant.                                         *)
LEMMA Invariance ==
    ASSUME Stray = FALSE, IInv, [Next]_vars
    PROVE  IInv'
  <1>1. TypeOK /\ SegmentTypes /\ VerdictTypes /\ ReadTypes /\ StagesInv /\ LineInv /\ WindowInv /\ DeliveredIsStream
    BY DEF IInv, TypeOK
  <1>2. ASSUME SegmentTypes', StagesInv', VerdictTypes', ReadTypes', LineInv', WindowInv', DeliveredIsStream'
        PROVE  IInv'
    BY <1>2 DEF IInv, TypeOK
  <1>3. UNCHANGED <<rx_table, notifications, reader, answers, requested, got>> => ReadTypes'
    BY <1>1 DEF ReadTypes
  <1>4. UNCHANGED got => DeliveredIsStream'
    BY <1>1 DEF DeliveredIsStream
  <1>5. ASSUME NEW seg \in Sound, FinFits(seg), rxEngGetMetaData(seg) PROVE IInv'
    <2>1. UNCHANGED <<verdicts, dropper, data, fsmMeta, fsm, rx_table, notifications, reader, answers, requested, got>>
      BY <1>5 DEF rxEngGetMetaData, reading
    <2>2. SegmentTypes' /\ StagesInv'
      BY <2>1, <1>1, <1>5, StagesStep
    <2>3. LineInv'
      BY <2>1, <1>1, <1>5, LineKept
    <2>4. VerdictTypes' /\ WindowInv'
      BY <2>1, <1>1, VerdictsStay, WindowKept
    <2> QED BY <2>1, <2>2, <2>3, <2>4, <1>2, <1>3, <1>4
  <1>6. CASE Arrive
    BY <1>5, <1>6, ArrivesSound
  <1>7. CASE rxEngVerifyCheckSum
    <2>1. UNCHANGED <<payload, dropper, data, fsmMeta, fsm, rx_table, notifications, reader, answers, requested, got>>
      BY <1>7 DEF rxEngVerifyCheckSum, reading
    <2>2. SegmentTypes' /\ StagesInv'
      BY <2>1, <1>1, <1>7, StagesStep
    <2>3. LineInv'
      BY <2>1, <1>1, <1>7, LineKept
    <2>4. VerdictTypes'
      <3>1. Head(metaInfo) \in Sound /\ (Head(metaInfo).fault = "checksum") \in BOOLEAN
            /\ Judge("checksum", Head(metaInfo), Head(metaInfo).fault = "checksum")
        BY <1>1, <1>7, TailFacts DEF rxEngVerifyCheckSum, SegmentTypes
      <3> QED BY <2>1, <3>1, <1>1, VerdictsStay
    <2>5. WindowInv'
      BY <2>1, <1>1, WindowKept
    <2> QED BY <2>1, <2>2, <2>3, <2>4, <2>5, <1>2, <1>3, <1>4
  <1>8. CASE rxEngMetadataHandler
    <2>1. UNCHANGED <<payload, metaInfo, dropper, data, fsm, rx_table, notifications, reader, answers, requested, got>>
      BY <1>8 DEF rxEngMetadataHandler, reading
    <2>2. SegmentTypes' /\ StagesInv'
      BY <2>1, <1>1, <1>8, StagesStep
    <2>3. LineInv'
      BY <2>1, <1>1, <1>8, LineKept
    <2>4. VerdictTypes'
      <3>1. Head(valid) \in Sound /\ (Head(valid).fault = "handler") \in BOOLEAN
            /\ Judge("handler", Head(valid), Head(valid).fault = "handler")
        BY <1>1, <1>8, TailFacts DEF rxEngMetadataHandler, SegmentTypes
      <3> QED BY <2>1, <3>1, <1>1, VerdictsStay
    <2>5. WindowInv'
      BY <2>1, <1>1, WindowKept
    <2> QED BY <2>1, <2>2, <2>3, <2>4, <2>5, <1>2, <1>3, <1>4
  <1>9. CASE Load
    <2>1. /\ UNCHANGED <<payload, metaInfo, valid, verdicts, dropper, data>>
          /\ UNCHANGED <<rx_table, notifications, reader, answers, requested, got>>
      BY <1>9 DEF Load, judging, reading
    <2>2. SegmentTypes' /\ StagesInv'
      BY <2>1, <1>1, <1>9, StagesStep
    <2>3. LineInv'
      BY <2>1, <1>1, <1>9, LineKept
    <2>4. VerdictTypes'
      BY <2>1, <1>1, VerdictsStay
    <2>5. WindowInv'
      BY <1>1, <1>9, WindowLoads
    <2> QED BY <2>1, <2>2, <2>3, <2>4, <2>5, <1>2, <1>3, <1>4
  <1>10. CASE Transition
    <2>1. /\ fsm # None /\ fsm.seg \in Sound /\ fsm' = None
          /\ UNCHANGED <<payload, metaInfo, valid, dropper, data, fsmMeta, requested, got>>
          /\ Takes \/ Finishes \/ Leaves
      BY <1>1, <1>10, TransitionCases
    <2>2. SegmentTypes' /\ StagesInv'
      BY <2>1, <1>1, StagesKept
    <2>3. LineInv' /\ WindowInv' /\ ReadTypes'
      BY <1>1, <1>10, LineTakes, WindowTakes, ReadTypesTransition
    <2>4. \E drop \in BOOLEAN : Judge("fsm", fsm.seg, drop)
      BY <2>1 DEF Takes, Finishes, Leaves
    <2>5. VerdictTypes'
      BY <2>1, <2>4, <1>1, VerdictsStay
    <2> QED BY <2>1, <2>2, <2>3, <2>5, <1>2, <1>4
  <1>11. CASE rxEngPacketDropper
    <2>1. UNCHANGED <<metaInfo, valid, fsmMeta, fsm, rx_table, notifications, reader, answers, requested, got>>
      BY <1>11 DEF rxEngPacketDropper, reading
    <2>2. payload' \in Seq(Carrying) /\ data' \in Seq(Carrying)
      <3>1. payload \in Seq(Carrying) /\ data \in Seq(Carrying)
        BY <1>1 DEF SegmentTypes
      <3>2. CASE UNCHANGED <<payload, data>>
        BY <3>1, <3>2
      <3>3. CASE Forward
        <4>1. payload # <<>> /\ payload' = Tail(payload) /\ data' = Append(data, Head(payload))
          BY <3>3 DEF Forward
        <4>2. Head(payload) \in Carrying /\ Tail(payload) \in Seq(Carrying)
          BY <3>1, <4>1, TailFacts
        <4> QED BY <3>1, <4>1, <4>2, AppendFacts
      <3>4. CASE Drop
        BY <3>1, <3>4, TailFacts DEF Drop
      <3> QED BY <3>2, <3>3, <3>4, <1>11 DEF rxEngPacketDropper, ReadVerdict
    <2>3. SegmentTypes' /\ StagesInv'
      BY <2>1, <2>2, <1>1, StagesPayloads
    <2>4. LineInv'
      <3>1. CASE Forward
        BY <3>1, <1>1, <1>11, LineForwards
      <3>2. CASE ~Forward
        <4>1. data' = data
          BY <3>2, <1>11 DEF rxEngPacketDropper, ReadVerdict, Drop
        <4> QED BY <4>1, <3>2, <2>1, <1>1, <1>11, LineKept
      <3> QED BY <3>1, <3>2
    <2>5. VerdictTypes' /\ WindowInv'
      BY <2>1, <1>1, <1>11, VerdictsDropper, WindowKept
    <2> QED BY <2>1, <2>3, <2>4, <2>5, <1>2, <1>3, <1>4
  <1>12. ASSUME \/ \E s \in Sessions : CloseConnection(s)
                \/ UNCHANGED vars
         PROVE  IInv'
    <2>1. /\ UNCHANGED <<payload, metaInfo, valid, verdicts, dropper, data, fsmMeta, fsm>>
          /\ UNCHANGED <<rx_table, notifications, reader, answers, requested, got>>
      BY <1>12 DEF CloseConnection, vars, judging, reading
    <2>2. SegmentTypes' /\ StagesInv'
      BY <2>1, <1>1, StagesKept
    <2>3. LineInv'
      <3>1. UNCHANGED <<payload, metaInfo, valid, FsmLine, verdicts, dropper>>
        BY <2>1 DEF FsmLine
      <3> QED BY <2>1, <3>1, <1>1, LineKept
    <2>4. VerdictTypes' /\ WindowInv'
      BY <2>1, <1>1, VerdictsStay, WindowKept
    <2> QED BY <2>1, <2>2, <2>3, <2>4, <1>2, <1>3, <1>4
  <1>13. CASE AskPointer
    <2>1. UNCHANGED <<payload, metaInfo, valid, verdicts, dropper, data, fsmMeta, fsm, requested, got>>
      BY <1>13 DEF AskPointer, judging
    <2>2. SegmentTypes' /\ StagesInv'
      BY <2>1, <1>1, StagesKept
    <2>3. LineInv' /\ WindowInv' /\ ReadTypes' /\ VerdictTypes'
      BY <2>1, <1>1, <1>13, LineAsked, WindowAsks, ReadTypesAsk, VerdictsStay
    <2> QED BY <2>1, <2>2, <2>3, <1>2, <1>4
  <1>14. CASE MovePointer
    <2>1. UNCHANGED <<verdicts, dropper, got>>
      BY <1>14 DEF MovePointer, judging
    <2>2. SegmentTypes' /\ StagesInv' /\ LineInv' /\ WindowInv' /\ ReadTypes'
      BY <1>1, <1>14, StagesMoves, LineMoves, WindowMoves, ReadTypesMove
    <2>3. VerdictTypes'
      BY <2>1, <1>1, VerdictsStay
    <2> QED BY <2>1, <2>2, <2>3, <1>2, <1>4
  <1>15. CASE AppTakes
    <2>1. /\ UNCHANGED <<payload, metaInfo, valid, verdicts, dropper, fsmMeta, fsm>>
          /\ UNCHANGED <<rx_table, notifications, reader, requested>>
          /\ answers # <<>> /\ answers' = Tail(answers) /\ data # <<>> /\ data' = Tail(data)
      BY <1>15 DEF AppTakes
    <2>2. LineInv' /\ DeliveredIsStream' /\ got' \in [Sessions -> Seq(Sessions \X Nat)]
      BY <1>1, <1>15, LineReads
    <2>3. data' \in Seq(Carrying) /\ payload' \in Seq(Carrying) /\ answers' \in Seq(Sessions)
      BY <2>1, <1>1, TailFacts DEF SegmentTypes, ReadTypes
    <2>4. SegmentTypes' /\ StagesInv'
      BY <2>1, <2>3, <1>1, StagesPayloads
    <2>5. ReadTypes'
      BY <2>1, <2>2, <2>3, <1>1 DEF ReadTypes
    <2>6. VerdictTypes' /\ WindowInv'
      BY <2>1, <1>1, VerdictsStay, WindowKept
    <2> QED BY <2>2, <2>4, <2>5, <2>6, <1>2
  <1> QED BY <1>6, <1>7, <1>8, <1>9, <1>10, <1>11, <1>12, <1>13, <1>14, <1>15 DEF Next, rxEngTcpFSM, rx_app_stream_if

(* rx_engine.cpp, rx_app_stream_if.cpp: the invariant holds of every       *)
(* behaviour in which only segments of the streams carry a payload.        *)
THEOREM InvariantHolds == Stray = FALSE => (Spec => []IInv)
  <1> SUFFICES ASSUME Stray = FALSE PROVE Spec => []IInv
    OBVIOUS
  <1>1. IInv /\ [Next]_vars => IInv'
    BY Invariance
  <1> QED BY InitHolds, <1>1, PTL DEF Spec

(* The FIFOs and tables of the receive path hold what belongs there: a     *)
(* payload on its way to the application is of a segment of some stream,   *)
(* a notification or request is of a session, each pointer is in range.    *)
THEOREM TypeCorrect == Stray = FALSE => (Spec => []TypeOK)
  <1>1. IInv => TypeOK
    BY DEF IInv
  <1> QED BY <1>1, InvariantHolds, PTL

(* rx_engine.cpp:986, rxEngPacketDropper pairs verdicts and payloads by    *)
(* their order alone: what the application reads is the stream of the      *)
(* session it asked for, in order and once, whatever arrives, fails its    *)
(* checksum or is closed in between.                                       *)
THEOREM Delivery == Stray = FALSE => (Spec => []DeliveredIsStream)
  <1>1. IInv => DeliveredIsStream
    BY DEF IInv
  <1> QED BY <1>1, InvariantHolds, PTL

(* rx_engine.cpp:757, the copy of the pointers that the FSM decides on may *)
(* be old, yet what was accepted and not asked for fits into the buffer.   *)
THEOREM Fits == Stray = FALSE => (Spec => []UnreadFits)
  <1>1. IInv => UnreadFits
    BY DEF IInv, WindowInv
  <1> QED BY <1>1, InvariantHolds, PTL
=============================================================================
