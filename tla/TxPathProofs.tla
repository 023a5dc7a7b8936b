----------------------------- MODULE TxPathProofs -----------------------------
(***************************************************************************)
(* Theorems about TxPath for a buffer of any length, FIFOs and a network   *)
(* of any depth, any writes and any number of closes, when the peer's FIN  *)
(* acknowledges what was sent (Unchecked = FALSE): the peer gets the       *)
(* stream up to the first FIN, takes it to end no earlier than that FIN,   *)
(* no accepted write exceeds its window, and the sending half implements   *)
(* ByteStream.                                                             *)
(***************************************************************************)
EXTENDS TxPath, CommonLemmas

Copies == [ackd : Nat, mempt : Nat, min_window : Nat]
Pushes == [ackd : Nat, min_window : Nat]
Writes == [length : Lengths, table : Copies \cup {None}]
Segments == [seq : Nat, data : Seq(Int), fin : BOOLEAN]
Replies == [ack : Nat, win : Nat]
Peers == [next : Nat, edge : Nat, got : Seq(Int), finished : BOOLEAN]
TxEvents == {e \in Events : e.type = "TX"}
OtherEvents == {e \in Events : e.type = "RT"}

(* The FIFOs and tables hold what belongs there.                           *)
AppTypes ==
    /\ established \in BOOLEAN /\ accepted \in Nat
    /\ appTable \in Copies /\ pushes \in Seq(Pushes)
    /\ write # None => write \in Writes
EventTypes ==
    /\ finEvents \in Seq({Fin}) /\ txEvents \in Seq(TxEvents)
    /\ appEvents \in Seq(TxEvents \cup {Fin}) /\ others \in Seq(OtherEvents \cup {Fin})
SarTypes ==
    /\ sar \in [ackd : Nat, not_ackd : Nat, finSent : BOOLEAN]
    /\ tx # None => tx \in Transmissions
    /\ finReceived \in BOOLEAN /\ finAt \in Nat /\ fins \in Nat
NetTypes == segments \in Seq(Segments) /\ replies \in Seq(Replies) /\ peer \in Peers

TypeOK == AppTypes /\ EventTypes /\ SarTypes /\ NetTypes
-----------------------------------------------------------------------------
(* The events.                                                             *)
OneIf(condition) == IF condition THEN 1 ELSE 0
Sends(type) == tx # None /\ tx.event.type = type

(* The events in a FIFO are for the bytes from lo up to hi, one after the  *)
(* other: at says where each begins.  A FIN among them is for none.        *)
Marks(fifo, lo, hi, at) ==
    /\ Len(at) = Len(fifo) + 1 /\ at[1] = lo /\ at[Len(fifo) + 1] = hi
    /\ \A i \in 1 .. Len(fifo) : /\ at[i + 1] = at[i] + fifo[i].length
                                 /\ fifo[i].type = "TX" => fifo[i].from = at[i]
    /\ \A i, j \in 1 .. Len(fifo) + 1 : i <= j => at[i] <= at[j]
Covers(fifo, lo, hi) == \E at \in Seq(Nat) : Marks(fifo, lo, hi, at)

(* What is sent when the event in work is done.                            *)
Taken == IF Sends("TX") THEN sar.not_ackd + tx.event.length ELSE sar.not_ackd

(* Before the first FIN, what is accepted and not sent is in the events,   *)
(* in its order.                                                           *)
ChainInv == ~sar.finSent =>
    /\ Sends("TX") => tx.event.from = sar.not_ackd
    /\ \E merged \in Nat : Covers(appEvents, Taken, merged) /\ Covers(txEvents, merged, accepted)

SarInv ==
    /\ sar.ackd <= sar.not_ackd /\ sar.ackd <= peer.next
    /\ sar.finSent => finAt < sar.not_ackd /\ finAt <= accepted
    /\ tx # None => tx.not_ackd = sar.not_ackd /\ tx.finSent = sar.finSent
    /\ Sends("RT") /\ ~sar.finSent => tx.ackd + tx.left <= sar.not_ackd
    /\ Sends("FIN") /\ tx.event.again => sar.finSent
-----------------------------------------------------------------------------
(* The copies of tx_sar_table, from the oldest to the newest: each lets    *)
(* the application write what the peer has given window for.               *)
Fits(copy) == copy.min_window > 0 => copy.ackd + copy.min_window <= peer.edge

CopyInv ==
    /\ appTable.mempt = accepted /\ accepted - appTable.ackd < Window
    /\ Fits(appTable) /\ appTable.ackd <= sar.ackd
    /\ \A i \in DOMAIN pushes : /\ Fits(pushes[i])
                                /\ appTable.ackd <= pushes[i].ackd /\ pushes[i].ackd <= sar.ackd
    /\ \A i, j \in DOMAIN pushes : i < j => pushes[i].ackd <= pushes[j].ackd
    /\ write # None /\ write.table # None =>
          /\ write.table.mempt = accepted /\ accepted - write.table.ackd < Window
          /\ Fits(write.table) /\ write.table.ackd <= appTable.ackd
-----------------------------------------------------------------------------
(* The network.  A byte that was sent from overwritten memory is one the   *)
(* peer got before or one behind the first FIN.                            *)
Sound(seg) ==
    /\ seg.fin => sar.finSent /\ finAt <= seg.seq /\ seg.data = <<>>
    /\ \A k \in DOMAIN seg.data : \/ seg.data[k] = seg.seq + k - 1
                                  \/ seg.seq + k - 1 < peer.next
                                  \/ sar.finSent /\ finAt <= seg.seq + k - 1
    /\ ~sar.finSent => seg.seq + Len(seg.data) <= sar.not_ackd

SegmentsInv == \A i \in DOMAIN segments : Sound(segments[i])

RepliesInv ==
    \A i \in DOMAIN replies :
       /\ replies[i].ack <= peer.next
       /\ replies[i].win > 0 => replies[i].ack + replies[i].win <= peer.edge

PeerInv ==
    /\ PeerGetsTheStream /\ FinComesBehind /\ AcceptedFitsWindow
    /\ peer.next = Len(peer.got) + OneIf(peer.finished) /\ Len(peer.got) <= peer.edge
    /\ peer.edge <= peer.next + PeerWindow
    /\ ~sar.finSent => peer.next <= sar.not_ackd

IInv == TypeOK /\ ChainInv /\ SarInv /\ CopyInv /\ SegmentsInv /\ RepliesInv /\ PeerInv
-----------------------------------------------------------------------------
LEMMA MinOf ==
    ASSUME NEW a \in Int, NEW b \in Int
    PROVE  Min({a, b}) = IF a <= b THEN a ELSE b
  <1>1. PICK m \in {a, b} : \A y \in {a, b} : m <= y
    OBVIOUS
  <1>2. Min({a, b}) \in {a, b} /\ \A y \in {a, b} : Min({a, b}) <= y
    BY <1>1 DEF Min
  <1> QED BY <1>2

LEMMA MaxOf ==
    ASSUME NEW a \in Int, NEW b \in Int
    PROVE  Max({a, b}) = IF a >= b THEN a ELSE b
  <1>1. PICK m \in {a, b} : \A y \in {a, b} : m >= y
    OBVIOUS
  <1>2. Max({a, b}) \in {a, b} /\ \A y \in {a, b} : Max({a, b}) >= y
    BY <1>1 DEF Max
  <1> QED BY <1>2

LEMMA WindowIs == /\ Window \in Nat \ {0} /\ MSS \in Nat \ {0} /\ PeerWindow \in Nat
                  /\ SegmentDepth \in Nat \ {0} /\ ReplyDepth \in Nat \ {0}
                  /\ Congestion \subseteq Nat
                  /\ \A length \in Lengths : length \in 1 .. Window - 1
  BY TxPathAssumption

(* A byte that nothing accepted later can have overwritten is in memory.   *)
LEMMA StoredIs ==
    ASSUME accepted \in Nat, NEW n \in Nat, n < accepted, accepted - n <= Window
    PROVE  Stored(n) = n
  <1> DEFINE there == {b \in 0 .. accepted - 1 : b % Window = n % Window}
  <1>1. n \in there
    OBVIOUS
  <1>2. ASSUME NEW b \in there, b > n PROVE FALSE
    <2>1. PICK c \in Int : /\ c = b /\ c - n < Window /\ c % Window = n % Window /\ n <= c
      BY <1>2, WindowIs
    <2>2. n \in Int /\ c \in Int /\ n <= c /\ c - n < Window /\ n % Window = c % Window
      BY <2>1
    <2>3. n = c
      BY <2>2, WindowIs, ModEqual
    <2> QED BY <1>2, <2>1, <2>3
  <1>3. \A b \in there : b \in Int /\ n >= b
    BY <1>2
  <1> HIDE DEF there
  <1>4. PICK m \in there : m = Max(there) /\ \A y \in there : m >= y
    BY <1>1, <1>3 DEF Max
  <1>5. m \in Int /\ n >= m /\ m >= n
    BY <1>1, <1>3, <1>4
  <1>6. Max(there) = n
    BY <1>4, <1>5
  <1> QED BY <1>1, <1>6 DEF Stored, there

LEMMA StoredType ==
    ASSUME accepted \in Nat, NEW n \in Int
    PROVE  Stored(n) \in Int
  <1> DEFINE there == {b \in 0 .. accepted - 1 : b % Window = n % Window}
             ahead == {accepted - b : b \in there}
  <1>1. CASE there = {}
    BY <1>1 DEF Stored
  <1>2. CASE there # {}
    <2>1. there \subseteq Nat /\ \A b \in there : b < accepted
      OBVIOUS
    <2> HIDE DEF there
    <2>2. ahead \in SUBSET Nat /\ ahead # {}
      <3>1. \A b \in there : accepted - b \in Nat
        BY <2>1
      <3> QED BY <1>2, <3>1
    <2>3. PICK x \in ahead : \A y \in ahead : x <= y
      BY <2>2, LeastNat
    <2>4. PICK m \in there : x = accepted - m
      BY <2>3
    <2>5. \A b \in there : m >= b
      <3> SUFFICES ASSUME NEW b \in there PROVE m >= b
        OBVIOUS
      <3>1. x <= accepted - b
        BY <2>3
      <3> QED BY <2>1, <2>4, <3>1
    <2>6. Max(there) \in there
      BY <2>5 DEF Max
    <2> QED BY <1>2, <2>1, <2>6 DEF Stored, there
  <1> QED BY <1>1, <1>2

LEMMA CarryFacts ==
    ASSUME NEW S, NEW q \in Seq(S), NEW x \in S, NEW depth \in Nat \ {0}
    PROVE  /\ Carry(q, depth, x) \in Seq(S)
           /\ \A i \in DOMAIN Carry(q, depth, x) :
                 Carry(q, depth, x)[i] = x \/ \E j \in DOMAIN q : Carry(q, depth, x)[i] = q[j]
  <1> DEFINE f == IF Len(q) < depth THEN q ELSE Tail(q)
  <1>1. f \in Seq(S) /\ \A i \in DOMAIN f : \E j \in DOMAIN q : f[i] = q[j]
    <2>1. CASE Len(q) < depth
      BY <2>1
    <2>2. CASE ~(Len(q) < depth)
      <3>1. q # <<>> /\ f = Tail(q)
        BY <2>2
      <3>2. /\ Tail(q) \in Seq(S) /\ Len(Tail(q)) = Len(q) - 1 /\ Len(q) \in Nat \ {0}
            /\ \A i \in 1 .. Len(q) - 1 : Tail(q)[i] = q[i + 1]
        BY <3>1, TailFacts
      <3>3. \A i \in 1 .. Len(q) - 1 : i + 1 \in DOMAIN q
        BY <3>2
      <3>4. DOMAIN Tail(q) = 1 .. Len(q) - 1
        BY <3>2
      <3> QED BY <3>1, <3>2, <3>3, <3>4
    <2> QED BY <2>1, <2>2
  <1>2. Carry(q, depth, x) = Append(f, x)
    BY DEF Carry
  <1> HIDE DEF f
  <1>3. /\ Append(f, x) \in Seq(S) /\ Len(Append(f, x)) = Len(f) + 1 /\ Len(f) \in Nat
        /\ \A i \in 1 .. Len(f) : Append(f, x)[i] = f[i]
        /\ Append(f, x)[Len(f) + 1] = x
    BY <1>1, AppendFacts
  <1>4. \A i \in DOMAIN Append(f, x) : i \in DOMAIN f \/ i = Len(f) + 1
    BY <1>1, <1>3
  <1>5. DOMAIN f = 1 .. Len(f)
    BY <1>1
  <1> QED BY <1>1, <1>2, <1>3, <1>4, <1>5
-----------------------------------------------------------------------------
LEMMA EventIs ==
    /\ Fin \in Events /\ Fin.type = "FIN" /\ Fin.length = 0 /\ Fin.again = FALSE
    /\ TxEvents \subseteq Events /\ OtherEvents \subseteq Events
    /\ TxEvents \cup {Fin} \subseteq Events /\ OtherEvents \cup {Fin} \subseteq Events
    /\ \A e \in Events : e.length \in Nat /\ e.from \in Nat /\ e.again \in BOOLEAN
  <1>1. Fin = [type |-> "FIN", from |-> 0, length |-> 0, again |-> FALSE]
    BY DEF Fin
  <1>2. Fin \in Events /\ Fin.type = "FIN" /\ Fin.length = 0 /\ Fin.again = FALSE
    BY <1>1 DEF Events
  <1> QED BY <1>2 DEF TxEvents, OtherEvents, Events

LEMMA CoversEmpty == ASSUME NEW lo \in Nat PROVE Covers(<<>>, lo, lo)
  <1>1. <<lo>> \in Seq(Nat) /\ Marks(<<>>, lo, lo, <<lo>>)
    BY DEF Marks
  <1> QED BY <1>1 DEF Covers

LEMMA CoversAppend ==
    ASSUME NEW f \in Seq(Events), NEW lo \in Nat, NEW hi \in Nat, NEW e \in Events,
           Covers(f, lo, hi), e.type = "TX" => e.from = hi
    PROVE  Covers(Append(f, e), lo, hi + e.length)
  <1>1. PICK at \in Seq(Nat) : Marks(f, lo, hi, at)
    BY DEF Covers
  <1>2. PICK n \in Nat, l \in Nat : n = Len(f) /\ l = e.length
    BY EventIs
  <1>3. PICK g \in Seq(Events) : /\ g = Append(f, e) /\ Len(g) = n + 1 /\ g[n + 1] = e
                                 /\ \A i \in 1 .. n : g[i] = f[i]
    <2>1. /\ Append(f, e) \in Seq(Events) /\ Len(Append(f, e)) = n + 1 /\ Append(f, e)[n + 1] = e
          /\ \A i \in 1 .. n : Append(f, e)[i] = f[i]
      BY <1>2, AppendFacts
    <2> QED BY <2>1
  <1>4. hi + l \in Nat /\ Len(at) = n + 1
    BY <1>1, <1>2 DEF Marks
  <1>5. PICK at2 \in Seq(Nat) : /\ Len(at2) = n + 1 + 1 /\ at2[n + 1 + 1] = hi + l
                                /\ \A i \in 1 .. n + 1 : at2[i] = at[i]
    <2>1. /\ Append(at, hi + l) \in Seq(Nat) /\ Len(Append(at, hi + l)) = n + 1 + 1
          /\ \A i \in 1 .. n + 1 : Append(at, hi + l)[i] = at[i]
          /\ Append(at, hi + l)[n + 1 + 1] = hi + l
      BY <1>4, AppendFacts
    <2> QED BY <2>1
  <1>6. at[1] = lo /\ at[n + 1] = hi
    BY <1>1, <1>2 DEF Marks
  <1>7. ASSUME NEW i \in 1 .. n + 1
        PROVE  at2[i + 1] = at2[i] + g[i].length /\ (g[i].type = "TX" => g[i].from = at2[i])
    <2>1. CASE i = n + 1
      BY <1>2, <1>3, <1>5, <1>6, <2>1
    <2>2. CASE i # n + 1
      <3>1. i \in 1 .. n /\ i + 1 \in 1 .. n + 1
        BY <2>2
      <3>2. at[i + 1] = at[i] + f[i].length /\ (f[i].type = "TX" => f[i].from = at[i])
        BY <1>1, <1>2, <3>1 DEF Marks
      <3> QED BY <1>3, <1>5, <3>1, <3>2
    <2> QED BY <2>1, <2>2
  <1>8. ASSUME NEW i \in 1 .. n + 1 + 1, NEW j \in 1 .. n + 1 + 1, i <= j PROVE at2[i] <= at2[j]
    <2>1. \A k, m \in 1 .. n + 1 : k <= m => at[k] <= at[m]
      BY <1>1, <1>2 DEF Marks
    <2>2. \A k \in 1 .. n + 1 : at[k] \in Nat /\ at[k] <= hi
      <3>1. \A k \in 1 .. n + 1 : k <= n + 1 /\ n + 1 \in 1 .. n + 1 /\ at[k] \in Nat
        BY <1>4
      <3> QED BY <1>6, <2>1, <3>1
    <2>3. CASE j = n + 1 + 1
      <3>1. i = j \/ i \in 1 .. n + 1
        BY <2>3
      <3> QED BY <1>5, <2>2, <2>3, <3>1
    <2>4. CASE j # n + 1 + 1
      <3>1. i \in 1 .. n + 1 /\ j \in 1 .. n + 1
        BY <1>8, <2>4
      <3> QED BY <1>5, <1>8, <2>1, <3>1
    <2> QED BY <2>3, <2>4
  <1>9. at2[1] = lo
    BY <1>5, <1>6
  <1>10. Marks(g, lo, hi + l, at2)
    BY <1>3, <1>5, <1>7, <1>8, <1>9 DEF Marks
  <1> QED BY <1>2, <1>3, <1>10 DEF Covers

LEMMA CoversTail ==
    ASSUME NEW f \in Seq(Events), NEW lo \in Nat, NEW hi \in Nat, Covers(f, lo, hi), f # <<>>
    PROVE  /\ Head(f).type = "TX" => Head(f).from = lo
           /\ lo + Head(f).length <= hi
           /\ Covers(Tail(f), lo + Head(f).length, hi)
  <1>1. PICK at \in Seq(Nat) : Marks(f, lo, hi, at)
    BY DEF Covers
  <1>2. PICK n \in Nat, h \in Events, g \in Seq(Events) :
           /\ Len(f) = n + 1 /\ h = Head(f) /\ h = f[1] /\ g = Tail(f) /\ Len(g) = n
           /\ \A i \in 1 .. n : g[i] = f[i + 1]
    <2>1. /\ Head(f) \in Events /\ Head(f) = f[1] /\ Tail(f) \in Seq(Events)
          /\ Len(Tail(f)) = Len(f) - 1 /\ Len(f) \in Nat \ {0}
          /\ \A i \in 1 .. Len(f) - 1 : Tail(f)[i] = f[i + 1]
      BY TailFacts
    <2>2. Len(f) - 1 \in Nat /\ Len(f) = (Len(f) - 1) + 1
      BY <2>1
    <2> QED BY <2>1, <2>2
  <1>3. PICK l \in Nat : l = h.length
    BY EventIs
  <1>4. Len(at) = n + 1 + 1 /\ at # <<>>
    BY <1>1, <1>2 DEF Marks
  <1>5. PICK at2 \in Seq(Nat) : Len(at2) = n + 1 /\ \A i \in 1 .. n + 1 : at2[i] = at[i + 1]
    <2>1. Tail(at) \in Seq(Nat) /\ Len(Tail(at)) = n + 1 /\ \A i \in 1 .. n + 1 : Tail(at)[i] = at[i + 1]
      BY <1>4, TailFacts
    <2> QED BY <2>1
  <1>6. 1 \in 1 .. n + 1 /\ at[1] = lo /\ at[n + 1 + 1] = hi
    BY <1>1, <1>2 DEF Marks
  <1>7. at2[1] = lo + l /\ (h.type = "TX" => h.from = lo)
    BY <1>1, <1>2, <1>3, <1>5, <1>6 DEF Marks
  <1>8. ASSUME NEW i \in 1 .. n
        PROVE  at2[i + 1] = at2[i] + g[i].length /\ (g[i].type = "TX" => g[i].from = at2[i])
    <2>1. i + 1 \in 1 .. n + 1 /\ i \in 1 .. n + 1
      OBVIOUS
    <2>2. /\ at[i + 1 + 1] = at[i + 1] + f[i + 1].length
          /\ f[i + 1].type = "TX" => f[i + 1].from = at[i + 1]
      BY <1>1, <1>2, <2>1 DEF Marks
    <2> QED BY <1>2, <1>5, <2>1, <2>2
  <1>9. ASSUME NEW i \in 1 .. n + 1, NEW j \in 1 .. n + 1, i <= j PROVE at2[i] <= at2[j]
    <2>1. i + 1 \in 1 .. n + 1 + 1 /\ j + 1 \in 1 .. n + 1 + 1 /\ i + 1 <= j + 1
      BY <1>9
    <2>2. at[i + 1] <= at[j + 1]
      BY <1>1, <1>2, <2>1 DEF Marks
    <2> QED BY <1>5, <2>2
  <1>10. at2[n + 1] = hi
    <2>1. n + 1 \in 1 .. n + 1
      OBVIOUS
    <2> QED BY <1>5, <1>6, <2>1
  <1>11. lo + l <= hi
    <2>1. 1 \in 1 .. n + 1 /\ n + 1 \in 1 .. n + 1 /\ 1 <= n + 1
      OBVIOUS
    <2> QED BY <1>7, <1>9, <1>10, <2>1
  <1>12. Marks(g, lo + l, hi, at2)
    BY <1>2, <1>5, <1>7, <1>8, <1>9, <1>10 DEF Marks
  <1> QED BY <1>2, <1>3, <1>7, <1>11, <1>12 DEF Covers

LEMMA CoversForward ==
    ASSUME NEW f, NEW lo \in Nat, NEW hi \in Nat, Len(f) \in Nat, Covers(f, lo, hi)
    PROVE  lo <= hi
  <1>1. PICK at \in Seq(Nat) : Marks(f, lo, hi, at)
    BY DEF Covers
  <1>2. 1 \in 1 .. Len(f) + 1 /\ Len(f) + 1 \in 1 .. Len(f) + 1 /\ 1 <= Len(f) + 1
    OBVIOUS
  <1>3. at[1] <= at[Len(f) + 1]
    BY <1>1, <1>2 DEF Marks
  <1> QED BY <1>1, <1>3 DEF Marks
-----------------------------------------------------------------------------
(* What a step keeps that leaves a part of the state alone, or moves it    *)
(* forward only.                                                           *)
LEMMA TypesKept ==
    /\ AppTypes /\ UNCHANGED <<established, accepted, appTable, pushes, write>> => AppTypes'
    /\ EventTypes /\ UNCHANGED <<finEvents, txEvents, appEvents, others>> => EventTypes'
    /\ SarTypes /\ UNCHANGED <<sar, tx, finReceived, hist>> => SarTypes'
    /\ NetTypes /\ UNCHANGED <<segments, replies, peer>> => NetTypes'
  BY DEF AppTypes, EventTypes, SarTypes, NetTypes, hist

LEMMA StreamKept ==
    /\ ChainInv /\ UNCHANGED <<tx, appEvents, txEvents, accepted, sar>> => ChainInv'
    /\ SarInv /\ UNCHANGED <<sar, tx, accepted, hist, peer>> => SarInv'
    /\ CopyInv /\ UNCHANGED <<accepted, appTable, pushes, write, sar, peer>> => CopyInv'
  BY DEF ChainInv, Taken, Sends, SarInv, CopyInv, Fits, hist

LEMMA NetKept ==
    /\ SegmentsInv /\ UNCHANGED <<segments, sar, hist, peer>> => SegmentsInv'
    /\ RepliesInv /\ UNCHANGED <<replies, peer>> => RepliesInv'
    /\ PeerInv /\ UNCHANGED <<peer, accepted, hist, sar>> => PeerInv'
  BY DEF SegmentsInv, Sound, RepliesInv, PeerInv, PeerGetsTheStream, FinComesBehind,
         AcceptedFitsWindow, hist

Forward ==
    /\ sar.not_ackd <= sar'.not_ackd /\ peer.next <= peer'.next
    /\ sar.finSent => sar'.finSent /\ finAt' = finAt

LEMMA SoundForward ==
    ASSUME SarTypes, SarTypes', NetTypes, NetTypes', Forward, NEW seg \in Segments, Sound(seg)
    PROVE  Sound(seg)'
  <1>1. PICK next \in Nat, next1 \in Nat, not_ackd \in Nat, not_ackd1 \in Nat :
           /\ next = peer.next /\ next1 = peer'.next /\ next <= next1
           /\ not_ackd = sar.not_ackd /\ not_ackd1 = sar'.not_ackd /\ not_ackd <= not_ackd1
    BY DEF SarTypes, NetTypes, Peers, Forward
  <1>2. seg.seq \in Nat /\ Len(seg.data) \in Nat /\ \A k \in DOMAIN seg.data : k \in Nat
    BY DEF Segments
  <1>3. seg.fin => sar'.finSent /\ finAt' <= seg.seq /\ seg.data = <<>>
    BY DEF Sound, Forward
  <1>4. \A k \in DOMAIN seg.data :
           \/ seg.data[k] = seg.seq + k - 1
           \/ seg.seq + k - 1 < next1
           \/ sar'.finSent /\ finAt' <= seg.seq + k - 1
    <2> SUFFICES ASSUME NEW k \in DOMAIN seg.data, seg.data[k] # seg.seq + k - 1
                 PROVE  seg.seq + k - 1 < next1 \/ (sar'.finSent /\ finAt' <= seg.seq + k - 1)
      OBVIOUS
    <2>1. seg.seq + k - 1 < next \/ (sar.finSent /\ finAt <= seg.seq + k - 1)
      BY <1>1 DEF Sound
    <2> QED BY <1>1, <1>2, <2>1 DEF Forward
  <1>5. ~sar'.finSent => seg.seq + Len(seg.data) <= not_ackd1
    <2>1. ~sar'.finSent => seg.seq + Len(seg.data) <= not_ackd
      BY <1>1 DEF Sound, Forward
    <2> QED BY <1>1, <1>2, <2>1
  <1> QED BY <1>1, <1>3, <1>4, <1>5 DEF Sound

LEMMA SegmentsForward ==
    ASSUME SarTypes, SarTypes', NetTypes, NetTypes', Forward, SegmentsInv,
           \A i \in DOMAIN segments' : \E j \in DOMAIN segments : segments'[i] = segments[j]
    PROVE  SegmentsInv'
  <1>1. \A j \in DOMAIN segments : segments[j] \in Segments
    BY DEF NetTypes
  <1>2. ASSUME NEW i \in DOMAIN segments' PROVE \E seg \in Segments : seg = segments'[i] /\ Sound(seg)'
    <2>1. PICK seg \in Segments : seg = segments'[i] /\ Sound(seg)
      BY <1>1, <1>2 DEF SegmentsInv
    <2>2. Sound(seg)'
      BY <2>1, SoundForward
    <2> QED BY <2>1, <2>2
  <1> QED BY <1>2 DEF SegmentsInv, Sound
-----------------------------------------------------------------------------
(* The steps of the application's side.                                    *)

(* The steps of tx_app_table and READ_REQUEST concern the copies only.     *)
LEMMA CopyStep ==
    ASSUME IInv, AppTypes', CopyInv', UNCHANGED accepted,
           UNCHANGED <<finEvents, txEvents, appEvents, others, sar, tx, finReceived, hist, net>>
    PROVE  IInv'
  <1>1. UNCHANGED <<segments, replies, peer>>
    BY DEF net
  <1> QED BY <1>1, TypesKept, StreamKept, NetKept DEF IInv, TypeOK

LEMMA ApplyPushStep ==
    ASSUME IInv, ApplyPush
    PROVE  IInv'
  <1>0. AppTypes /\ CopyInv
    BY DEF IInv, TypeOK
  <1>1. /\ pushes' \in Seq(Pushes) /\ Len(pushes') = Len(pushes) - 1 /\ Len(pushes) \in Nat \ {0}
        /\ \A i \in 1 .. Len(pushes) - 1 : pushes'[i] = pushes[i + 1]
        /\ pushes[1] \in Pushes /\ Head(pushes) = pushes[1]
    BY <1>0, TailFacts DEF ApplyPush, AppTypes
  <1>2. /\ \A i \in DOMAIN pushes' : i + 1 \in DOMAIN pushes /\ 1 < i + 1 /\ pushes'[i] = pushes[i + 1]
        /\ 1 \in DOMAIN pushes
        /\ \A i, j \in DOMAIN pushes' : i < j => i + 1 < j + 1
    BY <1>1
  <1>3. PICK p \in Pushes : p = pushes[1] /\ p.ackd \in Nat /\ p.min_window \in Nat
    BY <1>1 DEF Pushes
  <1>4. appTable' = [appTable EXCEPT !.ackd = p.ackd, !.min_window = p.min_window]
    BY <1>1, <1>3 DEF ApplyPush
  <1>5. appTable' \in Copies /\ appTable'.ackd = p.ackd /\ appTable'.min_window = p.min_window
          /\ appTable'.mempt = appTable.mempt
    BY <1>0, <1>3, <1>4 DEF AppTypes, Copies
  <1>6. UNCHANGED <<established, accepted, write, sar, peer>>
    BY DEF ApplyPush, net
  <1>7. AppTypes'
    BY <1>0, <1>1, <1>5, <1>6 DEF AppTypes
  <1>8. CopyInv'
    <2>1. PICK a \in Nat, n \in Nat : a = appTable.ackd /\ n = accepted
      BY <1>0 DEF AppTypes, Copies
    <2>2. /\ Fits(p) /\ a <= p.ackd /\ p.ackd <= sar.ackd
          /\ n - a < Window /\ appTable.mempt = n
      BY <1>0, <1>2, <1>3, <2>1 DEF CopyInv
    <2>3. n - p.ackd < Window
      BY <1>3, <2>2, WindowIs
    <2>4. \A i \in DOMAIN pushes' : /\ Fits(pushes'[i]) /\ p.ackd <= pushes'[i].ackd
                                    /\ pushes'[i].ackd <= sar.ackd
      BY <1>0, <1>2, <1>3 DEF CopyInv
    <2>5. \A i, j \in DOMAIN pushes' : i < j => pushes'[i].ackd <= pushes'[j].ackd
      BY <1>0, <1>2 DEF CopyInv
    <2>6. ASSUME write # None, write.table # None
          PROVE  /\ write.table.mempt = n /\ n - write.table.ackd < Window
                 /\ Fits(write.table) /\ write.table.ackd <= p.ackd
      <3>1. write.table.ackd \in Nat
        BY <1>0, <2>6 DEF AppTypes, Writes, Copies
      <3> QED BY <1>0, <1>3, <2>1, <2>2, <2>6, <3>1 DEF CopyInv
    <2>7. Fits(appTable')
      BY <1>5, <2>2 DEF Fits
    <2> QED BY <1>5, <1>6, <2>1, <2>2, <2>3, <2>4, <2>5, <2>6, <2>7 DEF CopyInv, Fits
  <1> QED BY <1>6, <1>7, <1>8, CopyStep DEF ApplyPush

LEMMA AnswerQueryStep ==
    ASSUME IInv, AnswerQuery
    PROVE  IInv'
  <1>0. AppTypes /\ CopyInv
    BY DEF IInv, TypeOK
  <1>1. write \in Writes /\ write' = [write EXCEPT !.table = appTable]
    BY <1>0 DEF AnswerQuery, AppTypes
  <1>2. write' \in Writes /\ write'.table = appTable
    BY <1>0, <1>1 DEF AppTypes, Writes
  <1>3. UNCHANGED <<established, accepted, appTable, pushes, sar, peer>>
    BY DEF AnswerQuery, net
  <1>4. AppTypes'
    BY <1>0, <1>2, <1>3 DEF AppTypes
  <1>5. CopyInv'
    <2>1. appTable.ackd \in Nat
      BY <1>0 DEF AppTypes, Copies
    <2> QED BY <1>0, <1>2, <1>3, <2>1 DEF CopyInv, Fits
  <1> QED BY <1>3, <1>4, <1>5, CopyStep DEF AnswerQuery

LEMMA ReadRequestStep ==
    ASSUME IInv, Write
    PROVE  IInv'
  <1>0. AppTypes /\ CopyInv
    BY DEF IInv, TypeOK
  <1>1. PICK length \in Lengths : ReadRequest(length)
    BY DEF Write
  <1>2. write' = [length |-> length, table |-> None]
    BY <1>1 DEF ReadRequest
  <1>3. write' \in Writes /\ write'.table = None
    BY <1>2 DEF Writes
  <1>4. UNCHANGED <<established, accepted, appTable, pushes, sar, peer>>
    BY <1>1 DEF ReadRequest, net
  <1>5. AppTypes'
    BY <1>0, <1>3, <1>4 DEF AppTypes
  <1>6. CopyInv'
    BY <1>0, <1>3, <1>4 DEF CopyInv, Fits
  <1> QED BY <1>1, <1>4, <1>5, <1>6, CopyStep DEF ReadRequest

(* What READ_META accepts: now + n is behind the window of the peer        *)
(* neither if the copy is behind what was accepted nor if the FINs have    *)
(* taken it past it.                                                       *)
LEMMA AcceptedFits ==
    ASSUME NEW t \in Copies, NEW n \in 1 .. Window - 1, NEW now \in Nat, NEW edge \in Nat,
           t.mempt = now, now - t.ackd < Window, t.ackd <= edge + 1,
           t.min_window > 0 => t.ackd + t.min_window <= edge,
           n <= UsableWindow(t), n <= MaxWriteLength(t)
    PROVE  now + n <= edge /\ now + n - t.ackd < Window
  <1>1. PICK a \in Nat, w \in Nat, W \in Nat \ {0} : a = t.ackd /\ w = t.min_window /\ W = Window
    BY WindowIs DEF Copies
  <1>2. n \in Nat /\ n > 0
    BY WindowIs
  <1>3. CASE a <= now
    <2>1. PICK u \in 0 .. W - 1 : u = now - a
      BY <1>1, <1>3
    <2>2. u % W = u /\ (a - now - 1) % W = W - 1 - u
      <3>1. now - a < W /\ now \in Int /\ a \in Int /\ u % W = u
        BY <2>1
      <3>2. PICK v \in Int, k \in Int, r \in 0 .. W - 1 :
               v = a - now - 1 /\ k = -1 /\ r = W - 1 - u /\ v = W * k + r
        BY <2>1
      <3>3. v \in Int /\ k \in Int /\ r \in 0 .. W - 1 /\ v = W * k + r
        BY <3>2
      <3>4. v % W = r
        BY <3>3, ModIs
      <3> QED BY <3>1, <3>2, <3>4
    <2>3. n <= W - 1 - u
      BY <1>1, <2>2 DEF MaxWriteLength
    <2>4. w > u /\ n <= w - u
      <3>1. n <= IF w > u THEN w - u ELSE 0
        BY <1>1, <2>1, <2>2 DEF UsableWindow
      <3> QED BY <1>2, <2>1, <3>1
    <2> QED BY <1>1, <1>2, <2>1, <2>3, <2>4
  <1>4. CASE a > now
    <2>1. PICK d \in Nat : d = a - now - 1
      BY <1>1, <1>4
    <2>2. PICK m \in 0 .. W - 1 : m = d % W /\ n <= m
      <3>1. n <= d % W /\ d \in Int
        BY <1>1, <2>1 DEF MaxWriteLength
      <3> QED BY <3>1, ModFacts
    <2>3. m <= d
      <3>1. PICK q \in Int, r \in 0 .. W - 1 : d = W * q + r /\ r = m
        <4>1. d \in Int
          OBVIOUS
        <4>2. d = W * (d \div W) + (d % W) /\ d \div W \in Int
          BY <4>1, ModFacts
        <4> QED BY <2>2, <4>2
      <3>2. q >= 0
        <4>1. q <= -1 => W * q <= W * (-1)
          OBVIOUS
        <4> QED BY <3>1, <4>1
      <3>3. W * q >= 0
        BY <3>2
      <3> QED BY <3>1, <3>3
    <2>4. now + n <= a - 1
      BY <1>1, <1>2, <2>1, <2>2, <2>3
    <2> QED BY <1>1, <1>2, <2>4
  <1> QED BY <1>1, <1>3, <1>4

LEMMA ReadMetaStep ==
    ASSUME IInv, ReadMeta
    PROVE  IInv'
  <1>0. AppTypes /\ EventTypes /\ SarTypes /\ NetTypes /\ CopyInv /\ ChainInv /\ SarInv /\ PeerInv
    BY DEF IInv, TypeOK
  <1>1. CASE ~(write.length <= UsableWindow(write.table) /\ write.length <= MaxWriteLength(write.table))
    <2>1. UNCHANGED <<txEvents, appTable, accepted, established, pushes, sar, peer>> /\ write' = None
      BY <1>1 DEF ReadMeta, net
    <2>2. AppTypes' /\ CopyInv'
      BY <1>0, <2>1 DEF AppTypes, CopyInv, Fits
    <2> QED BY <2>1, <2>2, CopyStep DEF ReadMeta
  <1>2. CASE write.length <= UsableWindow(write.table) /\ write.length <= MaxWriteLength(write.table)
    <2>1. PICK n \in 1 .. Window - 1, t \in Copies, now \in Nat, later \in Nat :
              /\ n = write.length /\ t = write.table /\ now = accepted /\ later = now + n
      <3>1. write.length \in 1 .. Window - 1 /\ write.table \in Copies /\ accepted \in Nat
        BY <1>0, WindowIs DEF ReadMeta, AppTypes, Writes
      <3>2. accepted + write.length \in Nat
        BY <3>1
      <3> QED BY <3>1, <3>2
    <2>2. /\ accepted' = later /\ write' = None
          /\ txEvents' = Append(txEvents, [type |-> "TX", from |-> now, length |-> n, again |-> FALSE])
          /\ appTable' = [appTable EXCEPT !.mempt = t.mempt + n]
      BY <1>2, <2>1 DEF ReadMeta
    <2>3. UNCHANGED <<established, pushes, finEvents, appEvents, others, sar, tx, finReceived, hist,
                      segments, replies, peer>>
      BY DEF ReadMeta, net
    <2>4. PICK edge \in Nat, next \in Nat : edge = peer.edge /\ next = peer.next
      BY <1>0 DEF NetTypes, Peers
    <2>5. PICK ackd \in Nat, a \in Nat, k \in Nat :
             ackd = sar.ackd /\ a = appTable.ackd /\ k = t.ackd
      BY <1>0 DEF SarTypes, AppTypes, Copies
    <2>6. /\ t.mempt = now /\ now - k < Window /\ k <= a /\ a <= ackd
          /\ t.min_window > 0 => k + t.min_window <= edge
          /\ appTable.mempt = now /\ Fits(appTable)
      BY <1>0, <2>1, <2>4, <2>5 DEF CopyInv, ReadMeta, Fits
    <2>7. ackd <= next /\ next <= edge + 1
      <3>1. next = Len(peer.got) + OneIf(peer.finished) /\ Len(peer.got) <= edge
            /\ Len(peer.got) \in Nat /\ OneIf(peer.finished) \in 0 .. 1
        BY <1>0, <2>4 DEF PeerInv, NetTypes, Peers, OneIf
      <3> QED BY <1>0, <2>4, <2>5, <3>1 DEF SarInv
    <2>8. later <= edge /\ later - k < Window
      <3>1. k <= edge + 1
        BY <2>6, <2>7
      <3>2. n <= UsableWindow(t) /\ n <= MaxWriteLength(t)
        BY <1>2, <2>1
      <3>3. now + n <= edge /\ now + n - t.ackd < Window
        BY <2>5, <2>6, <3>1, <3>2, AcceptedFits
      <3> QED BY <2>1, <2>5, <3>3
    <2>9. appTable' \in Copies /\ appTable'.ackd = a /\ appTable'.mempt = later
          /\ appTable'.min_window = appTable.min_window
      <3>1. appTable' = [appTable EXCEPT !.mempt = later]
        BY <2>1, <2>2, <2>6
      <3> QED BY <1>0, <2>5, <3>1 DEF AppTypes, Copies
    <2>10. AppTypes'
      BY <1>0, <2>1, <2>2, <2>3, <2>9 DEF AppTypes
    <2>11. PICK e \in TxEvents : /\ e = [type |-> "TX", from |-> now, length |-> n, again |-> FALSE]
                                 /\ e.type = "TX" /\ e.from = now /\ e.length = n
      <3>1. n \in Nat
        BY WindowIs
      <3>2. [type |-> "TX", from |-> now, length |-> n, again |-> FALSE] \in TxEvents
        BY <3>1 DEF Events, TxEvents
      <3> QED BY <3>2
    <2>12. EventTypes'
      <3>1. txEvents' \in Seq(TxEvents)
        BY <1>0, <2>2, <2>11, AppendFacts DEF EventTypes
      <3> QED BY <1>0, <2>3, <3>1 DEF EventTypes
    <2>13. ChainInv'
      <3> SUFFICES ASSUME ~sar'.finSent PROVE ChainInv'
        BY DEF ChainInv
      <3>1. PICK merged \in Nat : Covers(appEvents, Taken, merged) /\ Covers(txEvents, merged, accepted)
        BY <1>0, <2>3 DEF ChainInv
      <3>2. txEvents \in Seq(Events) /\ e \in Events
        BY <1>0, EventIs DEF EventTypes
      <3>3. Covers(txEvents', merged, accepted')
        BY <2>1, <2>2, <2>11, <3>1, <3>2, CoversAppend
      <3>4. UNCHANGED <<Taken, tx, sar, appEvents>>
        BY <2>3 DEF Taken, Sends
      <3> QED BY <1>0, <3>1, <3>3, <3>4 DEF ChainInv, Sends
    <2>14. CopyInv'
      <3>1. later - a < Window
        BY <2>6, <2>8, WindowIs
      <3>2. Fits(appTable')
        BY <2>5, <2>6, <2>9 DEF Fits
      <3> QED BY <1>0, <2>2, <2>3, <2>5, <2>6, <2>9, <3>1, <3>2 DEF CopyInv, Fits
    <2>15. SarInv'
      BY <1>0, <2>1, <2>2, <2>3 DEF SarInv, Sends, hist, SarTypes
    <2>16. PeerInv'
      BY <1>0, <2>2, <2>3, <2>4, <2>8 DEF PeerInv, PeerGetsTheStream, FinComesBehind,
                                          AcceptedFitsWindow, hist
    <2> QED BY <2>3, <2>10, <2>12, <2>13, <2>14, <2>15, <2>16, TypesKept, NetKept DEF IInv, TypeOK
  <1> QED BY <1>1, <1>2

LEMMA CloseStep ==
    ASSUME IInv, CloseConnection
    PROVE  IInv'
  <1>0. AppTypes /\ EventTypes
    BY DEF IInv, TypeOK
  <1>1. /\ UNCHANGED <<appTable, pushes, write, txEvents, accepted, appEvents, others, sar, tx,
                       finReceived, hist, segments, replies, peer>>
        /\ established' = FALSE /\ finEvents' = Append(finEvents, Fin)
    BY DEF CloseConnection, app, net
  <1>2. finEvents' \in Seq({Fin})
    BY <1>0, <1>1, AppendFacts DEF EventTypes
  <1>3. AppTypes' /\ EventTypes'
    BY <1>0, <1>1, <1>2 DEF AppTypes, EventTypes
  <1> QED BY <1>1, <1>3, TypesKept, StreamKept, NetKept DEF IInv, TypeOK

LEMMA MergerStep ==
    ASSUME IInv, txEventMerger
    PROVE  IInv'
  <1>0. EventTypes /\ AppTypes /\ SarTypes /\ ChainInv
    BY DEF IInv, TypeOK
  <1>1. UNCHANGED <<established, appTable, pushes, write, accepted, others, sar, tx, finReceived, hist,
                    segments, replies, peer>>
    BY DEF txEventMerger, net
  <1>2. appEvents \in Seq(Events) /\ txEvents \in Seq(Events)
    BY <1>0, EventIs DEF EventTypes
  <1>3. UNCHANGED <<Taken, Sends("TX")>>
    BY <1>1 DEF Taken, Sends
  <1>4. Taken \in Nat
    BY <1>0, EventIs DEF Taken, Sends, SarTypes, Transmissions
  <1>5. ASSUME EventTypes', ChainInv' PROVE IInv'
    BY <1>1, <1>5, TypesKept, StreamKept, NetKept DEF IInv, TypeOK
  <1>6. CASE finEvents # <<>>
    <2>1. /\ finEvents' = Tail(finEvents) /\ UNCHANGED txEvents /\ Head(finEvents) = Fin
          /\ Tail(finEvents) \in Seq({Fin})
      <3>1. Head(finEvents) \in {Fin} /\ Tail(finEvents) \in Seq({Fin})
        BY <1>0, <1>6, TailFacts DEF EventTypes
      <3> QED BY <1>6, <3>1 DEF txEventMerger
    <2>2. appEvents' = Append(appEvents, Fin)
      BY <1>6, <2>1 DEF txEventMerger
    <2>3. appEvents' \in Seq(TxEvents \cup {Fin})
      BY <1>0, <2>2, AppendFacts DEF EventTypes
    <2>4. EventTypes'
      BY <1>0, <1>1, <2>1, <2>3 DEF EventTypes
    <2>5. ChainInv'
      <3> SUFFICES ASSUME ~sar'.finSent PROVE ChainInv'
        BY DEF ChainInv
      <3>1. PICK merged \in Nat : Covers(appEvents, Taken, merged) /\ Covers(txEvents, merged, accepted)
        BY <1>0, <1>1 DEF ChainInv
      <3>2. Covers(Append(appEvents, Fin), Taken, merged + Fin.length)
        BY <1>2, <1>4, <3>1, CoversAppend, EventIs
      <3>3. Covers(appEvents', Taken, merged)
        BY <2>2, <3>2, EventIs
      <3> QED BY <1>0, <1>1, <1>3, <2>1, <3>1, <3>3 DEF ChainInv, Sends
    <2> QED BY <1>5, <2>4, <2>5
  <1>7. CASE finEvents = <<>>
    <2>1. txEvents # <<>> /\ UNCHANGED finEvents
      BY <1>7 DEF txEventMerger
    <2>2. PICK e \in TxEvents : e = Head(txEvents) /\ e.type = "TX" /\ Tail(txEvents) \in Seq(TxEvents)
      <3>1. Head(txEvents) \in TxEvents /\ Tail(txEvents) \in Seq(TxEvents)
        BY <1>0, <2>1, TailFacts DEF EventTypes
      <3> QED BY <3>1 DEF TxEvents
    <2>3. txEvents' = Tail(txEvents) /\ appEvents' = Append(appEvents, e)
      BY <1>7, <2>2 DEF txEventMerger
    <2>4. appEvents' \in Seq(TxEvents \cup {Fin})
      BY <1>0, <2>3, AppendFacts DEF EventTypes
    <2>5. EventTypes'
      BY <1>0, <1>1, <2>1, <2>2, <2>3, <2>4 DEF EventTypes
    <2>6. ChainInv'
      <3> SUFFICES ASSUME ~sar'.finSent PROVE ChainInv'
        BY DEF ChainInv
      <3>1. PICK merged \in Nat : Covers(appEvents, Taken, merged) /\ Covers(txEvents, merged, accepted)
        BY <1>0, <1>1 DEF ChainInv
      <3>2. e \in Events /\ e.length \in Nat /\ accepted \in Nat /\ merged + e.length \in Nat
        <4>1. e \in Events /\ e.length \in Nat /\ accepted \in Nat
          BY <1>0, EventIs DEF AppTypes
        <4> QED BY <4>1
      <3>3. e.from = merged /\ Covers(Tail(txEvents), merged + e.length, accepted)
        BY <1>2, <2>1, <2>2, <3>1, <3>2, CoversTail
      <3>4. Covers(appEvents', Taken, merged + e.length)
        BY <1>2, <1>4, <2>3, <3>1, <3>2, <3>3, CoversAppend
      <3> QED BY <1>0, <1>1, <1>3, <2>3, <3>2, <3>3, <3>4 DEF ChainInv, Sends
    <2> QED BY <1>5, <2>5, <2>6
  <1> QED BY <1>6, <1>7
-----------------------------------------------------------------------------
(* The steps of the TX engine.                                             *)

(* txEng_metaLoader takes an event.                                        *)
LEMMA BeginStep ==
    ASSUME IInv, EventTypes', NEW event \in OtherEvents \cup TxEvents \cup {Fin}, Begin(event),
           UNCHANGED appEvents \/ (appEvents # <<>> /\ event = Head(appEvents) /\ appEvents' = Tail(appEvents)),
           event.type = "TX" => appEvents # <<>> /\ event = Head(appEvents) /\ appEvents' = Tail(appEvents)
    PROVE  IInv'
  <1>0. SarTypes /\ SarInv /\ AppTypes /\ EventTypes /\ ChainInv
    BY DEF IInv, TypeOK
  <1>1. /\ tx = None /\ tx' = ReadSar(event)
        /\ UNCHANGED <<established, appTable, pushes, write, txEvents, accepted, finEvents, sar,
                       finReceived, hist, segments, replies, peer>>
    BY DEF Begin, app, net
  <1>2. PICK ackd \in Nat, not_ackd \in Nat : ackd = sar.ackd /\ not_ackd = sar.not_ackd /\ ackd <= not_ackd
    BY <1>0 DEF SarTypes, SarInv
  <1>3. PICK left \in Nat : /\ left = UsedLengthRst
                            /\ ~sar.finSent => left <= not_ackd - ackd
    <2>1. PICK d \in Int : /\ d = not_ackd - ackd - (IF sar.finSent THEN 1 ELSE 0)
                           /\ UsedLengthRst = d % Window
      BY <1>2 DEF UsedLengthRst
    <2>2. d % Window \in 0 .. Window - 1 /\ d = Window * (d \div Window) + (d % Window)
          /\ d \div Window \in Int
      BY WindowIs, ModFacts
    <2>5. PICK W \in Nat \ {0} : W = Window
      BY WindowIs
    <2>3. PICK q \in Int, m \in 0 .. W - 1 : m = d % Window /\ d = W * q + m
      BY <2>2, <2>5
    <2>4. ~sar.finSent => m <= d
      <3>1. ~sar.finSent => d >= 0
        BY <1>2, <2>1
      <3>2. d >= 0 => q >= 0
        <4>1. q <= -1 => W * q <= W * (-1)
          OBVIOUS
        <4> QED BY <2>3, <4>1
      <3>3. q >= 0 => W * q >= 0
        OBVIOUS
      <3> QED BY <2>3, <3>1, <3>2, <3>3
    <2> QED BY <1>2, <2>1, <2>3, <2>4
  <1>4. event \in Events
    BY EventIs
  <1>5. PICK k \in Nat, l \in Nat : /\ k = IF event.type = "RT" THEN ackd ELSE 0
                                    /\ l = IF event.type = "RT" THEN left ELSE 0
    BY <1>2, <1>3
  <1>6. tx' = [event |-> event, not_ackd |-> not_ackd, finSent |-> sar.finSent, segments |-> 0,
               ackd |-> k, left |-> l]
    BY <1>1, <1>2, <1>3, <1>5 DEF ReadSar
  <1>7. /\ tx' \in Transmissions /\ tx' # None /\ tx'.event = event
        /\ tx'.not_ackd = sar.not_ackd /\ tx'.finSent = sar.finSent /\ tx'.ackd = k /\ tx'.left = l
    <2>1. tx' \in Transmissions
      BY <1>0, <1>4, <1>6 DEF SarTypes, Transmissions
    <2> QED BY <1>2, <1>6, <2>1, NoTransmissionAssumption
  <1>8. SarTypes'
    BY <1>0, <1>1, <1>7 DEF SarTypes, hist
  <1>9. event.type = "FIN" => ~event.again
    BY EventIs DEF OtherEvents, TxEvents
  <1>10. SarInv'
    <2>1. event.type = "RT" /\ ~sar.finSent => k + l <= not_ackd
      BY <1>2, <1>3, <1>5
    <2> QED BY <1>0, <1>1, <1>2, <1>7, <1>9, <2>1 DEF SarInv, Sends, hist
  <1>11. ChainInv'
    <2> SUFFICES ASSUME ~sar'.finSent PROVE ChainInv'
      BY DEF ChainInv
    <2>1. Taken = not_ackd /\ Taken' = IF event.type = "TX" THEN not_ackd + event.length ELSE not_ackd
      BY <1>1, <1>2, <1>7 DEF Taken, Sends
    <2>2. PICK merged \in Nat : Covers(appEvents, not_ackd, merged) /\ Covers(txEvents, merged, accepted)
      BY <1>0, <1>1, <2>1 DEF ChainInv
    <2>3. CASE appEvents # <<>> /\ event = Head(appEvents) /\ appEvents' = Tail(appEvents)
      <3>1. appEvents \in Seq(Events)
        BY <1>0, EventIs DEF EventTypes
      <3>2. /\ event.type = "TX" => event.from = not_ackd
            /\ Covers(appEvents', not_ackd + event.length, merged)
        BY <2>2, <2>3, <3>1, CoversTail
      <3>3. event.type # "TX" => event.length = 0
        <4>1. event \in TxEvents \cup {Fin}
          BY <1>0, <2>3, TailFacts DEF EventTypes
        <4> QED BY <4>1, EventIs DEF TxEvents
      <3>4. Covers(appEvents', Taken', merged)
        BY <2>1, <3>2, <3>3
      <3> QED BY <1>1, <1>2, <1>7, <2>2, <3>2, <3>4 DEF ChainInv, Sends
    <2>4. CASE UNCHANGED appEvents /\ event.type # "TX"
      BY <1>1, <1>7, <2>1, <2>2, <2>4 DEF ChainInv, Sends
    <2> QED BY <2>3, <2>4
  <1>12. CopyInv'
    BY <1>1, StreamKept DEF IInv
  <1> QED BY <1>1, <1>8, <1>10, <1>11, <1>12, TypesKept, NetKept DEF IInv, TypeOK

LEMMA TakeStep ==
    ASSUME IInv, TakeAppEvent \/ TakeOtherEvent
    PROVE  IInv'
  <1>0. EventTypes
    BY DEF IInv, TypeOK
  <1>1. CASE TakeAppEvent
    <2>1. /\ appEvents # <<>> /\ Begin(Head(appEvents)) /\ appEvents' = Tail(appEvents)
          /\ UNCHANGED <<others, finEvents, txEvents>>
      BY <1>1 DEF TakeAppEvent, Begin, app
    <2>2. Head(appEvents) \in TxEvents \cup {Fin} /\ appEvents' \in Seq(TxEvents \cup {Fin})
      BY <1>0, <2>1, TailFacts DEF EventTypes
    <2>3. EventTypes'
      BY <1>0, <2>1, <2>2 DEF EventTypes
    <2> QED BY <2>1, <2>2, <2>3, BeginStep
  <1>2. CASE TakeOtherEvent
    <2>1. /\ others # <<>> /\ Begin(Head(others)) /\ others' = Tail(others)
          /\ UNCHANGED <<appEvents, finEvents, txEvents>>
      BY <1>2 DEF TakeOtherEvent, Begin, app
    <2>2. Head(others) \in OtherEvents \cup {Fin} /\ others' \in Seq(OtherEvents \cup {Fin})
      BY <1>0, <2>1, TailFacts DEF EventTypes
    <2>3. EventTypes'
      BY <1>0, <2>1, <2>2 DEF EventTypes
    <2>4. Head(others).type # "TX"
      BY <2>2, EventIs DEF OtherEvents
    <2> QED BY <2>1, <2>2, <2>3, <2>4, BeginStep
  <1> QED BY <1>1, <1>2

(* A step that puts a sound segment on the network.                        *)
LEMMA TransmitStep ==
    ASSUME IInv, NEW seq \in Nat, NEW data \in Seq(Int), NEW fin \in BOOLEAN,
           Transmit(seq, data, fin), SarTypes', SarInv', ChainInv', Forward, sar'.ackd = sar.ackd,
           Sound([seq |-> seq, data |-> data, fin |-> fin])',
           PeerGetsTheStream', FinComesBehind'
    PROVE  IInv'
  <1>0. NetTypes /\ SegmentsInv /\ SarTypes /\ CopyInv /\ PeerInv
    BY DEF IInv, TypeOK
  <1>1. UNCHANGED <<established, appTable, pushes, write, txEvents, accepted, finEvents, appEvents,
                    others, finReceived, replies, peer>>
    BY DEF Transmit, app
  <1>2. PICK seg \in Segments : seg = [seq |-> seq, data |-> data, fin |-> fin] /\ Sound(seg)'
    <2>1. [seq |-> seq, data |-> data, fin |-> fin] \in Segments
      BY DEF Segments
    <2> QED BY <2>1 DEF Sound
  <1>3. segments' = IF peer.finished THEN <<>> ELSE Carry(segments, SegmentDepth, seg)
    BY <1>2 DEF Transmit
  <1>4. /\ segments' \in Seq(Segments)
        /\ \A i \in DOMAIN segments' : segments'[i] = seg \/ \E j \in DOMAIN segments : segments'[i] = segments[j]
    <2>1. /\ Carry(segments, SegmentDepth, seg) \in Seq(Segments)
          /\ \A i \in DOMAIN Carry(segments, SegmentDepth, seg) :
                \/ Carry(segments, SegmentDepth, seg)[i] = seg
                \/ \E j \in DOMAIN segments : Carry(segments, SegmentDepth, seg)[i] = segments[j]
      BY <1>0, WindowIs, CarryFacts DEF NetTypes
    <2>2. CASE peer.finished
      BY <1>3, <2>2
    <2>3. CASE ~peer.finished
      BY <1>3, <2>1, <2>3
    <2> QED BY <2>2, <2>3
  <1>5. NetTypes'
    BY <1>0, <1>1, <1>4 DEF NetTypes
  <1>6. SegmentsInv'
    <2>1. ASSUME NEW i \in DOMAIN segments'
          PROVE  \E s \in Segments : s = segments'[i] /\ Sound(s)'
      <3>1. CASE segments'[i] = seg
        BY <1>2, <3>1
      <3>2. CASE \E j \in DOMAIN segments : segments'[i] = segments[j]
        <4>1. PICK s \in Segments : s = segments'[i] /\ Sound(s)
          BY <1>0, <3>2 DEF NetTypes, SegmentsInv
        <4>2. Sound(s)'
          BY <1>0, <1>5, <4>1, SoundForward
        <4> QED BY <4>1, <4>2
      <3> QED BY <1>4, <3>1, <3>2
    <2> QED BY <2>1 DEF SegmentsInv, Sound
  <1>7. CopyInv'
    BY <1>0, <1>1 DEF CopyInv, Fits
  <1>8. PeerInv'
    <2>1. peer.next \in Nat /\ sar.not_ackd \in Nat /\ sar'.not_ackd \in Nat
      BY <1>0 DEF NetTypes, Peers, SarTypes
    <2>2. ~sar'.finSent => peer'.next <= sar'.not_ackd
      BY <1>0, <1>1, <2>1 DEF PeerInv, Forward
    <2> QED BY <1>0, <1>1, <2>2 DEF PeerInv, AcceptedFitsWindow
  <1> QED BY <1>1, <1>5, <1>6, <1>7, <1>8, TypesKept, NetKept DEF IInv, TypeOK

LEMMA SendNewStep ==
    ASSUME IInv, SendNew
    PROVE  IInv'
  <1>0. SarTypes /\ EventTypes /\ NetTypes /\ SarInv /\ ChainInv /\ PeerInv
    BY DEF IInv, TypeOK
  <1>1. PICK e \in Events, seq \in Nat, n \in Nat, from \in Nat :
           /\ e = tx.event /\ seq = tx.not_ackd /\ seq = sar.not_ackd /\ n = e.length /\ from = e.from
           /\ e.type = "TX" /\ tx # None
    BY <1>0, EventIs DEF SendNew, SarTypes, Transmissions, SarInv
  <1>2. PICK data \in Seq(Int) : /\ data = [k \in 1 .. n |-> from + k - 1] /\ Len(data) = n
                                 /\ DOMAIN data = 1 .. n /\ \A k \in 1 .. n : data[k] = from + k - 1
    <2>1. \A k \in 1 .. n : from + k - 1 \in Int
      OBVIOUS
    <2>2. [k \in 1 .. n |-> from + k - 1] \in Seq(Int) /\ Len([k \in 1 .. n |-> from + k - 1]) = n
      BY <2>1
    <2> QED BY <2>2
  <1>3. /\ Transmit(seq, data, FALSE) /\ tx' = None /\ UNCHANGED <<finAt, fins>>
        /\ sar' = [sar EXCEPT !.not_ackd = seq + n, !.finSent = sar.finSent]
    <2>1. PICK f \in BOOLEAN : f = sar.finSent
      BY <1>0 DEF SarTypes
    <2>2. (f \/ FALSE) = f
      BY <2>1
    <2>3. /\ Transmit(seq, data, FALSE) /\ tx' = None /\ UNCHANGED <<finAt, fins>>
          /\ sar' = [sar EXCEPT !.not_ackd = seq + n, !.finSent = f \/ FALSE]
      BY <1>1, <1>2, <2>1 DEF SendNew, UpdateSar, hist
    <2> QED BY <2>1, <2>2, <2>3
  <1>4. /\ sar'.ackd = sar.ackd /\ sar'.not_ackd = seq + n /\ sar'.finSent = sar.finSent /\ seq + n \in Nat
        /\ sar' \in [ackd : Nat, not_ackd : Nat, finSent : BOOLEAN]
    <2>1. seq + n \in Nat
      OBVIOUS
    <2> QED BY <1>0, <1>3, <2>1 DEF SarTypes
  <1>5. UNCHANGED <<accepted, peer, finReceived, appEvents, txEvents>>
    BY <1>3 DEF Transmit, app
  <1>6. SarTypes'
    BY <1>0, <1>3, <1>4, <1>5 DEF SarTypes, hist
  <1>7. SarInv'
    <2>1. sar.ackd \in Nat /\ finAt \in Nat
      BY <1>0 DEF SarTypes
    <2> QED BY <1>0, <1>1, <1>3, <1>4, <1>5, <2>1 DEF SarInv, Sends, hist
  <1>8. Forward
    <2>1. peer.next \in Nat
      BY <1>0 DEF NetTypes, Peers
    <2> QED BY <1>1, <1>3, <1>4, <1>5, <2>1 DEF Forward, hist
  <1>9. ChainInv'
    <2> SUFFICES ASSUME ~sar'.finSent PROVE ChainInv'
      BY DEF ChainInv
    <2>1. Taken = seq + n /\ Taken' = seq + n
      BY <1>1, <1>3, <1>4 DEF Taken, Sends
    <2>2. PICK merged \in Nat : Covers(appEvents, seq + n, merged) /\ Covers(txEvents, merged, accepted)
      BY <1>0, <1>4, <2>1 DEF ChainInv
    <2> QED BY <1>3, <1>5, <2>1, <2>2 DEF ChainInv, Sends
  <1>10. ~sar.finSent => from = seq
    BY <1>0, <1>1 DEF ChainInv, Sends
  <1>11. sar.finSent => finAt < seq /\ finAt \in Nat
    BY <1>0, <1>1 DEF SarInv, SarTypes
  <1>12. PICK seg \in Segments : /\ seg = [seq |-> seq, data |-> data, fin |-> FALSE]
                                 /\ seg.seq = seq /\ seg.data = data /\ seg.fin = FALSE
    <2>1. [seq |-> seq, data |-> data, fin |-> FALSE] \in Segments
      BY DEF Segments
    <2> QED BY <2>1
  <1>13. Sound(seg)'
    <2>1. ASSUME sar.finSent, NEW k \in 1 .. n PROVE finAt <= seq + k - 1
      BY <1>11, <2>1
    <2>2. \A k \in 1 .. n : data[k] = seq + k - 1 \/ (sar'.finSent /\ finAt' <= seq + k - 1)
      BY <1>2, <1>3, <1>4, <1>10, <2>1
    <2>3. \A k \in DOMAIN seg.data : \/ seg.data[k] = seg.seq + k - 1
                                     \/ seg.seq + k - 1 < peer'.next
                                     \/ sar'.finSent /\ finAt' <= seg.seq + k - 1
      BY <1>2, <1>12, <2>2
    <2>4. seg.seq + Len(seg.data) <= sar'.not_ackd
      BY <1>2, <1>4, <1>12
    <2> QED BY <1>12, <2>3, <2>4 DEF Sound
  <1>14. PeerGetsTheStream' /\ FinComesBehind'
    BY <1>0, <1>3, <1>4, <1>5 DEF PeerInv, PeerGetsTheStream, FinComesBehind
  <1>15. Sound([seq |-> seq, data |-> data, fin |-> FALSE])'
    BY <1>12, <1>13
  <1> QED BY <1>3, <1>4, <1>6, <1>7, <1>8, <1>9, <1>14, <1>15, TransmitStep

(* Before the first FIN only what was accepted is sent.                    *)
LEMMA SentWasAccepted ==
    ASSUME AppTypes, EventTypes, SarTypes, ChainInv, ~sar.finSent
    PROVE  sar.not_ackd <= accepted
  <1>1. PICK not_ackd \in Nat, next \in Nat, a \in Nat :
           not_ackd = sar.not_ackd /\ next = Taken /\ a = accepted /\ not_ackd <= next
    <2>1. Sends("TX") => tx.event.length \in Nat
      BY EventIs DEF SarTypes, Transmissions, Sends
    <2>2. sar.not_ackd \in Nat /\ accepted \in Nat
      BY DEF SarTypes, AppTypes
    <2> QED BY <2>1, <2>2 DEF Taken
  <1>2. PICK merged \in Nat : Covers(appEvents, next, merged) /\ Covers(txEvents, merged, a)
    BY <1>1 DEF ChainInv
  <1>3. Len(appEvents) \in Nat /\ Len(txEvents) \in Nat
    BY DEF EventTypes
  <1>4. next <= merged /\ merged <= a
    BY <1>2, <1>3, CoversForward
  <1> QED BY <1>1, <1>4

LEMMA SendFinStep ==
    ASSUME IInv, SendFin
    PROVE  IInv'
  <1>0. SarTypes /\ EventTypes /\ NetTypes /\ AppTypes /\ SarInv /\ ChainInv /\ PeerInv
    BY DEF IInv, TypeOK
  <1>1. /\ tx # None /\ tx' = None /\ tx.not_ackd = sar.not_ackd /\ tx.finSent = sar.finSent
        /\ Sends("FIN") /\ ~Sends("TX") /\ tx.event.again \in BOOLEAN
    BY <1>0, EventIs DEF SendFin, SarInv, Sends, SarTypes, Transmissions
  <1>2. PICK not_ackd \in Nat, ackd \in Nat, at \in Nat, a \in Nat, next \in Nat :
           /\ not_ackd = sar.not_ackd /\ ackd = sar.ackd /\ at = finAt /\ a = accepted /\ next = peer.next
           /\ sar.finSent => at < not_ackd
    BY <1>0 DEF SarTypes, SarInv, AppTypes, NetTypes, Peers
  <1>3. tx.event.again => sar.finSent
    BY <1>0, <1>1 DEF SarInv
  <1>4. PICK seq \in Nat : seq = FinNumber /\ (sar.finSent => at <= seq) /\ (~sar.finSent => seq = not_ackd)
    <2>1. CASE tx.event.again
      <3>1. FinNumber = not_ackd - 1 /\ not_ackd - 1 \in Nat /\ at <= not_ackd - 1
        BY <1>1, <1>2, <1>3, <2>1 DEF FinNumber
      <3> QED BY <1>3, <2>1, <3>1
    <2>2. CASE ~tx.event.again
      <3>1. FinNumber = not_ackd
        BY <1>1, <1>2, <2>2 DEF FinNumber
      <3> QED BY <1>2, <3>1
    <2> QED BY <2>1, <2>2
  <1>5. Transmit(seq, <<>>, TRUE)
    BY <1>4 DEF SendFin
  <1>6. UNCHANGED <<accepted, peer, finReceived, appEvents, txEvents>>
    BY <1>5 DEF Transmit, app
  <1>7. PICK m \in Nat, at1 \in Nat :
           /\ m = sar'.not_ackd /\ at1 = finAt' /\ not_ackd <= m /\ sar'.finSent = TRUE /\ sar'.ackd = ackd
           /\ at1 < m /\ at1 <= seq /\ at1 = IF sar.finSent THEN at ELSE not_ackd
           /\ sar' \in [ackd : Nat, not_ackd : Nat, finSent : BOOLEAN] /\ fins' \in Nat
    <2>1. CASE tx.event.again
      <3>1. UNCHANGED <<sar, finAt, fins>>
        BY <2>1 DEF SendFin, hist
      <3> QED BY <1>0, <1>2, <1>3, <1>4, <2>1, <3>1 DEF SarTypes
    <2>2. CASE ~tx.event.again
      <3>1. /\ sar' = [sar EXCEPT !.not_ackd = not_ackd + 1, !.finSent = TRUE]
            /\ finAt' = (IF sar.finSent THEN at ELSE not_ackd) /\ fins' = fins + 1
        <4>1. (sar.finSent \/ TRUE) = TRUE
          OBVIOUS
        <4> QED BY <1>1, <1>2, <2>2, <4>1 DEF SendFin, UpdateSar
      <3>2. /\ sar'.not_ackd = not_ackd + 1 /\ sar'.finSent = TRUE /\ sar'.ackd = ackd
            /\ sar' \in [ackd : Nat, not_ackd : Nat, finSent : BOOLEAN] /\ fins' \in Nat
        <4>1. not_ackd + 1 \in Nat /\ fins + 1 \in Nat
          BY <1>0 DEF SarTypes
        <4> QED BY <1>0, <1>2, <3>1, <4>1 DEF SarTypes
      <3>3. finAt' \in Nat /\ finAt' < not_ackd + 1 /\ finAt' <= seq /\ not_ackd + 1 \in Nat
        BY <1>2, <1>4, <3>1
      <3> QED BY <1>2, <3>1, <3>2, <3>3
    <2> QED BY <2>1, <2>2
  <1>8. SarTypes'
    BY <1>0, <1>1, <1>6, <1>7 DEF SarTypes
  <1>9. ~sar.finSent => not_ackd <= a
    BY <1>0, <1>2, SentWasAccepted
  <1>10. SarInv'
    <2>1. at1 <= a
      BY <1>0, <1>2, <1>7, <1>9 DEF SarInv
    <2>2. ackd <= not_ackd /\ ackd <= next
      BY <1>0, <1>2 DEF SarInv
    <2> QED BY <1>1, <1>2, <1>6, <1>7, <2>1, <2>2 DEF SarInv, Sends
  <1>11. Forward
    BY <1>2, <1>6, <1>7 DEF Forward
  <1>12. ChainInv'
    BY <1>7 DEF ChainInv
  <1>13. PICK seg \in Segments : /\ seg = [seq |-> seq, data |-> <<>>, fin |-> TRUE]
                                 /\ seg.seq = seq /\ seg.data = <<>>
    <2>1. <<>> \in Seq(Int) /\ [seq |-> seq, data |-> <<>>, fin |-> TRUE] \in Segments
      BY DEF Segments
    <2> QED BY <2>1
  <1>14. Sound(seg)'
    BY <1>7, <1>13 DEF Sound
  <1>15. PeerGetsTheStream' /\ FinComesBehind'
    <2>1. ~sar.finSent => ~peer.finished
      BY <1>0 DEF PeerInv, FinComesBehind
    <2>2. PeerGetsTheStream'
      <3> SUFFICES ASSUME NEW k \in 1 .. Len(peer.got), k <= finAt' PROVE peer.got[k] = k - 1
        BY <1>6, <1>7 DEF PeerGetsTheStream
      <3> QED BY <1>0, <1>2, <1>7 DEF PeerInv, PeerGetsTheStream
    <2>3. FinComesBehind'
      BY <1>0, <1>2, <1>6, <1>7, <2>1 DEF PeerInv, FinComesBehind
    <2> QED BY <2>2, <2>3
  <1>16. Sound([seq |-> seq, data |-> <<>>, fin |-> TRUE])'
    BY <1>13, <1>14
  <1>17. sar'.ackd = sar.ackd /\ <<>> \in Seq(Int)
    BY <1>2, <1>7
  <1> QED BY <1>5, <1>8, <1>10, <1>11, <1>12, <1>15, <1>16, <1>17, TransmitStep

-----------------------------------------------------------------------------
(* What is sent again from the memory is sound: it is still there, or the  *)
(* peer has it, or it is behind the first FIN.                             *)
LEMMA ResendIsSound ==
    ASSUME IInv, Sends("RT"), NEW n \in Nat, n <= tx.left
    PROVE  /\ ResendData(n) \in Seq(Int) /\ tx.ackd \in Nat
           /\ Sound([seq |-> tx.ackd, data |-> ResendData(n), fin |-> FALSE])
  <1>0. AppTypes /\ EventTypes /\ SarTypes /\ NetTypes /\ ChainInv /\ SarInv /\ CopyInv
    BY DEF IInv, TypeOK
  <1>1. PICK from \in Nat, left \in Nat, a \in Nat, copy \in Nat, ackd \in Nat, not_ackd \in Nat,
             next \in Nat, at \in Nat :
           /\ from = tx.ackd /\ left = tx.left /\ a = accepted /\ copy = appTable.ackd
           /\ ackd = sar.ackd /\ not_ackd = sar.not_ackd /\ next = peer.next /\ at = finAt
    BY <1>0 DEF Sends, AppTypes, SarTypes, NetTypes, Transmissions, Copies, Peers
  <1>2. PICK W \in Nat \ {0} : W = Window
    BY WindowIs
  <1>3. a - copy < W /\ copy <= ackd /\ ackd <= next
    BY <1>0, <1>1, <1>2 DEF CopyInv, SarInv
  <1>4. (~sar.finSent => from + left <= not_ackd /\ not_ackd <= a) /\ (sar.finSent => at <= a)
    BY <1>0, <1>1, SentWasAccepted DEF SarInv
  <1>5. \A k \in 1 .. n : from + k - 1 \in Nat /\ Stored(from + k - 1) \in Int
    <2> SUFFICES ASSUME NEW k \in 1 .. n PROVE from + k - 1 \in Nat /\ Stored(from + k - 1) \in Int
      OBVIOUS
    <2>1. from + k - 1 \in Nat /\ from + k - 1 \in Int
      OBVIOUS
    <2> QED BY <1>0, <2>1, StoredType DEF AppTypes
  <1>6. PICK data \in Seq(Int) :
           /\ data = ResendData(n) /\ DOMAIN data = 1 .. n /\ Len(data) = n
           /\ \A k \in 1 .. n : data[k] = Stored(from + k - 1)
    <2>1. [k \in 1 .. n |-> Stored(from + k - 1)] \in Seq(Int)
      <3> DEFINE byte(k) == Stored(from + k - 1)
      <3>1. \A k \in 1 .. n : byte(k) \in Int
        BY <1>5
      <3> HIDE DEF byte
      <3>2. [k \in 1 .. n |-> byte(k)] \in Seq(Int)
        BY <3>1
      <3> QED BY <3>2 DEF byte
    <2>2. ResendData(n) = [k \in 1 .. n |-> Stored(from + k - 1)]
      BY <1>1 DEF ResendData
    <2>3. DOMAIN ResendData(n) = 1 .. n /\ \A k \in 1 .. n : ResendData(n)[k] = Stored(from + k - 1)
      BY <2>2
    <2>4. Len(ResendData(n)) = n
      BY <2>1, <2>2, <2>3
    <2> QED BY <2>1, <2>2, <2>3, <2>4
  <1>7. ASSUME NEW k \in 1 .. n
        PROVE  \/ data[k] = from + k - 1 \/ from + k - 1 < next
               \/ sar.finSent /\ at <= from + k - 1
    <2>1. PICK m \in Nat : m = from + k - 1 /\ m < from + left
      <3>1. from + k - 1 \in Nat /\ from + k - 1 < from + left
        BY <1>1
      <3> QED BY <3>1
    <2>2. CASE m < a /\ a - m <= W
      BY <1>0, <1>1, <1>2, <1>6, <2>1, <2>2, StoredIs DEF AppTypes
    <2>3. CASE a - m > W
      BY <1>3, <2>1, <2>3
    <2>4. CASE m >= a
      BY <1>4, <2>1, <2>4
    <2> QED BY <2>2, <2>3, <2>4
  <1>8. ~sar.finSent => from + n <= not_ackd
    BY <1>1, <1>4
  <1>9. PICK seg \in Segments : /\ seg = [seq |-> from, data |-> data, fin |-> FALSE]
                                /\ seg.seq = from /\ seg.data = data /\ seg.fin = FALSE
    <2>1. [seq |-> from, data |-> data, fin |-> FALSE] \in Segments
      BY DEF Segments
    <2> QED BY <2>1
  <1>10. Sound(seg)
    BY <1>1, <1>6, <1>7, <1>8, <1>9 DEF Sound
  <1> QED BY <1>1, <1>6, <1>9, <1>10

(* A retransmission moves on to its next part, its FIN or the next event.  *)
LEMMA ResendKeeps ==
    ASSUME IInv, Sends("RT"), UNCHANGED <<sar, hist, accepted, appEvents, txEvents, finReceived, peer>>,
           tx' # None => /\ tx' \in Transmissions /\ tx'.not_ackd = tx.not_ackd
                         /\ tx'.finSent = tx.finSent /\ tx'.event.type # "TX"
                         /\ tx'.event.type = "RT" => tx'.ackd + tx'.left = tx.ackd + tx.left
                         /\ tx'.event.type = "FIN" => tx.finSent
    PROVE  SarTypes' /\ SarInv' /\ ChainInv' /\ Forward
  <1>0. SarTypes /\ SarInv /\ ChainInv /\ NetTypes
    BY DEF IInv, TypeOK
  <1>1. SarTypes'
    BY <1>0 DEF SarTypes, hist
  <1>2. SarInv'
    <2>1. /\ sar.ackd <= sar.not_ackd /\ sar.ackd <= peer.next
          /\ sar.finSent => finAt < sar.not_ackd /\ finAt <= accepted
          /\ tx.not_ackd = sar.not_ackd /\ tx.finSent = sar.finSent
          /\ ~sar.finSent => tx.ackd + tx.left <= sar.not_ackd
      BY <1>0 DEF SarInv, Sends
    <2> QED BY <2>1 DEF SarInv, Sends, hist
  <1>3. ChainInv'
    <2> SUFFICES ASSUME ~sar'.finSent PROVE ChainInv'
      BY DEF ChainInv
    <2>1. Taken = sar.not_ackd /\ Taken' = sar.not_ackd /\ ~Sends("TX")'
      BY DEF Taken, Sends
    <2>2. PICK merged \in Nat : Covers(appEvents, sar.not_ackd, merged) /\ Covers(txEvents, merged, accepted)
      BY <1>0, <2>1 DEF ChainInv
    <2> QED BY <2>1, <2>2 DEF ChainInv
  <1>4. Forward
    BY <1>0 DEF Forward, SarTypes, NetTypes, Peers, hist
  <1> QED BY <1>1, <1>2, <1>3, <1>4

(* A retransmission that sends something.                                  *)
LEMMA ResendSends ==
    ASSUME IInv, Sends("RT"), NEW n \in Nat, n <= tx.left, Transmit(tx.ackd, ResendData(n), FALSE),
           UNCHANGED <<sar, hist>>, SarTypes', SarInv', ChainInv', Forward
    PROVE  IInv'
  <1>1. PICK seq \in Nat, data \in Seq(Int), fin \in BOOLEAN :
           /\ seq = tx.ackd /\ data = ResendData(n) /\ fin = FALSE
           /\ Sound([seq |-> seq, data |-> data, fin |-> fin])
    BY ResendIsSound
  <1>2. UNCHANGED <<sar, hist, finAt, peer>>
    BY DEF Transmit, hist
  <1>3. PICK seg \in Segments : seg = [seq |-> seq, data |-> data, fin |-> fin] /\ Sound(seg)
    <2>1. [seq |-> seq, data |-> data, fin |-> fin] \in Segments
      BY DEF Segments
    <2> QED BY <1>1, <2>1
  <1>4. Sound(seg)'
    BY <1>2, <1>3 DEF Sound
  <1>5. Sound([seq |-> seq, data |-> data, fin |-> fin])'
    BY <1>3, <1>4
  <1>6. PeerGetsTheStream' /\ FinComesBehind'
    <2>1. PeerGetsTheStream /\ FinComesBehind
      BY DEF IInv, PeerInv
    <2> QED BY <1>2, <2>1 DEF PeerGetsTheStream, FinComesBehind
  <1>7. Transmit(seq, data, fin) /\ sar'.ackd = sar.ackd
    BY <1>1, <1>2
  <1> QED BY <1>5, <1>6, <1>7, TransmitStep

LEMMA ResendPartStep ==
    ASSUME IInv, ResendPart
    PROVE  IInv'
  <1>0. SarTypes
    BY DEF IInv, TypeOK
  <1>1. Sends("RT") /\ Transmit(tx.ackd, ResendData(MSS), FALSE) /\ UNCHANGED <<sar, hist>>
    BY DEF ResendPart, Sends
  <1>2. UNCHANGED <<accepted, appEvents, txEvents, finReceived, peer>>
    BY <1>1 DEF Transmit, app
  <1>3. PICK t \in Transmissions, from \in Nat, left \in Nat, n \in Nat, done \in Nat, rest \in Nat :
           /\ t = tx /\ from = t.ackd /\ left = t.left /\ n = MSS /\ done = t.segments
           /\ left = n + rest
    <2>1. tx \in Transmissions /\ tx.left > MSS /\ MSS \in Nat
      BY <1>0, <1>1, WindowIs DEF SarTypes, Sends, ResendPart
    <2>2. tx.ackd \in Nat /\ tx.left \in Nat /\ tx.segments \in Nat /\ tx.left - MSS \in Nat
          /\ tx.left = MSS + (tx.left - MSS)
      BY <2>1 DEF Transmissions
    <2> QED BY <2>1, <2>2
  <1>4. ASSUME tx' # None
        PROVE  /\ tx' \in Transmissions /\ tx'.not_ackd = tx.not_ackd
               /\ tx'.finSent = tx.finSent /\ tx'.event.type = "RT"
               /\ tx'.ackd + tx'.left = tx.ackd + tx.left
    <2>1. tx' = [t EXCEPT !.ackd = from + n, !.left = rest, !.segments = done + 1]
      <3>1. tx' = [t EXCEPT !.ackd = from + n, !.left = left - n, !.segments = done + 1]
        BY <1>3, <1>4 DEF ResendPart
      <3>2. left - n = rest
        BY <1>3
      <3> QED BY <3>1, <3>2
    <2>2. from + n \in Nat /\ done + 1 \in Nat
      OBVIOUS
    <2>3. /\ tx' \in Transmissions /\ tx'.not_ackd = t.not_ackd /\ tx'.finSent = t.finSent
          /\ tx'.event = t.event /\ tx'.ackd = from + n /\ tx'.left = rest
      BY <2>1, <2>2 DEF Transmissions
    <2>4. t.event.type = "RT"
      BY <1>1, <1>3 DEF Sends
    <2> QED BY <1>3, <2>3, <2>4
  <1>5. SarTypes' /\ SarInv' /\ ChainInv' /\ Forward
    BY <1>1, <1>2, <1>4, ResendKeeps
  <1>6. n <= tx.left /\ n = MSS
    BY <1>3
  <1> QED BY <1>1, <1>5, <1>6, ResendSends

LEMMA ResendLastStep ==
    ASSUME IInv, ResendLast
    PROVE  IInv'
  <1>0. SarTypes /\ AppTypes /\ EventTypes /\ NetTypes
    BY DEF IInv, TypeOK
  <1>1. Sends("RT") /\ UNCHANGED <<sar, hist>>
    BY DEF ResendLast, Sends
  <1>2. UNCHANGED <<accepted, appEvents, txEvents, finReceived, peer>>
    BY DEF ResendLast, Transmit, app, net
  <1>3. PICK t \in Transmissions, e \in Events, left \in Nat :
           t = tx /\ e = t.event /\ e.type = "RT" /\ left = t.left
    BY <1>0, <1>1 DEF SarTypes, Sends, Transmissions
  <1>4. ASSUME tx' # None
        PROVE  /\ tx' \in Transmissions /\ tx'.not_ackd = tx.not_ackd
               /\ tx'.finSent = tx.finSent /\ tx'.event.type = "FIN" /\ tx.finSent
    <2>1. PICK e1 \in Events : e1 = [e EXCEPT !.type = "FIN"] /\ e1.type = "FIN"
      <3>1. [e EXCEPT !.type = "FIN"] \in Events /\ [e EXCEPT !.type = "FIN"].type = "FIN"
        BY DEF Events
      <3> QED BY <3>1
    <2>2. tx' = [t EXCEPT !.event = e1, !.ackd = 0, !.left = 0, !.segments = 0] /\ t.finSent
      BY <1>3, <1>4, <2>1 DEF ResendLast
    <2>3. /\ tx' \in Transmissions /\ tx'.not_ackd = t.not_ackd /\ tx'.finSent = t.finSent
          /\ tx'.event = e1
      BY <2>2 DEF Transmissions
    <2> QED BY <1>3, <2>1, <2>2, <2>3
  <1>5. SarTypes' /\ SarInv' /\ ChainInv' /\ Forward
    BY <1>1, <1>2, <1>4, ResendKeeps
  <1>6. CASE left > 0
    <2>1. tx.left > 0 /\ tx.left \in Nat
      BY <1>3, <1>6
    <2>2. Transmit(tx.ackd, ResendData(tx.left), FALSE)
      BY <2>1 DEF ResendLast
    <2>3. tx.left <= tx.left
      BY <2>1
    <2> QED BY <1>1, <1>5, <2>1, <2>2, <2>3, ResendSends
  <1>7. CASE ~(left > 0)
    <2>1. UNCHANGED <<established, appTable, pushes, write, txEvents, accepted, finEvents, appEvents,
                      others, finReceived, segments, replies, peer>>
      BY <1>3, <1>7 DEF ResendLast, app, net
    <2>2. CopyInv'
      BY <1>1, <2>1, StreamKept DEF IInv
    <2> QED BY <1>1, <1>5, <2>1, <2>2, TypesKept, NetKept DEF IInv, TypeOK
  <1> QED BY <1>6, <1>7
-----------------------------------------------------------------------------
(* The timer and the acknowledgements.                                     *)
LEMMA OtherEventsAre ==
    ASSUME EventTypes, UNCHANGED <<finEvents, txEvents, appEvents>>, NEW b \in BOOLEAN,
           \/ UNCHANGED others
           \/ others' = <<[type |-> "RT", from |-> 0, length |-> 0, again |-> b]>>
           \/ others' = Append(others, Fin)
    PROVE  EventTypes'
  <1>1. [type |-> "RT", from |-> 0, length |-> 0, again |-> b] \in OtherEvents
    BY DEF Events, OtherEvents
  <1>2. \A e \in OtherEvents \cup {Fin} : <<e>> \in Seq(OtherEvents \cup {Fin})
    OBVIOUS
  <1>3. Append(others, Fin) \in Seq(OtherEvents \cup {Fin}) /\ others \in Seq(OtherEvents \cup {Fin})
    BY AppendFacts DEF EventTypes
  <1>4. others' \in Seq(OtherEvents \cup {Fin})
    BY <1>1, <1>2, <1>3
  <1> QED BY <1>4 DEF EventTypes

LEMMA RetransmitTimerStep ==
    ASSUME IInv, RetransmitTimer
    PROVE  IInv'
  <1>1. /\ UNCHANGED <<established, appTable, pushes, write, accepted, finEvents, txEvents, appEvents,
                       sar, tx, finReceived, hist, segments, replies, peer>>
        /\ others' = <<[type |-> "RT", from |-> 0, length |-> 0, again |-> TRUE]>>
    BY DEF RetransmitTimer, app, net
  <1>2. EventTypes'
    BY <1>1, OtherEventsAre DEF IInv, TypeOK
  <1> QED BY <1>1, <1>2, TypesKept, StreamKept, NetKept DEF IInv, TypeOK

(* Writing tx_sar_table: what is acknowledged was sent and reached the     *)
(* peer, and the copy that is pushed fits its window.                      *)
LEMMA WriteSarStep ==
    ASSUME IInv, NEW r \in Replies, WriteSar(r.ack, r.win), r.ack <= peer.next,
           r.win > 0 => r.ack + r.win <= peer.edge, sar.ackd <= r.ack, r.ack <= sar.not_ackd,
           UNCHANGED <<appTable, write, txEvents, accepted, finEvents, appEvents, tx, hist, net>>,
           established' \in BOOLEAN, finReceived' \in BOOLEAN, EventTypes'
    PROVE  IInv'
  <1>0. AppTypes /\ SarTypes /\ NetTypes /\ CopyInv /\ SarInv /\ ChainInv /\ SegmentsInv /\ PeerInv
    BY DEF IInv, TypeOK
  <1>1. PICK ack \in Nat, win \in Nat, edge \in Nat, ackd \in Nat :
           /\ ack = r.ack /\ win = r.win /\ edge = peer.edge /\ ackd = sar.ackd /\ ackd <= ack
           /\ win > 0 => ack + win <= edge
    BY <1>0 DEF Replies, NetTypes, Peers, SarTypes
  <1>2. PICK cong \in Nat : pushes' = Append(pushes, [ackd |-> ack, min_window |-> Min({cong, win})])
    BY <1>1, WindowIs DEF WriteSar
  <1>3. PICK least \in Nat : least = Min({cong, win}) /\ least <= win
    <2>1. cong \in Int /\ win \in Int
      OBVIOUS
    <2> QED BY <2>1, MinOf
  <1>4. PICK p \in Pushes : p = [ackd |-> ack, min_window |-> least] /\ p.ackd = ack /\ p.min_window = least
    <2>1. [ackd |-> ack, min_window |-> least] \in Pushes
      BY DEF Pushes
    <2> QED BY <2>1
  <1>5. PICK n \in Nat : /\ n = Len(pushes) /\ pushes' \in Seq(Pushes) /\ Len(pushes') = n + 1
                         /\ pushes'[n + 1] = p /\ \A i \in 1 .. n : pushes'[i] = pushes[i]
    <2>1. pushes \in Seq(Pushes) /\ pushes' = Append(pushes, p) /\ Len(pushes) \in Nat
      BY <1>0, <1>2, <1>3, <1>4 DEF AppTypes
    <2> QED BY <2>1, AppendFacts
  <1>6. /\ sar' = [sar EXCEPT !.ackd = ack]
        /\ UNCHANGED <<segments, replies, peer, appTable, write, txEvents, accepted, appEvents, tx, hist>>
    BY <1>1 DEF WriteSar, net
  <1>7. /\ sar' \in [ackd : Nat, not_ackd : Nat, finSent : BOOLEAN] /\ sar'.ackd = ack
        /\ sar'.not_ackd = sar.not_ackd /\ sar'.finSent = sar.finSent
    BY <1>0, <1>6 DEF SarTypes
  <1>8. AppTypes' /\ SarTypes'
    BY <1>0, <1>5, <1>6, <1>7 DEF AppTypes, SarTypes, hist
  <1>9. ChainInv'
    <2>1. UNCHANGED Taken
      BY <1>6, <1>7 DEF Taken, Sends
    <2> QED BY <1>0, <1>6, <1>7, <2>1 DEF ChainInv, Sends
  <1>10. SarInv'
    BY <1>0, <1>1, <1>6, <1>7 DEF SarInv, Sends, hist
  <1>11. CopyInv'
    <2>1. Fits(p)
      BY <1>1, <1>3, <1>4 DEF Fits
    <2>2. appTable.ackd \in Nat /\ appTable.ackd <= ackd
      BY <1>0, <1>1 DEF AppTypes, Copies, CopyInv
    <2>3. \A i \in 1 .. n : /\ pushes[i].ackd \in Nat /\ Fits(pushes[i])
                            /\ appTable.ackd <= pushes[i].ackd /\ pushes[i].ackd <= ackd
      <3>1. \A i \in 1 .. n : i \in DOMAIN pushes /\ pushes[i] \in Pushes
        BY <1>0, <1>5 DEF AppTypes
      <3>2. \A i \in 1 .. n : pushes[i].ackd \in Nat
        BY <3>1 DEF Pushes
      <3> QED BY <1>0, <1>1, <3>1, <3>2 DEF CopyInv
    <2>4. \A i \in 1 .. n + 1 : /\ Fits(pushes'[i]) /\ appTable.ackd <= pushes'[i].ackd
                                /\ pushes'[i].ackd <= ack
      <3> SUFFICES ASSUME NEW i \in 1 .. n + 1
                   PROVE  /\ Fits(pushes'[i]) /\ appTable.ackd <= pushes'[i].ackd
                          /\ pushes'[i].ackd <= ack
        OBVIOUS
      <3>1. CASE i = n + 1
        BY <1>1, <1>4, <1>5, <2>1, <2>2, <3>1
      <3>2. CASE i # n + 1
        <4>1. i \in 1 .. n
          BY <3>2
        <4> QED BY <1>1, <1>5, <2>3, <4>1
      <3> QED BY <3>1, <3>2
    <2>5. \A i, j \in 1 .. n + 1 : i < j => pushes'[i].ackd <= pushes'[j].ackd
      <3> SUFFICES ASSUME NEW i \in 1 .. n + 1, NEW j \in 1 .. n + 1, i < j
                   PROVE  pushes'[i].ackd <= pushes'[j].ackd
        OBVIOUS
      <3>1. CASE j = n + 1
        BY <1>4, <1>5, <2>4, <3>1
      <3>2. CASE j # n + 1
        <4>1. i \in 1 .. n /\ j \in 1 .. n
          BY <3>2
        <4>2. pushes[i].ackd <= pushes[j].ackd
          BY <1>0, <1>5, <4>1 DEF CopyInv
        <4> QED BY <1>5, <4>1, <4>2
      <3> QED BY <3>1, <3>2
    <2>6. DOMAIN pushes' = 1 .. n + 1
      BY <1>5
    <2>7. Fits(appTable) /\ appTable.ackd <= ack
      BY <1>0, <1>1, <2>2 DEF CopyInv
    <2> QED BY <1>0, <1>6, <1>7, <2>4, <2>5, <2>6, <2>7 DEF CopyInv, Fits
  <1>12. SegmentsInv'
    BY <1>0, <1>6, <1>7 DEF SegmentsInv, Sound, hist
  <1>13. PeerInv'
    BY <1>0, <1>6, <1>7 DEF PeerInv, PeerGetsTheStream, FinComesBehind, AcceptedFitsWindow, hist
  <1> QED BY <1>6, <1>8, <1>9, <1>10, <1>11, <1>12, <1>13, TypesKept, NetKept DEF IInv, TypeOK

LEMMA rxEngTcpFSMStep ==
    ASSUME Unchecked = FALSE, IInv, rxEngTcpFSM
    PROVE  IInv'
  <1>0. AppTypes /\ EventTypes /\ SarTypes /\ NetTypes /\ RepliesInv /\ SarInv
    BY DEF IInv, TypeOK
  <1>1. PICK r \in Replies : /\ RxAck(r) \/ RxFin(r)
                             /\ r.ack <= peer.next /\ (r.win > 0 => r.ack + r.win <= peer.edge)
    <2>1. PICK i \in 1 .. Len(replies) : RxAck(replies[i]) \/ RxFin(replies[i])
      BY DEF rxEngTcpFSM
    <2>2. i \in DOMAIN replies /\ replies[i] \in Replies
      BY <1>0 DEF NetTypes
    <2> QED BY <1>0, <2>1, <2>2 DEF RepliesInv
  <1>2. UNCHANGED <<appTable, write, txEvents, accepted, finEvents, appEvents, tx, hist, net>>
    BY DEF rxEngTcpFSM
  <1>3. InRange(r.ack, sar.ackd, sar.not_ackd) => sar.ackd <= r.ack /\ r.ack <= sar.not_ackd
    <2>1. sar.ackd \in Nat /\ sar.not_ackd \in Nat /\ r.ack \in Nat /\ sar.ackd <= sar.not_ackd
      BY <1>0 DEF SarTypes, Replies, SarInv
    <2> QED BY <2>1 DEF InRange
  <1>4. CASE RxAck(r)
    <2>1. UNCHANGED <<established, finReceived>>
      BY <1>4 DEF RxAck
    <2>2. EventTypes'
      <3>1. UNCHANGED others \/ others' = <<[type |-> "RT", from |-> 0, length |-> 0, again |-> FALSE]>>
        BY <1>4 DEF RxAck, FastRetransmit
      <3> QED BY <1>0, <1>2, <3>1, OtherEventsAre
    <2>3. established' \in BOOLEAN /\ finReceived' \in BOOLEAN
      BY <1>0, <2>1 DEF AppTypes, SarTypes
    <2>4. CASE InRange(r.ack, sar.ackd, sar.not_ackd)
      <3>1. WriteSar(r.ack, r.win)
        BY <1>4, <2>4 DEF RxAck
      <3> QED BY <1>1, <1>2, <1>3, <2>2, <2>3, <2>4, <3>1, WriteSarStep
    <2>5. CASE ~InRange(r.ack, sar.ackd, sar.not_ackd)
      <3>1. UNCHANGED <<sar, pushes>>
        BY <1>4, <2>5 DEF RxAck
      <3>2. UNCHANGED <<segments, replies, peer>>
        BY <1>2 DEF net
      <3> QED BY <1>2, <2>1, <2>2, <3>1, <3>2, TypesKept, StreamKept, NetKept DEF IInv, TypeOK
    <2> QED BY <2>4, <2>5
  <1>5. CASE RxFin(r)
    <2>1. /\ InRange(r.ack, sar.ackd, sar.not_ackd) /\ WriteSar(r.ack, r.win)
          /\ established' \in BOOLEAN /\ finReceived' \in BOOLEAN
      BY <1>5 DEF RxFin
    <2>2. EventTypes'
      <3>1. UNCHANGED others \/ others' = Append(others, Fin)
        BY <1>5 DEF RxFin
      <3> QED BY <1>0, <1>2, <3>1, OtherEventsAre
    <2> QED BY <1>1, <1>2, <1>3, <2>1, <2>2, WriteSarStep
  <1> QED BY <1>1, <1>4, <1>5
-----------------------------------------------------------------------------
(* The peer.                                                               *)
LEMMA NewBytesAre ==
    ASSUME NetTypes, SarTypes, NEW seg \in Segments, Sound(seg)
    PROVE  /\ NewBytes(seg) \in Seq(Int) /\ Len(NewBytes(seg)) \in Nat
           /\ \A i \in 1 .. Len(NewBytes(seg)) : \/ NewBytes(seg)[i] = peer.next + i - 1
                                                 \/ sar.finSent /\ finAt <= peer.next + i - 1
           /\ Len(NewBytes(seg)) # 0 =>
                 /\ peer.next + Len(NewBytes(seg)) <= seg.seq + Len(seg.data)
                 /\ peer.next + Len(NewBytes(seg)) <= peer.edge
  <1>1. PICK next \in Nat, edge \in Nat, seq \in Nat, size \in Nat, at \in Nat :
           /\ next = peer.next /\ edge = peer.edge /\ seq = seg.seq /\ size = Len(seg.data)
           /\ at = finAt
    BY DEF NetTypes, Segments, Peers, SarTypes
  <1>2. CASE seq <= next
    <2>1. PICK m \in Int : m = next - seq + 1
      OBVIOUS
    <2>2. PICK n \in Int : n = IF size <= edge - seq THEN size ELSE edge - seq
      <3>1. (IF size <= edge - seq THEN size ELSE edge - seq) \in Int
        OBVIOUS
      <3> QED BY <3>1
    <2>3. Min({size, edge - seq}) = n
      BY <2>2, MinOf
    <2>4. NewBytes(seg) = SubSeq(seg.data, m, n)
      BY <1>1, <1>2, <2>1, <2>3 DEF NewBytes
    <2>5. \A i \in m .. n : i \in DOMAIN seg.data /\ seg.data[i] \in Int
      <3>1. seg.data \in Seq(Int)
        BY DEF Segments
      <3>2. DOMAIN seg.data = 1 .. size /\ \A i \in 1 .. size : seg.data[i] \in Int
        BY <1>1, <3>1
      <3>3. 1 <= m /\ n <= size
        BY <1>2, <2>1, <2>2
      <3> QED BY <3>2, <3>3
    <2>6. /\ SubSeq(seg.data, m, n) \in Seq(Int)
          /\ Len(SubSeq(seg.data, m, n)) = IF m <= n THEN n - m + 1 ELSE 0
          /\ \A i \in 1 .. n - m + 1 : SubSeq(seg.data, m, n)[i] = seg.data[m + i - 1]
      BY <2>5, SubSeqProperties
    <2>7. ASSUME NEW i \in 1 .. n - m + 1
          PROVE  \/ SubSeq(seg.data, m, n)[i] = next + i - 1
                 \/ sar.finSent /\ at <= next + i - 1
      <3>1. m + i - 1 \in m .. n /\ seq + (m + i - 1) - 1 = next + i - 1 /\ ~(next + i - 1 < next)
        BY <2>1
      <3>2. m + i - 1 \in DOMAIN seg.data
        BY <2>5, <3>1
      <3>3. \/ seg.data[m + i - 1] = seq + (m + i - 1) - 1
            \/ seq + (m + i - 1) - 1 < next
            \/ sar.finSent /\ at <= seq + (m + i - 1) - 1
        BY <1>1, <3>2 DEF Sound
      <3> QED BY <2>6, <3>1, <3>3
    <2>8. m <= n => next + (n - m + 1) <= seq + size /\ next + (n - m + 1) <= edge
      BY <2>1, <2>2
    <2>9. PICK new \in Seq(Int), cnt \in Nat : /\ new = NewBytes(seg) /\ cnt = Len(new)
                                              /\ new = SubSeq(seg.data, m, n)
      <3>1. PICK new \in Seq(Int) : new = NewBytes(seg) /\ new = SubSeq(seg.data, m, n)
        BY <2>4, <2>6
      <3>2. Len(new) \in Nat
        OBVIOUS
      <3> QED BY <3>1, <3>2
    <2>10. cnt = IF m <= n THEN n - m + 1 ELSE 0
      BY <2>6, <2>9
    <2>11. \A i \in 1 .. cnt : new[i] = next + i - 1 \/ (sar.finSent /\ at <= next + i - 1)
      <3>1. \A i \in 1 .. cnt : i \in 1 .. n - m + 1
        BY <2>10
      <3> QED BY <2>7, <2>9, <3>1
    <2>12. cnt # 0 => next + cnt <= seq + size /\ next + cnt <= edge
      BY <2>8, <2>10
    <2> QED BY <1>1, <2>9, <2>11, <2>12
  <1>3. CASE ~(seq <= next)
    <2>1. NewBytes(seg) = <<>>
      BY <1>1, <1>3 DEF NewBytes
    <2> QED BY <2>1
  <1> QED BY <1>2, <1>3

(* The peer moves on: what the others know of it stays true.               *)
LEMMA PeerStep ==
    ASSUME IInv, UNCHANGED <<established, app, finEvents, appEvents, others, sar, tx, finReceived, hist>>,
           NetTypes', RepliesInv', PeerInv', peer.next <= peer'.next, peer.edge <= peer'.edge,
           \A i \in DOMAIN segments' : \E j \in DOMAIN segments : segments'[i] = segments[j]
    PROVE  IInv'
  <1>0. AppTypes /\ SarTypes /\ NetTypes /\ SarInv /\ CopyInv /\ SegmentsInv
    BY DEF IInv, TypeOK
  <1>1. UNCHANGED <<established, appTable, pushes, write, txEvents, accepted, finEvents, appEvents, others,
                    sar, tx, finReceived, hist>>
    BY DEF app
  <1>2. PICK next \in Nat, next1 \in Nat, edge \in Nat, edge1 \in Nat :
           next = peer.next /\ next1 = peer'.next /\ edge = peer.edge /\ edge1 = peer'.edge
           /\ next <= next1 /\ edge <= edge1
    BY <1>0 DEF NetTypes, Peers
  <1>3. SarTypes'
    BY <1>0, <1>1, TypesKept
  <1>4. SarInv'
    <2>1. sar.ackd \in Nat
      BY <1>0 DEF SarTypes
    <2> QED BY <1>0, <1>1, <1>2, <2>1 DEF SarInv, Sends, hist
  <1>5. SegmentsInv'
    <2>1. Forward
      BY <1>0, <1>1, <1>2 DEF Forward, SarTypes, hist
    <2> QED BY <1>0, <1>3, <2>1, SegmentsForward
  <1>6. CopyInv'
    <2>1. ASSUME NEW copy, copy.ackd \in Nat, copy.min_window \in Nat, Fits(copy) PROVE Fits(copy)'
      BY <1>2, <2>1 DEF Fits
    <2>2. Fits(appTable)'
      BY <1>0, <1>1, <1>2 DEF CopyInv, AppTypes, Copies, Fits
    <2>3. \A i \in DOMAIN pushes : Fits(pushes[i])'
      <3>1. ASSUME NEW i \in DOMAIN pushes
            PROVE  pushes[i].min_window > 0 => pushes[i].ackd + pushes[i].min_window <= edge1
        <4>1. PICK p \in Pushes : p = pushes[i]
          BY <1>0 DEF AppTypes
        <4>2. p.min_window > 0 => p.ackd + p.min_window <= edge
          BY <1>0, <1>2, <4>1 DEF CopyInv, Fits
        <4>3. p.ackd \in Nat /\ p.min_window \in Nat
          BY DEF Pushes
        <4> QED BY <1>2, <4>1, <4>2, <4>3
      <3> QED BY <1>1, <1>2, <3>1 DEF Fits
    <2>4. write # None /\ write.table # None => Fits(write.table)'
      <3> SUFFICES ASSUME write # None, write.table # None PROVE Fits(write.table)'
        OBVIOUS
      <3>1. PICK t \in Copies : t = write.table
        BY <1>0 DEF AppTypes, Writes
      <3>2. t.min_window > 0 => t.ackd + t.min_window <= edge
        BY <1>0, <1>2, <3>1 DEF CopyInv, Fits
      <3>3. t.ackd \in Nat /\ t.min_window \in Nat
        BY DEF Copies
      <3> QED BY <1>1, <1>2, <3>1, <3>2, <3>3 DEF Fits
    <2> QED BY <1>0, <1>1, <2>2, <2>3, <2>4 DEF CopyInv, Fits
  <1>7. ChainInv'
    BY <1>1, StreamKept DEF IInv
  <1> QED BY <1>1, <1>4, <1>5, <1>6, <1>7, TypesKept DEF IInv, TypeOK

LEMMA PeerReceivesStep ==
    ASSUME IInv, PeerReceives,
           UNCHANGED <<established, app, finEvents, appEvents, others, sar, tx, finReceived, hist>>
    PROVE  IInv'
  <1>0. AppTypes /\ SarTypes /\ NetTypes /\ SarInv /\ SegmentsInv /\ RepliesInv /\ PeerInv
    BY DEF IInv, TypeOK
  <1>1. PICK seg \in Segments : peer' = Arrives(seg) /\ Sound(seg)
    <2>1. PICK i \in 1 .. Len(segments) : peer' = Arrives(segments[i])
      BY DEF PeerReceives
    <2>2. i \in DOMAIN segments /\ segments[i] \in Segments
      BY <1>0 DEF NetTypes
    <2> QED BY <1>0, <2>1, <2>2 DEF SegmentsInv
  <1>2. ~peer.finished /\ UNCHANGED <<replies, accepted, sar, finAt>>
        /\ segments' = IF peer'.finished THEN <<>> ELSE segments
    BY DEF PeerReceives, app, hist
  <1>3. PICK next \in Nat, edge \in Nat, got \in Seq(Int), len \in Nat, at \in Nat, a \in Nat :
           /\ next = peer.next /\ edge = peer.edge /\ got = peer.got /\ len = Len(got) /\ at = finAt
           /\ next = len /\ len <= edge /\ a = accepted
    BY <1>0, <1>2 DEF NetTypes, Peers, PeerInv, OneIf, SarTypes, AppTypes
  <1>4. peer = [next |-> next, edge |-> edge, got |-> got, finished |-> FALSE]
    BY <1>0, <1>2, <1>3 DEF NetTypes, Peers
  <1>5. /\ a <= edge
        /\ \A k \in 1 .. len : (sar.finSent => k <= at) => got[k] = k - 1
        /\ ~sar.finSent => next <= sar.not_ackd
        /\ edge <= next + PeerWindow /\ PeerWindow \in Nat
    BY <1>0, <1>3, WindowIs DEF PeerInv, AcceptedFitsWindow, PeerGetsTheStream
  <1>6. ASSUME peer'.next \in Nat, next <= peer'.next, peer'.edge = edge, NetTypes', PeerInv'
        PROVE  IInv'
    <2>1. RepliesInv'
      <3>1. ASSUME NEW i \in DOMAIN replies PROVE replies[i].ack <= peer'.next
        <4>1. PICK ack \in Nat : ack = replies[i].ack
          <5>1. replies[i] \in Replies
            BY <1>0, <1>2 DEF NetTypes
          <5> QED BY <5>1 DEF Replies
        <4>2. ack <= next
          BY <1>0, <1>3, <4>1 DEF RepliesInv
        <4> QED BY <1>6, <4>1, <4>2
      <3> QED BY <1>0, <1>2, <1>3, <1>6, <3>1 DEF RepliesInv
    <2>2. \A i \in DOMAIN segments' : \E j \in DOMAIN segments : segments'[i] = segments[j]
      BY <1>2
    <2>3. peer.next <= peer'.next /\ peer.edge <= peer'.edge
      BY <1>3, <1>6
    <2> QED BY <1>6, <2>1, <2>2, <2>3, PeerStep
  <1>7. CASE seg.fin /\ seg.seq = next
    <2>1. sar.finSent /\ at <= next
      BY <1>1, <1>3, <1>7 DEF Sound
    <2>2. peer' = [next |-> next + 1, edge |-> edge, got |-> got, finished |-> TRUE]
      BY <1>1, <1>3, <1>4, <1>7 DEF Arrives
    <2>3. next + 1 \in Nat /\ next <= next + 1
      OBVIOUS
    <2>4. peer' \in Peers /\ peer'.next = next + 1 /\ peer'.edge = edge /\ peer'.got = got /\ peer'.finished = TRUE
      BY <2>2, <2>3 DEF Peers
    <2>5. NetTypes'
      BY <1>0, <1>2, <2>4 DEF NetTypes
    <2>6. PeerInv'
      <3>1. OneIf(peer.finished)' = 1
        BY <2>4 DEF OneIf
      <3>2. edge <= (next + 1) + PeerWindow
        BY <1>5
      <3>3. PeerGetsTheStream'
        BY <1>2, <1>3, <1>5, <2>4 DEF PeerGetsTheStream
      <3>4. FinComesBehind' /\ AcceptedFitsWindow'
        BY <1>2, <1>3, <1>5, <2>1, <2>4 DEF FinComesBehind, AcceptedFitsWindow
      <3>5. /\ peer'.next = Len(peer'.got) + 1 /\ Len(peer'.got) <= peer'.edge
            /\ peer'.edge <= peer'.next + PeerWindow /\ sar'.finSent
        BY <1>2, <1>3, <2>1, <2>4, <3>2
      <3> QED BY <3>1, <3>3, <3>4, <3>5 DEF PeerInv
    <2> QED BY <1>6, <2>3, <2>4, <2>5, <2>6
  <1>8. CASE ~(seg.fin /\ seg.seq = next)
    <2>1. PICK new \in Seq(Int), cnt \in Nat :
             /\ new = NewBytes(seg) /\ cnt = Len(new)
             /\ \A i \in 1 .. cnt : new[i] = next + i - 1 \/ (sar.finSent /\ at <= next + i - 1)
             /\ cnt # 0 => next + cnt <= seg.seq + Len(seg.data) /\ next + cnt <= edge
      BY <1>0, <1>1, <1>3, NewBytesAre
    <2>2. PICK all \in Seq(Int) : /\ all = got \o new /\ Len(all) = len + cnt
                                  /\ \A k \in 1 .. len + cnt : all[k] = IF k <= len THEN got[k] ELSE new[k - len]
      <3>1. /\ got \o new \in Seq(Int) /\ Len(got \o new) = Len(got) + Len(new)
            /\ \A k \in 1 .. Len(got) + Len(new) :
                  (got \o new)[k] = IF k <= Len(got) THEN got[k] ELSE new[k - Len(got)]
        BY ConcatProperties
      <3>2. Len(got) = len /\ Len(new) = cnt
        BY <1>3, <2>1
      <3> QED BY <3>1, <3>2
    <2>3. peer' = [next |-> next + cnt, edge |-> edge, got |-> all, finished |-> FALSE]
      <3>1. peer' = [peer EXCEPT !.next = next + cnt, !.got = all]
        BY <1>1, <1>3, <1>8, <2>1, <2>2 DEF Arrives
      <3> QED BY <1>4, <3>1
    <2>4. next + cnt \in Nat /\ next <= next + cnt
      OBVIOUS
    <2>5. peer' \in Peers /\ peer'.next = next + cnt /\ peer'.edge = edge /\ peer'.got = all /\ peer'.finished = FALSE
      BY <2>3, <2>4 DEF Peers
    <2>6. NetTypes'
      BY <1>0, <1>2, <2>5 DEF NetTypes
    <2>7. ASSUME NEW k \in 1 .. len + cnt, sar.finSent => k <= at PROVE all[k] = k - 1
      <3>1. CASE k <= len
        BY <1>5, <2>2, <2>7, <3>1
      <3>2. CASE ~(k <= len)
        <4>1. k - len \in 1 .. cnt /\ next + (k - len) - 1 = k - 1
          BY <1>3, <3>2
        <4>2. new[k - len] = k - 1 \/ (sar.finSent /\ at <= k - 1)
          BY <2>1, <4>1
        <4>3. ~(sar.finSent /\ at <= k - 1)
          BY <2>7
        <4> QED BY <2>2, <3>2, <4>2, <4>3
      <3> QED BY <3>1, <3>2
    <2>8. ~sar.finSent => next + cnt <= sar.not_ackd
      <3>1. CASE cnt = 0
        BY <1>5, <3>1
      <3>2. CASE cnt # 0
        <4>1. PICK end \in Nat, not_ackd \in Nat : end = seg.seq + Len(seg.data) /\ not_ackd = sar.not_ackd
          <5>1. seg.seq \in Nat /\ Len(seg.data) \in Nat /\ sar.not_ackd \in Nat
            BY <1>0 DEF Segments, SarTypes
          <5>2. seg.seq + Len(seg.data) \in Nat
            BY <5>1
          <5> QED BY <5>1, <5>2
        <4>2. ~sar.finSent => end <= not_ackd
          BY <1>1, <4>1 DEF Sound
        <4> QED BY <2>1, <3>2, <4>1, <4>2
      <3> QED BY <3>1, <3>2
    <2>9. len + cnt <= edge
      BY <1>3, <2>1
    <2>10. PeerInv'
      <3>1. OneIf(peer.finished)' = 0 /\ edge <= (next + cnt) + PeerWindow
        BY <1>5, <2>5 DEF OneIf
      <3>2. PeerGetsTheStream'
        BY <1>2, <1>3, <2>2, <2>5, <2>7 DEF PeerGetsTheStream
      <3>3. FinComesBehind' /\ AcceptedFitsWindow'
        BY <1>2, <1>3, <1>5, <2>5 DEF FinComesBehind, AcceptedFitsWindow
      <3>4. Len(peer'.got) = len + cnt /\ peer'.next = len + cnt
        BY <1>3, <2>2, <2>5
      <3>5. /\ peer'.next = Len(peer'.got) + 0 /\ Len(peer'.got) <= peer'.edge
            /\ peer'.edge <= peer'.next + PeerWindow
            /\ ~sar'.finSent => peer'.next <= sar'.not_ackd
        BY <1>2, <1>3, <2>5, <2>8, <2>9, <3>1, <3>4
      <3> QED BY <3>1, <3>2, <3>3, <3>5 DEF PeerInv
    <2> QED BY <1>6, <2>4, <2>5, <2>6, <2>10
  <1> QED BY <1>7, <1>8

LEMMA PeerRepliesStep ==
    ASSUME IInv, PeerReplies,
           UNCHANGED <<established, app, finEvents, appEvents, others, sar, tx, finReceived, hist>>
    PROVE  IInv'
  <1>0. AppTypes /\ SarTypes /\ NetTypes /\ RepliesInv /\ PeerInv
    BY DEF IInv, TypeOK
  <1>1. PICK next \in Nat, edge \in Nat, len \in Nat, a \in Nat, more \in Nat :
           /\ next = peer.next /\ edge = peer.edge /\ len = Len(peer.got) /\ a = accepted
           /\ len <= edge /\ a <= edge /\ more = next + PeerWindow /\ edge <= more
    <2>1. /\ peer.next \in Nat /\ peer.edge \in Nat /\ Len(peer.got) \in Nat /\ accepted \in Nat
          /\ PeerWindow \in Nat
      BY <1>0, WindowIs DEF NetTypes, Peers, AppTypes
    <2>2. peer.next + PeerWindow \in Nat
      BY <2>1
    <2> QED BY <1>0, <2>1, <2>2 DEF PeerInv, AcceptedFitsWindow
  <1>2. PICK edge1 \in Nat, win \in Nat :
           /\ edge <= edge1 /\ edge1 <= more /\ (win > 0 => next + win <= edge1)
           /\ peer' = [peer EXCEPT !.edge = edge1]
           /\ replies' = Carry(replies, ReplyDepth, [ack |-> next, win |-> win])
           /\ UNCHANGED segments
    <2>1. PICK e \in {edge, more} :
             /\ peer' = [peer EXCEPT !.edge = e]
             /\ replies' = Carry(replies, ReplyDepth, [ack |-> next, win |-> Max({e - next, 0})])
             /\ UNCHANGED segments
      BY <1>1 DEF PeerReplies
    <2>2. PICK win \in Nat : win = Max({e - next, 0}) /\ (win > 0 => next + win <= e)
      <3>1. PICK d \in Int : d = e - next
        BY <1>1
      <3>2. Max({d, 0}) = IF d >= 0 THEN d ELSE 0
        BY MaxOf
      <3> QED BY <1>1, <3>1, <3>2
    <2> QED BY <1>1, <2>1, <2>2
  <1>3. /\ peer' \in Peers /\ peer'.next = next /\ peer'.edge = edge1
        /\ peer'.got = peer.got /\ peer'.finished = peer.finished
    BY <1>0, <1>1, <1>2 DEF NetTypes, Peers
  <1>4. PICK r \in Replies : r = [ack |-> next, win |-> win] /\ r.ack = next /\ r.win = win
    <2>1. [ack |-> next, win |-> win] \in Replies
      BY DEF Replies
    <2> QED BY <2>1
  <1>5. /\ replies' \in Seq(Replies)
        /\ \A i \in DOMAIN replies' : replies'[i] = r \/ \E j \in DOMAIN replies : replies'[i] = replies[j]
    BY <1>0, <1>2, <1>4, WindowIs, CarryFacts DEF NetTypes
  <1>6. NetTypes'
    BY <1>0, <1>2, <1>3, <1>5 DEF NetTypes
  <1>7. RepliesInv'
    <2>1. ASSUME NEW i \in DOMAIN replies'
          PROVE  replies'[i].ack <= next /\ (replies'[i].win > 0 => replies'[i].ack + replies'[i].win <= edge1)
      <3>1. CASE replies'[i] = r
        BY <1>2, <1>4, <3>1
      <3>2. CASE \E j \in DOMAIN replies : replies'[i] = replies[j]
        <4>1. PICK j \in DOMAIN replies : replies'[i] = replies[j]
          BY <3>2
        <4>2. PICK s \in Replies : s = replies[j]
          BY <1>0 DEF NetTypes
        <4>3. s.ack <= next /\ (s.win > 0 => s.ack + s.win <= edge) /\ s.ack \in Nat /\ s.win \in Nat
          BY <1>0, <1>1, <4>2 DEF RepliesInv, Replies
        <4> QED BY <1>2, <4>1, <4>2, <4>3
      <3> QED BY <1>5, <3>1, <3>2
    <2> QED BY <1>3, <2>1 DEF RepliesInv
  <1>8. PeerInv'
    <2>1. UNCHANGED <<accepted, sar, finAt>> /\ OneIf(peer.finished)' = OneIf(peer.finished)
      BY <1>3 DEF app, hist, OneIf
    <2> QED BY <1>0, <1>1, <1>2, <1>3, <2>1 DEF PeerInv, PeerGetsTheStream, FinComesBehind,
                                               AcceptedFitsWindow
  <1>9. /\ \A i \in DOMAIN segments' : \E j \in DOMAIN segments : segments'[i] = segments[j]
        /\ peer.next <= peer'.next /\ peer.edge <= peer'.edge
    BY <1>1, <1>2, <1>3
  <1> QED BY <1>6, <1>7, <1>8, <1>9, PeerStep
-----------------------------------------------------------------------------
LEMMA InitHolds == Init => IInv
  <1> SUFFICES ASSUME Init PROVE IInv
    OBVIOUS
  <1>1. /\ established = TRUE /\ pushes = <<>> /\ write = None /\ finEvents = <<>> /\ txEvents = <<>>
        /\ appEvents = <<>> /\ others = <<>> /\ tx = None /\ finReceived = FALSE
        /\ sar = [ackd |-> 0, not_ackd |-> 0, finSent |-> FALSE]
        /\ accepted = 0 /\ finAt = 0 /\ fins = 0 /\ segments = <<>> /\ replies = <<>>
        /\ peer = [next |-> 0, edge |-> PeerWindow, got |-> <<>>, finished |-> FALSE]
    BY DEF Init
  <1>2. PICK least \in Nat : /\ appTable = [ackd |-> 0, mempt |-> 0, min_window |-> least]
                             /\ least <= PeerWindow
    <2>1. PICK cong \in Nat : appTable = [ackd |-> 0, mempt |-> 0, min_window |-> Min({cong, PeerWindow})]
      BY WindowIs DEF Init
    <2>2. PeerWindow \in Int /\ cong \in Int /\ PeerWindow \in Nat
      BY WindowIs
    <2>3. Min({cong, PeerWindow}) \in Nat /\ Min({cong, PeerWindow}) <= PeerWindow
      BY <2>2, MinOf
    <2> QED BY <2>1, <2>3
  <1>3. /\ appTable \in Copies /\ appTable.ackd = 0 /\ appTable.mempt = 0 /\ appTable.min_window = least
    BY <1>2 DEF Copies
  <1>4. /\ sar \in [ackd : Nat, not_ackd : Nat, finSent : BOOLEAN]
        /\ sar.ackd = 0 /\ sar.not_ackd = 0 /\ sar.finSent = FALSE
    BY <1>1
  <1>5. /\ peer \in Peers /\ peer.next = 0 /\ peer.edge = PeerWindow /\ peer.got = <<>>
        /\ peer.finished = FALSE /\ PeerWindow \in Nat
    BY <1>1, WindowIs DEF Peers
  <1>6. TypeOK
    <2>1. AppTypes
      BY <1>1, <1>3 DEF AppTypes
    <2>2. EventTypes
      BY <1>1 DEF EventTypes
    <2>3. SarTypes
      BY <1>1, <1>4 DEF SarTypes
    <2>4. NetTypes
      BY <1>1, <1>5 DEF NetTypes
    <2> QED BY <2>1, <2>2, <2>3, <2>4 DEF TypeOK
  <1>7. ChainInv
    <2>1. Taken = 0 /\ ~Sends("TX")
      BY <1>1, <1>4 DEF Taken, Sends
    <2>2. Covers(appEvents, 0, 0) /\ Covers(txEvents, 0, accepted)
      BY <1>1, CoversEmpty
    <2> QED BY <2>1, <2>2 DEF ChainInv
  <1>8. SarInv
    BY <1>1, <1>4, <1>5 DEF SarInv, Sends
  <1>9. CopyInv
    <2>1. Fits(appTable)
      BY <1>2, <1>3, <1>5 DEF Fits
    <2> QED BY <1>1, <1>3, <1>4, <2>1, WindowIs DEF CopyInv
  <1>10. SegmentsInv /\ RepliesInv
    BY <1>1 DEF SegmentsInv, RepliesInv
  <1>11. PeerInv
    <2>1. OneIf(peer.finished) = 0 /\ Len(peer.got) = 0
      BY <1>5 DEF OneIf
    <2>2. PeerGetsTheStream
      BY <2>1 DEF PeerGetsTheStream
    <2>3. FinComesBehind /\ AcceptedFitsWindow
      BY <1>1, <1>5 DEF FinComesBehind, AcceptedFitsWindow
    <2>4. /\ peer.next = Len(peer.got) + OneIf(peer.finished) /\ Len(peer.got) <= peer.edge
          /\ peer.edge <= peer.next + PeerWindow /\ peer.next <= sar.not_ackd
      BY <1>4, <1>5, <2>1
    <2> QED BY <2>2, <2>3, <2>4 DEF PeerInv
  <1> QED BY <1>6, <1>7, <1>8, <1>9, <1>10, <1>11 DEF IInv

LEMMA NextKeeps == Unchecked = FALSE /\ IInv /\ [Next]_vars => IInv'
  <1> SUFFICES ASSUME Unchecked = FALSE, IInv, [Next]_vars PROVE IInv'
    OBVIOUS
  <1>1. CASE tx_app_table \/ ReadMeta \/ Write
    BY <1>1, ApplyPushStep, AnswerQueryStep, ReadMetaStep, ReadRequestStep DEF tx_app_table
  <1>2. CASE CloseConnection \/ txEventMerger
    BY <1>2, CloseStep, MergerStep
  <1>3. CASE TakeAppEvent \/ TakeOtherEvent
    BY <1>3, TakeStep
  <1>4. CASE Finish
    BY <1>4, SendNewStep, ResendPartStep, ResendLastStep, SendFinStep DEF Finish, Resend
  <1>5. CASE RetransmitTimer \/ rxEngTcpFSM
    BY <1>5, RetransmitTimerStep, rxEngTcpFSMStep
  <1>6. CASE Outside
    BY <1>6, PeerReceivesStep, PeerRepliesStep DEF Outside
  <1>7. CASE UNCHANGED vars
    <2>1. UNCHANGED <<established, appTable, pushes, write, txEvents, accepted, finEvents, appEvents, others,
                      sar, tx, finReceived, hist, segments, replies, peer>>
      BY <1>7 DEF vars, app, net
    <2> QED BY <2>1, TypesKept, StreamKept, NetKept DEF IInv, TypeOK
  <1> QED BY <1>1, <1>2, <1>3, <1>4, <1>5, <1>6, <1>7 DEF Next, TxStep

LEMMA Invariance == Unchecked = FALSE => (Spec => []IInv)
  <1>1. CASE Unchecked = FALSE
    <2>1. IInv /\ [Next]_vars => IInv'
      BY <1>1, NextKeeps
    <2> QED BY <2>1, InitHolds, PTL DEF Spec
  <1> QED BY <1>1

(* The copies, events, tables and segments are what they should be,        *)
(* whatever the application writes and however often it closes.            *)
THEOREM TypeCorrect == Unchecked = FALSE => (Spec => []TypeOK)
  <1>1. IInv => TypeOK
    BY DEF IInv
  <1> QED BY <1>1, Invariance, PTL

(* Whatever is lost, repeated, reordered and sent again from the buffer,   *)
(* and whatever number a second FIN takes, the peer gets the bytes the     *)
(* application wrote up to the first FIN, in their order                   *)
(* (tx_engine.cpp:463-488, tx_app_stream_if.cpp:74-130).                   *)
THEOREM StreamArrives == Unchecked = FALSE => (Spec => []PeerGetsTheStream)
  <1>1. IInv => PeerGetsTheStream
    BY DEF IInv, PeerInv
  <1> QED BY <1>1, Invariance, PTL

(* No FIN, not even one of a second close or one sent again, makes the     *)
(* peer take the stream to end before what was sent in front of the first  *)
(* (tx_engine.cpp:620-660, tx_app_if.cpp:115-138).                         *)
THEOREM FinComesLast == Unchecked = FALSE => (Spec => []FinComesBehind)
  <1>1. IInv => FinComesBehind
    BY DEF IInv, PeerInv
  <1> QED BY <1>1, Invariance, PTL

(* No write is accepted that the window of the peer does not hold,         *)
(* although READ_META works on an old copy of acknowledgement and window.  *)
THEOREM WritesFit == Unchecked = FALSE => (Spec => []AcceptedFitsWindow)
  <1>1. IInv => AcceptedFitsWindow
    BY DEF IInv, PeerInv
  <1> QED BY <1>1, Invariance, PTL
-----------------------------------------------------------------------------
(* The sending half implements ByteStream, whose positions stay where they *)
(* are at the first FIN.                                                   *)
StreamAccepted == IF sar.finSent THEN finAt ELSE accepted
StreamSent == IF sar.finSent THEN finAt ELSE sar.not_ackd
StreamAcked == IF sar.finSent /\ finAt < sar.ackd THEN finAt ELSE sar.ackd

(* The positions of ByteStream are those of the invariant.                 *)
InStream ==
    /\ accepted \in Nat /\ finAt \in Nat /\ sar.ackd \in Nat /\ sar.not_ackd \in Nat
    /\ (IF sar.finSent THEN Min({sar.ackd, finAt}) ELSE sar.ackd) = StreamAcked
    /\ sar.ackd <= sar.not_ackd /\ accepted - sar.ackd < Window
    /\ IF sar.finSent THEN finAt <= accepted ELSE sar.not_ackd <= accepted

LEMMA StreamIs == IInv => InStream
  <1> SUFFICES ASSUME IInv PROVE InStream
    OBVIOUS
  <1>0. AppTypes /\ EventTypes /\ SarTypes /\ CopyInv /\ ChainInv /\ SarInv
    BY DEF IInv, TypeOK
  <1>1. PICK a \in Nat, at \in Nat, ackd \in Nat, not_ackd \in Nat, copy \in Nat :
           /\ a = accepted /\ at = finAt /\ ackd = sar.ackd /\ not_ackd = sar.not_ackd
           /\ copy = appTable.ackd
    BY <1>0 DEF AppTypes, SarTypes, Copies
  <1>2. ackd <= not_ackd /\ a - copy < Window /\ copy <= ackd
    BY <1>0, <1>1 DEF SarInv, CopyInv
  <1>3. a - ackd < Window
    BY <1>2, WindowIs
  <1>4. IF sar.finSent THEN at <= a ELSE not_ackd <= a
    BY <1>0, <1>1, SentWasAccepted DEF SarInv
  <1>5. (IF sar.finSent THEN Min({sar.ackd, finAt}) ELSE sar.ackd) = StreamAcked
    <2>1. Min({ackd, at}) = IF ackd <= at THEN ackd ELSE at
      BY MinOf
    <2> QED BY <1>1, <2>1 DEF StreamAcked
  <1> QED BY <1>1, <1>2, <1>3, <1>4, <1>5 DEF InStream

(* A step accepts, sends, ends, acknowledges or does none of it.           *)
LEMMA StreamMoves ==
    ASSUME Unchecked = FALSE, IInv, IInv', [Next]_vars
    PROVE  \/ UNCHANGED <<accepted, sar, finAt>>
           \/ /\ UNCHANGED <<sar, finAt>> /\ \E n \in 1 .. Window - 1 : accepted' = accepted + n
           \/ /\ UNCHANGED <<accepted, finAt>> /\ sar'.ackd = sar.ackd /\ sar'.finSent = sar.finSent
              /\ sar.not_ackd <= sar'.not_ackd
           \/ /\ UNCHANGED accepted /\ sar'.ackd = sar.ackd /\ sar'.finSent
              /\ finAt' = (IF sar.finSent THEN finAt ELSE sar.not_ackd)
              /\ sar.not_ackd <= sar'.not_ackd
           \/ /\ UNCHANGED <<accepted, finAt>> /\ sar.ackd <= sar'.ackd
              /\ sar'.not_ackd = sar.not_ackd /\ sar'.finSent = sar.finSent
  <1>0. AppTypes /\ EventTypes /\ SarTypes /\ NetTypes /\ SarInv
    BY DEF IInv, TypeOK
  <1>1. CASE ReadMeta
    <2>1. UNCHANGED <<sar, finAt>>
      BY <1>1 DEF ReadMeta, hist
    <2>2. CASE ~UNCHANGED accepted
      <3>1. accepted' = accepted + write.length /\ write.length \in 1 .. Window - 1
        BY <1>0, <1>1, <2>2, WindowIs DEF ReadMeta, AppTypes, Writes
      <3> QED BY <2>1, <3>1
    <2> QED BY <2>1, <2>2
  <1>2. CASE SendNew
    <2>1. PICK n \in Nat, not_ackd \in Nat :
             n = tx.event.length /\ not_ackd = sar.not_ackd /\ tx.not_ackd = not_ackd
      BY <1>0, <1>2, EventIs DEF SendNew, SarTypes, Transmissions, SarInv
    <2>2. UNCHANGED <<accepted, finAt>>
      BY <1>2 DEF SendNew, Transmit, app, hist
    <2>3. sar' = [sar EXCEPT !.not_ackd = not_ackd + n, !.finSent = sar.finSent]
      <3>1. PICK f \in BOOLEAN : f = sar.finSent
        BY <1>0 DEF SarTypes
      <3>2. (f \/ FALSE) = f
        BY <3>1
      <3>3. sar' = [sar EXCEPT !.not_ackd = not_ackd + n, !.finSent = f \/ FALSE]
        BY <1>2, <2>1, <3>1 DEF SendNew, UpdateSar
      <3> QED BY <3>1, <3>2, <3>3
    <2>4. sar'.ackd = sar.ackd /\ sar'.not_ackd = not_ackd + n /\ sar'.finSent = sar.finSent
      BY <1>0, <2>3 DEF SarTypes
    <2> QED BY <2>1, <2>2, <2>4
  <1>3. CASE SendFin
    <2>1. UNCHANGED accepted
      BY <1>3 DEF SendFin, Transmit, app
    <2>2. CASE tx.event.again
      BY <1>3, <2>1, <2>2 DEF SendFin, hist
    <2>3. CASE ~tx.event.again
      <3>1. tx.not_ackd = sar.not_ackd /\ tx.finSent = sar.finSent
        BY <1>0, <1>3 DEF SarInv, SendFin
      <3>2. /\ sar' = [sar EXCEPT !.not_ackd = sar.not_ackd + 1, !.finSent = TRUE]
            /\ finAt' = IF sar.finSent THEN finAt ELSE sar.not_ackd
        <4>1. (sar.finSent \/ TRUE) = TRUE
          OBVIOUS
        <4> QED BY <1>3, <2>3, <3>1, <4>1 DEF SendFin, UpdateSar
      <3>3. sar'.ackd = sar.ackd /\ sar'.finSent = TRUE /\ sar.not_ackd <= sar'.not_ackd
        BY <1>0, <3>2 DEF SarTypes
      <3> QED BY <2>1, <3>2, <3>3
    <2> QED BY <2>2, <2>3
  <1>4. CASE rxEngTcpFSM
    <2>1. PICK i \in 1 .. Len(replies) : RxAck(replies[i]) \/ RxFin(replies[i])
      BY <1>4 DEF rxEngTcpFSM
    <2>2. PICK r \in Replies : RxAck(r) \/ RxFin(r)
      BY <1>0, <2>1 DEF NetTypes
    <2>3. UNCHANGED <<accepted, finAt>>
      BY <1>4 DEF rxEngTcpFSM, hist
    <2>4. CASE UNCHANGED sar
      BY <2>3, <2>4
    <2>5. CASE WriteSar(r.ack, r.win) /\ InRange(r.ack, sar.ackd, sar.not_ackd)
      <3>1. sar' = [sar EXCEPT !.ackd = r.ack]
        BY <2>5 DEF WriteSar
      <3>2. sar'.ackd = r.ack /\ sar'.not_ackd = sar.not_ackd /\ sar'.finSent = sar.finSent
        BY <1>0, <3>1 DEF SarTypes
      <3>3. sar.ackd <= r.ack
        <4>1. sar.ackd \in Nat /\ sar.not_ackd \in Nat /\ r.ack \in Nat /\ sar.ackd <= sar.not_ackd
          BY <1>0 DEF SarTypes, Replies, SarInv
        <4> QED BY <2>5, <4>1 DEF InRange
      <3> QED BY <2>3, <3>2, <3>3
    <2> QED BY <2>2, <2>4, <2>5 DEF RxAck, RxFin
  <1>5. CASE tx_app_table \/ txEventMerger \/ RetransmitTimer \/ Write \/ CloseConnection \/ Outside
    <2>1. UNCHANGED <<accepted, sar, finAt>>
      BY <1>5 DEF tx_app_table, ApplyPush, AnswerQuery, txEventMerger, RetransmitTimer, Write, ReadRequest,
                  CloseConnection, Outside, app, hist
    <2> QED BY <2>1
  <1>6. CASE TakeAppEvent \/ TakeOtherEvent \/ Resend
    <2>1. UNCHANGED <<accepted, sar, finAt>>
      BY <1>6 DEF TakeAppEvent, TakeOtherEvent, Begin, Resend, ResendPart, ResendLast, Transmit, app, hist
    <2> QED BY <2>1
  <1>7. CASE UNCHANGED vars
    BY <1>7 DEF vars, app, hist
  <1> QED BY <1>1, <1>2, <1>3, <1>4, <1>5, <1>6, <1>7 DEF Next, TxStep, Finish

LEMMA StreamSteps ==
    ASSUME Unchecked = FALSE, IInv, IInv', InStream, InStream', [Next]_vars
    PROVE  [Stream!Next]_Stream!vars
  <1>1. PICK a \in Nat, s \in Nat, k \in Nat, a1 \in Nat, s1 \in Nat, k1 \in Nat :
           /\ a = StreamAccepted /\ s = StreamSent /\ k = StreamAcked
           /\ a1 = StreamAccepted' /\ s1 = StreamSent' /\ k1 = StreamAcked'
    BY DEF InStream, StreamAccepted, StreamSent, StreamAcked
  <1>2. /\ (IF sar.finSent THEN finAt ELSE accepted) = a
        /\ (IF sar.finSent THEN finAt ELSE accepted)' = a1
        /\ (IF sar.finSent THEN finAt ELSE sar.not_ackd) = s
        /\ (IF sar.finSent THEN finAt ELSE sar.not_ackd)' = s1
        /\ (IF sar.finSent THEN Min({sar.ackd, finAt}) ELSE sar.ackd) = k
        /\ (IF sar.finSent THEN Min({sar.ackd, finAt}) ELSE sar.ackd)' = k1
    BY <1>1 DEF InStream, StreamAccepted, StreamSent
  <1>3. k <= s /\ s <= a /\ k1 <= s1 /\ s1 <= a1 /\ a1 - k1 < Window
    BY <1>1, WindowIs DEF InStream, StreamAccepted, StreamSent, StreamAcked
  <1>4. \/ a1 = a /\ s1 = s /\ k1 = k /\ sar'.finSent = sar.finSent
        \/ ~sar.finSent /\ ~sar'.finSent /\ s1 = s /\ k1 = k /\ \E n \in 1 .. Window - 1 : a1 = a + n
        \/ ~sar.finSent /\ ~sar'.finSent /\ a1 = a /\ k1 = k /\ s < s1
        \/ ~sar.finSent /\ sar'.finSent /\ a1 = s /\ s1 = s /\ k1 = k
        \/ sar'.finSent = sar.finSent /\ a1 = a /\ s1 = s /\ k < k1
    <2>0. sar.finSent \in BOOLEAN /\ sar'.finSent \in BOOLEAN
      BY DEF IInv, TypeOK, SarTypes
    <2>1. CASE UNCHANGED <<accepted, sar, finAt>>
      BY <1>1, <2>1 DEF StreamAccepted, StreamSent, StreamAcked
    <2>2. CASE UNCHANGED <<sar, finAt>> /\ \E n \in 1 .. Window - 1 : accepted' = accepted + n
      BY <1>1, <2>0, <2>2 DEF StreamAccepted, StreamSent, StreamAcked
    <2>3. CASE /\ UNCHANGED <<accepted, finAt>> /\ sar'.ackd = sar.ackd /\ sar'.finSent = sar.finSent
               /\ sar.not_ackd <= sar'.not_ackd
      BY <1>1, <2>0, <2>3 DEF StreamAccepted, StreamSent, StreamAcked, InStream
    <2>4. CASE /\ UNCHANGED accepted /\ sar'.ackd = sar.ackd /\ sar'.finSent
               /\ finAt' = IF sar.finSent THEN finAt ELSE sar.not_ackd
      <3>1. CASE sar.finSent
        <4>1. sar'.finSent = sar.finSent
          BY <2>0, <2>4, <3>1
        <4> QED BY <1>1, <2>4, <3>1, <4>1 DEF StreamAccepted, StreamSent, StreamAcked
      <3>2. CASE ~sar.finSent
        <4>1. PICK ackd \in Nat, not_ackd \in Nat :
                 ackd = sar.ackd /\ not_ackd = sar.not_ackd /\ ackd <= not_ackd
          BY DEF InStream
        <4>2. k = ackd /\ s = not_ackd
          BY <1>1, <3>2, <4>1 DEF StreamSent, StreamAcked
        <4>3. finAt' = not_ackd /\ sar'.ackd = ackd /\ sar'.finSent
          BY <2>4, <3>2, <4>1
        <4>4. k1 = ackd /\ s1 = not_ackd /\ a1 = not_ackd
          BY <1>1, <4>1, <4>3 DEF StreamAccepted, StreamSent, StreamAcked
        <4> QED BY <3>2, <4>2, <4>3, <4>4
      <3> QED BY <3>1, <3>2
    <2>5. CASE /\ UNCHANGED <<accepted, finAt>> /\ sar.ackd <= sar'.ackd
               /\ sar'.not_ackd = sar.not_ackd /\ sar'.finSent = sar.finSent
      <3>1. a1 = a /\ s1 = s /\ k <= k1
        BY <1>1, <2>5 DEF StreamAccepted, StreamSent, StreamAcked, InStream
      <3> QED BY <2>5, <3>1
    <2> QED BY <2>1, <2>2, <2>3, <2>4, <2>5, StreamMoves
  <1>5. CASE a1 = a /\ s1 = s /\ k1 = k /\ sar'.finSent = sar.finSent
    BY <1>2, <1>5 DEF Stream!vars
  <1>6. CASE ~sar.finSent /\ ~sar'.finSent /\ s1 = s /\ k1 = k /\ \E n \in 1 .. Window - 1 : a1 = a + n
    <2>1. UNCHANGED sar.finSent
      <3>1. sar.finSent \in BOOLEAN /\ sar'.finSent \in BOOLEAN
        BY DEF IInv, TypeOK, SarTypes
      <3> QED BY <1>6, <3>1
    <2>2. Stream!Accept
      BY <1>2, <1>3, <1>6, <2>1 DEF Stream!Accept
    <2> QED BY <2>2 DEF Stream!Next
  <1>7. CASE ~sar.finSent /\ ~sar'.finSent /\ a1 = a /\ k1 = k /\ s < s1
    <2>1. UNCHANGED sar.finSent
      <3>1. sar.finSent \in BOOLEAN /\ sar'.finSent \in BOOLEAN
        BY DEF IInv, TypeOK, SarTypes
      <3> QED BY <1>7, <3>1
    <2>2. s1 - s \in 1 .. a - s /\ s1 = s + (s1 - s)
      BY <1>3, <1>7
    <2>3. Stream!Send
      BY <1>2, <1>7, <2>1, <2>2 DEF Stream!Send
    <2> QED BY <2>3 DEF Stream!Next
  <1>8. CASE ~sar.finSent /\ sar'.finSent /\ a1 = s /\ s1 = s /\ k1 = k
    <2>1. sar'.finSent = TRUE
      BY <1>8 DEF IInv, TypeOK, SarTypes
    <2>2. Stream!End
      BY <1>2, <1>8, <2>1 DEF Stream!End
    <2> QED BY <2>2 DEF Stream!Next
  <1>9. CASE sar'.finSent = sar.finSent /\ a1 = a /\ s1 = s /\ k < k1
    <2>1. k1 - k \in 1 .. s - k /\ k1 = k + (k1 - k)
      BY <1>3, <1>9
    <2>2. Stream!Acknowledge
      BY <1>2, <1>9, <2>1 DEF Stream!Acknowledge
    <2> QED BY <2>2 DEF Stream!Next
  <1> QED BY <1>4, <1>5, <1>6, <1>7, <1>8, <1>9

(* The sending half of the connection, with its FIFOs, its copies of       *)
(* tx_sar_table, its retransmissions and its repeated FINs, implements the *)
(* stream that accepts, sends and acknowledges bytes in their order and    *)
(* ends behind what was sent.                                              *)
THEOREM IsAStream == Unchecked = FALSE => (Spec => ImplementsStream)
  <1>1. Init => Stream!Init
    BY DEF Init, Stream!Init
  <1>2. CASE Unchecked = FALSE
    <2>1. IInv /\ IInv' /\ InStream /\ InStream' /\ [Next]_vars => [Stream!Next]_Stream!vars
      BY <1>2, StreamSteps
    <2>2. IInv => InStream
      BY StreamIs
    <2>3. Spec => []IInv
      BY <1>2, Invariance
    <2> QED BY <1>1, <2>1, <2>2, <2>3, PTL DEF Spec, ImplementsStream, Stream!Spec
  <1> QED BY <1>2

(* The buffer is never overrun: what the peer has not acknowledged is less *)
(* than the buffer holds, and it is what a retransmission reads.           *)
THEOREM BufferHolds == Unchecked = FALSE => (Spec => [](accepted - sar.ackd < Window))
  <1>1. IInv => accepted - sar.ackd < Window
    BY StreamIs DEF InStream
  <1> QED BY <1>1, Invariance, PTL

(* No position of the stream ever goes back: what the peer acknowledged    *)
(* stays acknowledged and a retransmission takes back nothing that was     *)
(* sent, although each is written from a copy of tx_sar_table, and the     *)
(* number of the first FIN is that of no other byte.                       *)
THEOREM PositionsOnlyGrow ==
    Unchecked = FALSE =>
      (Spec => [][/\ accepted <= accepted' /\ sar.ackd <= sar'.ackd /\ sar.not_ackd <= sar'.not_ackd
                  /\ sar.finSent => sar'.finSent /\ finAt' = finAt]_vars)
  <1> DEFINE Grow == /\ accepted <= accepted' /\ sar.ackd <= sar'.ackd /\ sar.not_ackd <= sar'.not_ackd
                     /\ sar.finSent => sar'.finSent /\ finAt' = finAt
  <1>1. CASE Unchecked = FALSE
    <2>1. IInv /\ IInv' /\ [Next]_vars => [Grow]_vars
      <3> SUFFICES ASSUME IInv, IInv', [Next]_vars PROVE Grow
        OBVIOUS
      <3>1. PICK a \in Nat, a1 \in Nat, k \in Nat, k1 \in Nat, s \in Nat, s1 \in Nat :
               /\ a = accepted /\ a1 = accepted' /\ k = sar.ackd /\ k1 = sar'.ackd
               /\ s = sar.not_ackd /\ s1 = sar'.not_ackd
        BY DEF IInv, TypeOK, AppTypes, SarTypes
      <3>2. sar.finSent \in BOOLEAN /\ sar'.finSent \in BOOLEAN
        BY DEF IInv, TypeOK, SarTypes
      <3>3. /\ sar.finSent => sar'.finSent /\ finAt' = finAt
            /\ a1 = a \/ \E n \in 1 .. Window - 1 : a1 = a + n
            /\ k <= k1 /\ s <= s1
        <4>1. CASE UNCHANGED <<sar, finAt>> /\ (UNCHANGED accepted \/ \E n \in 1 .. Window - 1 : accepted' = accepted + n)
          BY <3>1, <4>1
        <4>2. CASE /\ UNCHANGED accepted /\ sar.ackd <= sar'.ackd /\ sar.not_ackd <= sar'.not_ackd
                   /\ sar.finSent => sar'.finSent /\ finAt' = finAt
          BY <3>1, <4>2
        <4>3. sar.ackd <= sar.ackd /\ sar.not_ackd <= sar.not_ackd
          BY <3>1
        <4> QED BY <1>1, <3>2, <4>1, <4>2, <4>3, StreamMoves
      <3>4. a <= a1
        BY <3>3, WindowIs
      <3> QED BY <3>1, <3>3, <3>4
    <2>2. Spec => []IInv
      BY <1>1, Invariance
    <2> QED BY <2>1, <2>2, PTL DEF Spec
  <1> QED BY <1>1
=============================================================================
