-------------------------- MODULE MemoryAccessProofs --------------------------
(***************************************************************************)
(* Theorems about MemoryAccess, for any size of the buffer, of a word and  *)
(* of the segments, any of the streams' starts, and either side: what is   *)
(* read is what was written, and what was announced is in the memory.      *)
(* Assumed is that the buffer is a multiple of the range of lengths, that  *)
(* no segment ends where the buffer ends (ExactFit = FALSE) and that the   *)
(* session has an even ID: the code takes an exact fit for a crossing, and *)
(* the lowest bit of the ID for the end of the buffer (toe.hpp:600).       *)
(*                                                                         *)
(* The inductive invariant says for each FIFO which piece of the stream it *)
(* holds, so that the pieces of neighbours meet (Chain).  WInv is the      *)
(* writing side: the stream through the writer, the commands it splits at  *)
(* the end of the buffer, what the Data Mover has written, and the gate    *)
(* that announces a segment when all its parts are written.  RInv is the   *)
(* reading side: the requests, their reads, the parts the splitter makes   *)
(* of them, and where the aligner is in the words of the read it merges.   *)
(* A state of each says how many bytes of a word are kept back, as code    *)
(* that shifts words keeps them.  They share only the ends of the segments *)
(* (E) and how far the stream has come to the two that copy it (x), so a   *)
(* step of one side leaves the other as it is.  WayBack joins them.        *)
(***************************************************************************)
EXTENDS MemoryAccess, CommonLemmas, FiniteSetTheorems

(* The assumptions of MemoryAccess, and the two that the code needs.       *)
MemoryConstants ==
    ConstantsOK /\ ExactFit = FALSE /\ \A s \in Sessions : s % 2 = 0

(* What is chosen once: the side, the session and the address of byte 0.   *)
ChosenOK == side \in Sides /\ session \in Sessions /\ start \in Starts

(* Where the buffer of the session begins, and the byte of the stream that *)
(* is the first after its end.                                             *)
Base == session * BufferSize
Wrap == BufferSize - start

(* What is assumed of the constants.                                       *)
LEMMA ConstantFacts ==
    ASSUME MemoryConstants
    PROVE  /\ WordBytes \in Nat \ {0} /\ BufferSize \in Nat \ {0} /\ LengthRange \in Nat \ {0}
           /\ BufferSize % LengthRange = 0 /\ Sides \subseteq {"rx", "tx"}
           /\ Lengths \subseteq Nat \ {0} /\ \A l \in Lengths : l < LengthRange
           /\ NoByte \notin Int /\ ExactFit = FALSE
  BY DEF MemoryConstants, ConstantsOK

(* What is chosen has its place in the buffer.                             *)
LEMMA ChosenFacts ==
    ASSUME MemoryConstants, ChosenOK
    PROVE  /\ session \in Nat /\ session % 2 = 0 /\ start \in 0 .. BufferSize - 1
           /\ Base \in Nat /\ Wrap \in 1 .. BufferSize
  <1>1. session \in Nat /\ session % 2 = 0 /\ start \in 0 .. BufferSize - 1 /\ BufferSize \in Nat \ {0}
    BY DEF MemoryConstants, ConstantsOK, ChosenOK
  <1>2. session * BufferSize \in Nat
    BY <1>1
  <1> QED BY <1>1, <1>2 DEF Base, Wrap

(* Positions below BufferSize have their addresses on both sides of Wrap.  *)
LEMMA AddressIs ==
    ASSUME MemoryConstants, ChosenOK, NEW n \in 0 .. BufferSize - 1
    PROVE  /\ Address(n) = IF n < Wrap THEN Base + start + n ELSE Base + (n - Wrap)
           /\ Address(n) \in Buffers
           /\ Position(Address(n)) = Address(n) - Base /\ BaseOf(Address(n)) = Base
           /\ Address(n) - Base \in 0 .. BufferSize - 1
  <1> DEFINE p == IF n < Wrap THEN start + n ELSE n - Wrap
  <1>1. /\ session \in Nat /\ start \in 0 .. BufferSize - 1 /\ BufferSize \in Nat \ {0}
        /\ Base \in Nat /\ Wrap \in 1 .. BufferSize /\ Wrap = BufferSize - start
    BY ChosenFacts, ConstantFacts DEF Wrap
  <1>2. p \in 0 .. BufferSize - 1
    BY <1>1
  <1>3. (start + n) % BufferSize = p
    <2>1. CASE n < Wrap
      <3>1. start + n = BufferSize * 0 + p /\ start + n \in Int /\ 0 \in Int
        BY <1>1, <2>1
      <3> HIDE DEF p
      <3> QED BY <1>1, <1>2, <3>1, ModIs
    <2>2. CASE ~(n < Wrap)
      <3>1. start + n = BufferSize * 1 + p /\ start + n \in Int /\ 1 \in Int
        BY <1>1, <2>2
      <3> HIDE DEF p
      <3> QED BY <1>1, <1>2, <3>1, ModIs
    <2> QED BY <2>1, <2>2
  <1>4. Address(n) = Base + p
    BY <1>3 DEF Address, Base
  <1>5. PICK q \in 0 .. BufferSize - 1 : q = p
    BY <1>2
  <1> HIDE DEF p
  <1>6. (Base + q) % BufferSize = q
    <2>1. PICK i \in Int, j \in Int : i = Base + q /\ j = session
      BY <1>1
    <2>2. i = BufferSize * j + q
      BY <1>1, <2>1 DEF Base
    <2>3. i % BufferSize = q
      BY <1>1, <2>2, ModIs
    <2> QED BY <2>1, <2>3
  <1>7. Base + q \in Buffers
    BY DEF Buffers, Base, ChosenOK
  <1>8. Address(n) = Base + q /\ Position(Address(n)) = q /\ BaseOf(Address(n)) = Base
    BY <1>1, <1>4, <1>5, <1>6 DEF Position, BaseOf
  <1>9. q = IF n < Wrap THEN start + n ELSE n - Wrap
    BY <1>5 DEF p
  <1> QED BY <1>1, <1>7, <1>8, <1>9

(* No two bytes of the stream share an address.                            *)
LEMMA AddressInjective ==
    ASSUME MemoryConstants, ChosenOK,
           NEW n \in 0 .. BufferSize - 1, NEW m \in 0 .. BufferSize - 1, Address(n) = Address(m)
    PROVE  n = m
  <1>1. /\ start \in 0 .. BufferSize - 1 /\ BufferSize \in Nat \ {0}
        /\ Base \in Nat /\ Wrap = BufferSize - start
    BY ChosenFacts, ConstantFacts DEF Wrap
  <1> QED BY <1>1, AddressIs

(* A piece of the stream with no end of the buffer inside is contiguous.   *)
LEMMA AddressRuns ==
    ASSUME MemoryConstants, ChosenOK,
           NEW n \in 0 .. BufferSize - 1, NEW m \in 0 .. BufferSize - 1, n <= m, ~(n < Wrap /\ Wrap <= m)
    PROVE  Address(m) = Address(n) + (m - n)
  <1>1. /\ start \in 0 .. BufferSize - 1 /\ BufferSize \in Nat \ {0}
        /\ Base \in Nat /\ Wrap = BufferSize - start
    BY ChosenFacts, ConstantFacts DEF Wrap
  <1> QED BY <1>1, AddressIs

Crosses(from, to) == from < Wrap /\ Wrap < to

(* What may be written or read does not end where the buffer ends, and it  *)
(* overflows if and only if it crosses that end.                           *)
LEMMA FitIs ==
    ASSUME MemoryConstants, ChosenOK, NEW a \in Nat, NEW b \in Nat, a < b, b < BufferSize
    PROVE  MayFit(a, b - a) <=> b # Wrap
  <1>1. /\ start \in 0 .. BufferSize - 1 /\ BufferSize \in Nat \ {0}
        /\ Base \in Nat /\ Wrap = BufferSize - start /\ ExactFit = FALSE
    BY ChosenFacts, ConstantFacts DEF Wrap
  <1>2. PICK p \in 0 .. BufferSize - 1 : p = Position(Address(a)) /\ p = IF a < Wrap THEN start + a ELSE a - Wrap
    BY <1>1, AddressIs
  <1>3. MayFit(a, b - a) <=> p + (b - a) # BufferSize
    BY <1>1, <1>2 DEF MayFit
  <1> QED BY <1>1, <1>2, <1>3

LEMMA OverflowIs ==
    ASSUME MemoryConstants, ChosenOK, NEW a \in Nat, NEW b \in Nat, a < b, b < BufferSize, b # Wrap
    PROVE  /\ (Position(Address(a)) + (b - a) >= BufferSize) <=> Crosses(a, b)
           /\ Crosses(a, b) => BufferSize - Position(Address(a)) = Wrap - a
           /\ Overflows(Command(Address(a), b - a)) <=> Crosses(a, b)
  <1>1. /\ session \in Nat /\ start \in 0 .. BufferSize - 1 /\ BufferSize \in Nat \ {0} /\ session % 2 = 0
        /\ Base \in Nat /\ Wrap = BufferSize - start /\ ExactFit = FALSE /\ Base = BufferSize * session
    BY ChosenFacts, ConstantFacts DEF Wrap, Base
  <1>2. PICK p \in 0 .. BufferSize - 1 : p = Position(Address(a)) /\ Address(a) = Base + p
                                         /\ p = IF a < Wrap THEN start + a ELSE a - Wrap
    BY <1>1, AddressIs
  <1>3. p + (b - a) # BufferSize
    BY <1>1, <1>2
  <1>5. (p + (b - a) >= BufferSize) <=> Crosses(a, b)
    BY <1>1, <1>2, <1>3 DEF Crosses
  <1>6. Crosses(a, b) => BufferSize - p = Wrap - a
    BY <1>1, <1>2 DEF Crosses
  <1>7. Overflows(Command(Address(a), b - a)) <=> p + (b - a) >= BufferSize
    <2>1. Overflows(Command(Address(a), b - a)) <=> ((Base + p + (b - a)) \div BufferSize) % 2 = 1
      BY <1>2 DEF Overflows, Command, Bit
    <2>2. PICK r \in Int : r = p + (b - a) /\ r >= 0 /\ r < 2 * BufferSize
      BY <1>1, <1>2
    <2>3. CASE r < BufferSize
      <3>1. Base + r = BufferSize * session + r /\ Base + r \in Int /\ r \in 0 .. BufferSize - 1
        BY <1>1, <2>2, <2>3
      <3>2. (Base + r) \div BufferSize = session
        BY <1>1, <3>1, ModIs
      <3>3. Base + p + (b - a) = Base + r
        BY <1>1, <1>2, <2>2
      <3> QED BY <1>1, <2>1, <2>2, <2>3, <3>2, <3>3
    <2>4. CASE ~(r < BufferSize)
      <3>1. r - BufferSize \in 0 .. BufferSize - 1 /\ session + 1 \in Int
        BY <1>1, <2>2, <2>4
      <3>2. Base + r = BufferSize * (session + 1) + (r - BufferSize) /\ Base + r \in Int
        <4>1. BufferSize * (session + 1) = BufferSize * session + BufferSize
          BY <1>1
        <4> QED BY <1>1, <2>2, <4>1
      <3>3. (Base + r) \div BufferSize = session + 1
        BY <1>1, <3>1, <3>2, ModIs
      <3>4. Base + p + (b - a) = Base + r
        BY <1>1, <1>2, <2>2
      <3>5. (session + 1) % 2 = 1
        BY <1>1
      <3> QED BY <1>1, <2>1, <2>2, <2>4, <3>3, <3>4, <3>5
    <2> QED BY <2>3, <2>4
  <1> QED BY <1>2, <1>5, <1>6, <1>7
-----------------------------------------------------------------------------
(* FIFOs of adjacent pieces: each element goes from one number to another. *)
Chain(q, from, to, lo, hi) ==
    /\ lo \in Nat /\ hi \in Nat
    /\ q = <<>> => lo = hi
    /\ q # <<>> => from[q[1]] = lo /\ to[q[Len(q)]] = hi
    /\ \A i \in 1 .. Len(q) : /\ from[q[i]] \in Nat /\ to[q[i]] \in Nat
                              /\ from[q[i]] < to[q[i]] /\ to[q[i]] <= hi
    /\ \A i \in 1 .. Len(q) - 1 : to[q[i]] = from[q[i + 1]]

(* What appending, taking and joining do to a chain.                       *)
LEMMA ChainEmpty ==
    ASSUME NEW from, NEW to, NEW lo \in Nat
    PROVE  Chain(<<>>, from, to, lo, lo)
  BY DEF Chain

LEMMA ChainFacts ==
    ASSUME NEW S, NEW q \in Seq(S), NEW from, NEW to, NEW lo, NEW hi, Chain(q, from, to, lo, hi)
    PROVE  /\ lo \in Nat /\ hi \in Nat /\ lo <= hi
           /\ q = <<>> => lo = hi
           /\ q # <<>> => /\ lo < hi /\ from[Head(q)] = lo
                          /\ to[Head(q)] \in Nat /\ lo < to[Head(q)] /\ to[Head(q)] <= hi
  <1>1. CASE q = <<>>
    BY <1>1 DEF Chain
  <1>2. CASE q # <<>>
    <2>1. Head(q) = q[1] /\ 1 \in 1 .. Len(q)
      BY <1>2, EmptySeq, LenProperties, HeadTailProperties
    <2> QED BY <1>2, <2>1 DEF Chain
  <1> QED BY <1>1, <1>2

LEMMA ChainAppend ==
    ASSUME NEW S, NEW q \in Seq(S), NEW e \in S, NEW from, NEW to, NEW lo, NEW mid, NEW hi \in Nat,
           Chain(q, from, to, lo, mid), from[e] = mid, to[e] = hi, mid < hi
    PROVE  Chain(Append(q, e), from, to, lo, hi)
  <1> DEFINE r == Append(q, e)
  <1>1. /\ r \in Seq(S) /\ r # <<>> /\ Len(r) = Len(q) + 1
        /\ \A i \in 1 .. Len(q) : r[i] = q[i]
        /\ r[Len(q) + 1] = e /\ Len(q) \in Nat
    BY AppendFacts, LenProperties
  <1> HIDE DEF r
  <1>2. q # <<>> => Len(q) >= 1
    BY EmptySeq, <1>1
  <1>3. q = <<>> => Len(q) = 0
    OBVIOUS
  <1>4. from[r[1]] = lo /\ to[r[Len(r)]] = hi
    BY <1>1, <1>2, <1>3 DEF Chain
  <1>5. ASSUME NEW i \in 1 .. Len(r) - 1 PROVE to[r[i]] = from[r[i + 1]]
    <2>1. CASE i = Len(q)
      BY <1>1, <1>3, <2>1 DEF Chain
    <2>2. CASE i < Len(q)
      <3>1. i \in 1 .. Len(q) - 1 /\ r[i] = q[i] /\ r[i + 1] = q[i + 1]
        BY <1>1, <2>2
      <3> QED BY <3>1 DEF Chain
    <2> QED BY <1>1, <2>1, <2>2
  <1>6. ASSUME NEW i \in 1 .. Len(r)
        PROVE  from[r[i]] \in Nat /\ to[r[i]] \in Nat /\ from[r[i]] < to[r[i]] /\ to[r[i]] <= hi
    <2>1. CASE i = Len(q) + 1
      BY <1>1, <2>1 DEF Chain
    <2>2. CASE i \in 1 .. Len(q)
      BY <1>1, <2>2 DEF Chain
    <2> QED BY <1>1, <2>1, <2>2
  <1>7. Chain(r, from, to, lo, hi)
    BY <1>1, <1>4, <1>5, <1>6 DEF Chain
  <1> QED BY <1>7 DEF r

LEMMA ChainTail ==
    ASSUME NEW S, NEW q \in Seq(S), NEW from, NEW to, NEW lo, NEW hi, q # <<>>,
           Chain(q, from, to, lo, hi)
    PROVE  Chain(Tail(q), from, to, to[Head(q)], hi)
  <1> DEFINE r == Tail(q)
  <1>1. /\ Head(q) = q[1] /\ r \in Seq(S) /\ Len(r) = Len(q) - 1
        /\ \A i \in 1 .. Len(q) - 1 : r[i] = q[i + 1]
        /\ Len(q) \in Nat \ {0} /\ (Len(q) = 1 => r = <<>>)
    BY TailFacts
  <1> HIDE DEF r
  <1>2. r # <<>> => Len(r) # 0
    BY <1>1, EmptySeq
  <1>3. r = <<>> => to[Head(q)] = hi
    <2>1. r = <<>> => Len(r) = 0
      OBVIOUS
    <2>2. r = <<>> => Len(q) = 1
      BY <1>1, <2>1
    <2> QED BY <1>1, <2>2 DEF Chain
  <1>4. r # <<>> => from[r[1]] = to[Head(q)] /\ to[r[Len(r)]] = hi
    BY <1>1, <1>2 DEF Chain
  <1>5. ASSUME NEW i \in 1 .. Len(r) - 1 PROVE to[r[i]] = from[r[i + 1]]
    <2>1. r[i] = q[i + 1] /\ r[i + 1] = q[(i + 1) + 1] /\ i + 1 \in 1 .. Len(q) - 1
      BY <1>1
    <2> QED BY <2>1 DEF Chain
  <1>6. ASSUME NEW i \in 1 .. Len(r)
        PROVE  from[r[i]] \in Nat /\ to[r[i]] \in Nat /\ from[r[i]] < to[r[i]] /\ to[r[i]] <= hi
    <2>1. r[i] = q[i + 1] /\ i + 1 \in 1 .. Len(q)
      BY <1>1
    <2> QED BY <2>1 DEF Chain
  <1>7. to[Head(q)] \in Nat
    BY <1>1 DEF Chain
  <1>8. Chain(r, from, to, to[Head(q)], hi)
    BY <1>3, <1>4, <1>5, <1>6, <1>7 DEF Chain
  <1> QED BY <1>8 DEF r

LEMMA ChainConcat ==
    ASSUME NEW S, NEW q \in Seq(S), NEW r \in Seq(S), NEW from, NEW to, NEW lo, NEW mid, NEW hi,
           Chain(q, from, to, lo, mid), Chain(r, from, to, mid, hi)
    PROVE  Chain(q \o r, from, to, lo, hi)
  <1> DEFINE u == q \o r
  <1>1. /\ u \in Seq(S) /\ Len(u) = Len(q) + Len(r)
        /\ \A i \in 1 .. Len(q) + Len(r) : u[i] = IF i <= Len(q) THEN q[i] ELSE r[i - Len(q)]
        /\ Len(q) \in Nat /\ Len(r) \in Nat
    BY ConcatProperties, LenProperties
  <1> HIDE DEF u
  <1>2. /\ (q # <<>> <=> Len(q) # 0) /\ (r # <<>> <=> Len(r) # 0) /\ (u # <<>> <=> Len(u) # 0)
    BY <1>1, EmptySeq
  <1>3. CASE r = <<>>
    <2>1. u = q
      BY <1>3, ConcatEmptySeq DEF u
    <2> QED BY <2>1, <1>3 DEF Chain, u
  <1>4. CASE q = <<>>
    <2>1. u = r
      BY <1>4, ConcatEmptySeq DEF u
    <2> QED BY <2>1, <1>4 DEF Chain, u
  <1>5. CASE q # <<>> /\ r # <<>>
    <2>1. Len(q) >= 1 /\ Len(r) >= 1
      BY <1>1, <1>2, <1>5
    <2>2. from[u[1]] = lo
      BY <1>1, <1>5, <2>1 DEF Chain
    <2>3. to[u[Len(u)]] = hi
      <3>1. PICK k \in Nat : k = Len(u) - Len(q) /\ k = Len(r) /\ ~(Len(u) <= Len(q)) /\ Len(u) \in 1 .. Len(q) + Len(r)
        BY <1>1, <2>1
      <3> QED BY <3>1, <1>1, <1>5 DEF Chain
    <2>4. ASSUME NEW i \in 1 .. Len(u) - 1 PROVE to[u[i]] = from[u[i + 1]]
      <3>1. CASE i < Len(q)
        BY <3>1, <1>1 DEF Chain
      <3>2. CASE i = Len(q)
        <4>1. u[i] = q[Len(q)] /\ u[i + 1] = r[1]
          BY <3>2, <1>1, <2>1
        <4> QED BY <4>1, <1>5 DEF Chain
      <3>3. CASE i > Len(q)
        <4>0. PICK m \in Nat, n \in Nat : m = Len(q) /\ n = Len(r)
          BY <1>1
        <4>1. PICK j \in Int : j = i - m
          <5>1. i \in Int /\ i - m \in Int
            BY <4>0
          <5> QED BY <5>1
        <4>3. j = i - Len(q) /\ j \in 1 .. Len(r) - 1 /\ (i + 1) - Len(q) = j + 1
          BY <3>3, <1>1, <4>0, <4>1
        <4>2. u[i] = r[j] /\ u[i + 1] = r[j + 1]
          BY <3>3, <4>3, <1>1
        <4> QED BY <4>3, <4>2 DEF Chain
      <3> QED BY <1>1, <3>1, <3>2, <3>3
    <2>5. u # <<>>
      BY <1>1, <1>2, <2>1
    <2>6. lo \in Nat /\ mid \in Nat /\ hi \in Nat /\ mid <= hi
      BY <1>5, ChainFacts DEF Chain
    <2>7. ASSUME NEW i \in 1 .. Len(u)
          PROVE  from[u[i]] \in Nat /\ to[u[i]] \in Nat /\ from[u[i]] < to[u[i]] /\ to[u[i]] <= hi
      <3>1. CASE i <= Len(q)
        <4>1. u[i] = q[i] /\ i \in 1 .. Len(q)
          BY <3>1, <1>1
        <4>2. from[q[i]] \in Nat /\ to[q[i]] \in Nat /\ from[q[i]] < to[q[i]] /\ to[q[i]] <= mid
          BY <4>1 DEF Chain
        <4> QED BY <4>1, <4>2, <2>6
      <3>2. CASE ~(i <= Len(q))
        <4>0. PICK m \in Nat, n \in Nat : m = Len(q) /\ n = Len(r) /\ i \in Int
          BY <1>1
        <4>1a. i - m \in Int
          BY <4>0
        <4>1. PICK j \in Int : j = i - m
          BY <4>1a
        <4>2. u[i] = r[j] /\ j \in 1 .. Len(r)
          BY <3>2, <1>1, <4>0, <4>1
        <4> QED BY <4>2 DEF Chain
      <3> QED BY <3>1, <3>2
    <2> QED BY <2>2, <2>3, <2>4, <2>5, <2>6, <2>7 DEF Chain, u
  <1> QED BY <1>3, <1>4, <1>5

(* A sequence over a set is one over each larger set.                      *)
LEMMA SeqMonotone ==
    ASSUME NEW S, NEW T, S \subseteq T, NEW q \in Seq(S)
    PROVE  q \in Seq(T)
  BY SeqDef
-----------------------------------------------------------------------------
(* Words that hold a piece of the stream.                                  *)
PieceOf(a, b, last) == [data |-> Bytes(a, b - a), last |-> last]
Pieces == {PieceOf(a, a + n, l) : a \in Nat, n \in 1 .. WordBytes, l \in BOOLEAN}
Lo == [w \in Pieces |-> w.data[0]]
Hi == [w \in Pieces |-> w.data[0] + keep2len(w.data)]

(* The keep bits and lanes of a word that holds n bytes from a on.         *)
LEMMA BytesFacts ==
    ASSUME MemoryConstants, NEW a \in Nat, NEW n \in 1 .. WordBytes
    PROVE  /\ keep2len(Bytes(a, n)) = n
           /\ \A l \in Lanes : /\ Bytes(a, n)[l] = IF l < n THEN a + l ELSE NoByte
                               /\ Beyond(Bytes(a, n), l) <=> l < n
           /\ 0 \in Lanes
  <1>1. WordBytes \in Nat \ {0} /\ NoByte \notin Int
    BY ConstantFacts
  <1>2. \A l \in Lanes : Bytes(a, n)[l] = IF l < n THEN a + l ELSE NoByte
    BY DEF Bytes
  <1>3. {l \in Lanes : Bytes(a, n)[l] # NoByte} = 0 .. n - 1
    BY <1>1, <1>2 DEF Lanes
  <1>4. Cardinality(0 .. n - 1) = n
    BY <1>1, FS_Interval
  <1>5. 0 \in Lanes
    BY <1>1 DEF Lanes
  <1>6. ASSUME NEW l \in Lanes PROVE Beyond(Bytes(a, n), l) <=> l < n
    BY <1>1, <1>2 DEF Lanes, Beyond
  <1> QED BY <1>2, <1>3, <1>4, <1>5, <1>6 DEF keep2len

(* The ends of the piece that a word holds, and the word of its ends.      *)
LEMMA PieceFacts ==
    ASSUME MemoryConstants, NEW a \in Nat, NEW b \in Nat, a < b, b - a <= WordBytes, NEW l \in BOOLEAN
    PROVE  /\ PieceOf(a, b, l) \in Pieces
           /\ Lo[PieceOf(a, b, l)] = a /\ Hi[PieceOf(a, b, l)] = b
           /\ PieceOf(a, b, l).last = l /\ PieceOf(a, b, l).data = Bytes(a, b - a)
           /\ keep2len(PieceOf(a, b, l).data) = b - a
  <1>1. PieceOf(a, b, l) \in Pieces
    <2>1. b - a \in 1 .. WordBytes /\ b = a + (b - a)
      BY ConstantFacts
    <2> QED BY <2>1 DEF Pieces
  <1>2. PieceOf(a, b, l).last = l /\ PieceOf(a, b, l).data = Bytes(a, b - a)
    BY DEF PieceOf
  <1>3. PICK n \in 1 .. WordBytes : n = b - a
    BY ConstantFacts
  <1>4. keep2len(Bytes(a, n)) = n /\ Bytes(a, n)[0] = a
    BY <1>3, BytesFacts
  <1> QED BY <1>1, <1>2, <1>3, <1>4 DEF Lo, Hi
LEMMA PieceIs ==
    ASSUME MemoryConstants, NEW w \in Pieces
    PROVE  /\ Lo[w] \in Nat /\ Hi[w] \in Nat /\ Lo[w] < Hi[w] /\ Hi[w] - Lo[w] <= WordBytes
           /\ w.last \in BOOLEAN /\ w = PieceOf(Lo[w], Hi[w], w.last)
  <1>1. PICK a \in Nat, n \in 1 .. WordBytes, l \in BOOLEAN : w = PieceOf(a, a + n, l)
    BY DEF Pieces
  <1>2. PICK b \in Nat : b = a + n /\ a < b /\ b - a <= WordBytes
    BY <1>1, ConstantFacts
  <1>3. Lo[w] = a /\ Hi[w] = b /\ w.last = l
    BY <1>1, <1>2, PieceFacts
  <1> QED BY <1>1, <1>2, <1>3

(* A longer piece fills a word as well as one of its length.               *)
LEMMA BytesFull ==
    ASSUME MemoryConstants, NEW a \in Nat, NEW n \in Nat, n >= WordBytes
    PROVE  Bytes(a, n) = Bytes(a, WordBytes)
  BY ConstantFacts DEF Bytes, Lanes

(* How many words n bytes come in.                                         *)
LEMMA CountFacts ==
    ASSUME MemoryConstants, NEW n \in Nat \ {0}
    PROVE  /\ WordCount(n) \in Nat \ {0}
           /\ \A k \in Nat : /\ k + 1 <= WordCount(n) <=> k * WordBytes < n
                             /\ k + 1 <= WordCount(n) => (k + 1 = WordCount(n) <=> n - k * WordBytes <= WordBytes)
                             /\ k * WordBytes \in Nat /\ (k + 1) * WordBytes = k * WordBytes + WordBytes
           /\ 0 * WordBytes = 0
  <1> DEFINE W == WordBytes
  <1>0. W \in Nat \ {0}
    BY ConstantFacts
  <1>1a. n + W - 1 \in Int
    BY <1>0
  <1>1. PICK x \in Int : x = n + W - 1 /\ W \in Nat \ {0}
    BY <1>0, <1>1a
  <1>2. PICK q \in Int, r \in 0 .. W - 1 : x = W * q + r /\ q = x \div W
    BY <1>1, ModFacts
  <1>3. WordCount(n) = q
    BY <1>1, <1>2 DEF WordCount
  <1>4. \A k \in Int, j \in Int : k <= j => k * W <= j * W
    BY <1>1
  <1>5. \A k \in Int : k * W \in Int /\ (k + 1) * W = k * W + W /\ (k - 1) * W = k * W - W
    BY <1>1
  <1>6. q * W = W * q /\ q * W \in Int
    BY <1>1
  <1>7. q * W = n + W - 1 - r
    BY <1>1, <1>2, <1>6
  <1> HIDE DEF W
  <1>8. (q - 1) * W = n - 1 - r
    BY <1>1, <1>5, <1>7
  <1>9. ASSUME NEW k \in Int PROVE k + 1 <= q <=> k * W < n
    <2>1. CASE k <= q - 1
      BY <1>1, <1>4, <1>5, <1>8, <2>1
    <2>2. CASE q <= k
      BY <1>1, <1>4, <1>5, <1>7, <2>2
    <2> QED BY <2>1, <2>2
  <1>10. q >= 1
    <2>1. 0 * W = 0
      BY <1>1
    <2> QED BY <1>9, <2>1
  <1>11. ASSUME NEW k \in Nat, k + 1 <= q PROVE k + 1 = q <=> n - k * W <= W
    <2>1. (k + 1) + 1 <= q <=> (k + 1) * W < n
      BY <1>9
    <2> QED BY <2>1, <1>5, <1>11, <1>1
  <1>12. \A k \in Nat : k * W \in Nat
    BY <1>1
  <1>13. 0 * W = 0
    BY <1>1
  <1> QED BY <1>3, <1>5, <1>9, <1>10, <1>11, <1>12, <1>13 DEF W

(* What the ends E of the segments cut: no end lies inside; a segment lies *)
(* between neighbours.                                                     *)
NoCut(E, a, b) == \A e \in E : ~(a < e /\ e < b)
Segment(E, a, b) == a \in E /\ b \in E /\ a < b /\ NoCut(E, a, b)

(* Words of the stream up to top: whole ones but for the last of a         *)
(* segment, which is marked.                                               *)
GoodWords(E, top) ==
    {w \in Pieces : /\ w.last = (Hi[w] \in E)
                    /\ w.last \/ Hi[w] - Lo[w] = WordBytes
                    /\ NoCut(E, Lo[w], Hi[w]) /\ Hi[w] <= top}

(* The words that a segment comes in.                                      *)
LEMMA SegmentWordsFacts ==
    ASSUME MemoryConstants, NEW a \in Nat, NEW b \in Nat, a < b,
           NEW E \in SUBSET Nat, Segment(E, a, b)
    PROVE  /\ SegmentWords(a, b - a) \in Seq(GoodWords(E, b))
           /\ Chain(SegmentWords(a, b - a), Lo, Hi, a, b)
           /\ SegmentWords(a, b - a) # <<>>
  <1>1. PICK n \in Nat \ {0} : n = b - a
    OBVIOUS
  <1>2. PICK q \in Nat \ {0} : q = WordCount(n)
    BY <1>1, CountFacts
  <1> DEFINE W == WordBytes
             s == SegmentWords(a, n)
             at(k) == k * W
  <1>3. W \in Nat \ {0}
    BY ConstantFacts
  <1>4. \A k \in Nat : /\ k + 1 <= q <=> at(k) < n
                       /\ k + 1 <= q => (k + 1 = q <=> n - at(k) <= W)
                       /\ at(k) \in Nat /\ at(k + 1) = at(k) + W
    BY <1>1, <1>2, CountFacts
  <1>5. at(0) = 0
    BY <1>3
  <1>6. Len(s) = q /\ DOMAIN s = 1 .. q
    BY <1>1, <1>2 DEF SegmentWords
  <1>7. \A k \in 1 .. q : s[k] = [data |-> Bytes(a + at(k - 1), n - at(k - 1)), last |-> k = q]
    BY <1>1, <1>2 DEF SegmentWords
  <1> HIDE DEF W, s, at
  <1>8. ASSUME NEW k \in 1 .. q
        PROVE  /\ s[k] \in GoodWords(E, b)
               /\ Lo[s[k]] = a + at(k - 1) /\ Hi[s[k]] = IF k = q THEN b ELSE a + at(k)
    <2>1. k - 1 \in Nat /\ (k - 1) + 1 = k /\ k <= q
      OBVIOUS
    <2>2. /\ at(k - 1) \in Nat /\ at(k) = at(k - 1) + W /\ at(k - 1) < n
          /\ k = q <=> n - at(k - 1) <= W
      BY <1>4, <2>1
    <2>3. PICK i \in Nat, j \in Nat : /\ i = a + at(k - 1) /\ j = IF k = q THEN b ELSE i + W
      BY <2>2, <1>3
    <2>4. i < j /\ j - i <= W /\ j <= b /\ (k # q => j - i = W /\ j < b) /\ a <= i
      BY <1>1, <1>3, <2>2, <2>3
    <2>5. Bytes(a + at(k - 1), n - at(k - 1)) = Bytes(i, j - i)
      <3>1. CASE k = q
        <4>1. n - at(k - 1) = j - i
          BY <1>1, <2>2, <2>3, <3>1
        <4> QED BY <2>3, <4>1
      <3>2. CASE k # q
        <4>1. PICK m \in Nat : m = n - at(k - 1) /\ m >= W
          BY <2>2, <3>2, <1>3
        <4> QED BY <2>3, <2>4, <3>2, <4>1, BytesFull DEF W
      <3> QED BY <3>1, <3>2
    <2>6. s[k] = PieceOf(i, j, k = q)
      BY <1>7, <2>5 DEF PieceOf
    <2>7. PICK l \in BOOLEAN : l = (k = q)
      OBVIOUS
    <2>8. s[k] \in Pieces /\ Lo[s[k]] = i /\ Hi[s[k]] = j /\ s[k].last = l
      <3>1. s[k] = PieceOf(i, j, l) /\ j - i <= WordBytes
        BY <2>4, <2>6, <2>7 DEF W
      <3> QED BY <2>4, <3>1, PieceFacts
    <2>9. l = (j \in E)
      BY <2>3, <2>4, <2>7 DEF Segment, NoCut
    <2>10. NoCut(E, i, j)
      BY <2>4 DEF Segment, NoCut
    <2>11. s[k].last \/ Hi[s[k]] - Lo[s[k]] = WordBytes
      BY <2>4, <2>7, <2>8 DEF W
    <2>12. s[k] \in GoodWords(E, b)
      BY <2>4, <2>8, <2>9, <2>10, <2>11 DEF GoodWords
    <2>13. i = a + at(k - 1) /\ j = IF k = q THEN b ELSE a + at(k)
      BY <2>2, <2>3, <1>3
    <2> QED BY <2>8, <2>12, <2>13
  <1>9. s \in Seq(GoodWords(E, b))
    <2>1. s = [k \in 1 .. q |-> s[k]]
      BY <1>1, <1>2 DEF s, SegmentWords
    <2> QED BY <1>8, <2>1, SeqDef
  <1>10. s # <<>>
    BY <1>6
  <1>11. Lo[s[1]] = a /\ Hi[s[q]] = b
    BY <1>8, <1>5
  <1>12. ASSUME NEW i \in 1 .. q - 1 PROVE Hi[s[i]] = Lo[s[i + 1]]
    <2>1. i \in 1 .. q /\ i + 1 \in 1 .. q /\ i # q /\ (i + 1) - 1 = i
      OBVIOUS
    <2> QED BY <1>8, <2>1
  <1>14. ASSUME NEW i \in 1 .. q
         PROVE  Lo[s[i]] \in Nat /\ Hi[s[i]] \in Nat /\ Lo[s[i]] < Hi[s[i]] /\ Hi[s[i]] <= b
    <2>1. s[i] \in Pieces /\ Hi[s[i]] <= b
      BY <1>8 DEF GoodWords
    <2> QED BY <2>1, PieceIs
  <1>13. Chain(s, Lo, Hi, a, b)
    BY <1>6, <1>10, <1>11, <1>12, <1>14 DEF Chain
  <1> QED BY <1>1, <1>9, <1>10, <1>13 DEF s
-----------------------------------------------------------------------------
(* Commands for a piece of the stream.                                     *)
Cmds == [saddr : Int, bbt : Int]
Place(a) == IF a - Base >= start THEN a - Base - start ELSE a - Base + Wrap
From == [e \in Cmds |-> Place(e.saddr)]
To == [e \in Cmds |-> Place(e.saddr) + e.bbt]
Part(a, b) == Command(Address(a), b - a)

(* A command determines the piece it is for.                               *)
LEMMA PartFacts ==
    ASSUME MemoryConstants, ChosenOK, NEW a \in Nat, NEW b \in Nat, a < BufferSize
    PROVE  /\ Part(a, b) \in Cmds /\ Part(a, b).saddr = Address(a) /\ Part(a, b).bbt = b - a
           /\ From[Part(a, b)] = a /\ To[Part(a, b)] = b
  <1>1. /\ start \in 0 .. BufferSize - 1 /\ BufferSize \in Nat \ {0}
        /\ Base \in Nat /\ Wrap = BufferSize - start
    BY ChosenFacts, ConstantFacts DEF Wrap
  <1>2. PICK p \in Int : p = Address(a) /\ p = IF a < Wrap THEN Base + start + a ELSE Base + (a - Wrap)
    <2>1. Address(a) = IF a < Wrap THEN Base + start + a ELSE Base + (a - Wrap)
      BY <1>1, AddressIs
    <2>2. Address(a) \in Int
      BY <1>1, <2>1
    <2> QED BY <2>1, <2>2
  <1>3. Part(a, b) \in Cmds /\ Part(a, b).saddr = p /\ Part(a, b).bbt = b - a
    BY <1>2 DEF Part, Command, Cmds
  <1>4. Place(p) = a
    BY <1>1, <1>2 DEF Place
  <1> QED BY <1>2, <1>3, <1>4 DEF From, To

(* The commands of segments, and of the parts that the writer makes.       *)
SegCmds(E) == {e \in Cmds : \E a, b \in E : e = Part(a, b) /\ Segment(E, a, b)}
Parts(E) ==
    {e \in Cmds : \E a, b \in E \cup {Wrap} : /\ e = Part(a, b) /\ a < b
                                              /\ ~Crosses(a, b) /\ NoCut(E, a, b)
                                              /\ b = Wrap => \E d \in E : Wrap < d}

(* The stream is shorter than the buffer.                                  *)
Below(E) == E \subseteq 0 .. BufferSize - 1

LEMMA SegCmdIs ==
    ASSUME MemoryConstants, ChosenOK, NEW E, Below(E), NEW e \in SegCmds(E)
    PROVE  /\ From[e] \in Nat /\ To[e] \in Nat /\ From[e] < BufferSize /\ To[e] < BufferSize
           /\ Segment(E, From[e], To[e])
           /\ e = Part(From[e], To[e]) /\ e \in Cmds
  <1>1. PICK a \in E, b \in E : e = Part(a, b) /\ Segment(E, a, b)
    BY DEF SegCmds
  <1>2. a \in Nat /\ b \in Nat /\ a < BufferSize /\ b < BufferSize
    BY ConstantFacts DEF Below
  <1> QED BY <1>1, <1>2, PartFacts

LEMMA PartIs ==
    ASSUME MemoryConstants, ChosenOK, NEW E, Below(E), NEW e \in Parts(E)
    PROVE  /\ From[e] \in Nat /\ To[e] \in Nat /\ From[e] < To[e] /\ To[e] < BufferSize
           /\ From[e] \in E \cup {Wrap} /\ To[e] \in E \cup {Wrap}
           /\ ~Crosses(From[e], To[e]) /\ NoCut(E, From[e], To[e])
           /\ e = Part(From[e], To[e]) /\ e \in Cmds
           /\ \E d \in E : To[e] <= d
  <1>1. PICK a \in E \cup {Wrap}, b \in E \cup {Wrap} :
             /\ e = Part(a, b) /\ a < b
             /\ ~Crosses(a, b) /\ NoCut(E, a, b)
             /\ b = Wrap => \E d \in E : Wrap < d
    BY DEF Parts
  <1>2. \E d \in E : b <= d
    BY <1>1 DEF Below
  <1>3. a \in Nat /\ b \in Nat /\ b < BufferSize
    BY <1>1, <1>2, ConstantFacts, ChosenFacts DEF Below
  <1>4. From[e] = a /\ To[e] = b
    BY <1>1, <1>3, PartFacts, ConstantFacts
  <1> QED BY <1>1, <1>2, <1>3, <1>4 DEF Parts

LEMMA PartIn ==
    ASSUME MemoryConstants, ChosenOK, NEW E, Below(E),
           NEW a \in E \cup {Wrap}, NEW b \in E \cup {Wrap}, a < b, ~Crosses(a, b), NoCut(E, a, b),
           b = Wrap => \E d \in E : Wrap < d
    PROVE  /\ Part(a, b) \in Parts(E) /\ From[Part(a, b)] = a /\ To[Part(a, b)] = b
           /\ a \in Nat /\ b \in Nat /\ a < BufferSize /\ b < BufferSize
  <1>1. a \in Nat /\ b \in Nat /\ a < BufferSize /\ b < BufferSize
    BY ConstantFacts, ChosenFacts DEF Below
  <1>2. Part(a, b) \in Cmds
    BY <1>1, PartFacts
  <1> QED BY <1>1, <1>2, PartFacts DEF Parts

(* More of the stream only adds to what is already cut.                    *)
LEMMA CutsGrow ==
    ASSUME MemoryConstants, NEW E \in SUBSET Nat, NEW F \in SUBSET Nat, NEW p \in Nat, NEW r \in Nat,
           E \subseteq 0 .. p, p < r, F = E \cup {r}
    PROVE  /\ GoodWords(E, p) \subseteq GoodWords(F, r)
           /\ SegCmds(E) \subseteq SegCmds(F)
           /\ Wrap \in Int => Parts(E) \subseteq Parts(F)
           /\ \A a, b : Segment(E, a, b) => Segment(F, a, b)
  <1>1. \A a, b : Segment(E, a, b) => Segment(F, a, b)
    BY DEF Segment, NoCut
  <1>2. ASSUME NEW w \in GoodWords(E, p) PROVE w \in GoodWords(F, r)
    <2>1. w \in Pieces /\ Hi[w] <= p /\ w.last = (Hi[w] \in E) /\ NoCut(E, Lo[w], Hi[w])
          /\ (w.last \/ Hi[w] - Lo[w] = WordBytes)
      BY DEF GoodWords
    <2>2. Hi[w] \in Nat /\ Lo[w] \in Nat
      BY <2>1, PieceIs
    <2>3. Hi[w] \in E <=> Hi[w] \in F
      BY <2>1, <2>2
    <2>4. NoCut(F, Lo[w], Hi[w]) /\ Hi[w] <= r
      BY <2>1, <2>2 DEF NoCut
    <2> QED BY <2>1, <2>3, <2>4 DEF GoodWords
  <1>3. SegCmds(E) \subseteq SegCmds(F)
    BY <1>1 DEF SegCmds
  <1>4. ASSUME Wrap \in Int, NEW e \in Parts(E) PROVE e \in Parts(F)
    <2>1. PICK a \in E \cup {Wrap}, b \in E \cup {Wrap} :
               /\ e = Part(a, b) /\ a < b
               /\ ~Crosses(a, b) /\ NoCut(E, a, b)
               /\ b = Wrap => \E d \in E : Wrap < d
      BY DEF Parts
    <2>2. NoCut(F, a, b)
      BY <1>4, <2>1 DEF NoCut
    <2>3. e \in Cmds /\ a \in F \cup {Wrap} /\ b \in F \cup {Wrap} /\ (b = Wrap => \E d \in F : Wrap < d)
      BY <2>1 DEF Parts
    <2> QED BY <2>1, <2>2, <2>3 DEF Parts
  <1> QED BY <1>1, <1>2, <1>3, <1>4

(* Session and start do not change, nor does what depends on them only.    *)
LEMMA Frozen ==
    ASSUME UNCHANGED chosen, NEW E
    PROVE  /\ Base' = Base /\ Wrap' = Wrap /\ From' = From /\ To' = To
           /\ SegCmds(E)' = SegCmds(E) /\ Parts(E)' = Parts(E)
           /\ \A a : Address(a)' = Address(a)
           /\ \A a, b : Part(a, b)' = Part(a, b)
           /\ \A a, b : Crosses(a, b)' <=> Crosses(a, b)
           /\ ChosenOK' <=> ChosenOK
  <1>1. side' = side /\ session' = session /\ start' = start
    BY DEF chosen
  <1>2. Base' = Base /\ Wrap' = Wrap
    BY <1>1 DEF Base, Wrap
  <1>3. \A a : Address(a)' = Address(a)
    BY <1>1 DEF Address
  <1>4. \A a, b : Part(a, b)' = Part(a, b)
    BY <1>3 DEF Part
  <1>5. \A a, b : Crosses(a, b)' <=> Crosses(a, b)
    BY <1>2 DEF Crosses
  <1>6. From' = From /\ To' = To
    BY <1>1, <1>2 DEF From, To, Place
  <1>7. SegCmds(E)' = SegCmds(E)
    BY <1>4 DEF SegCmds
  <1>8. Parts(E)' = Parts(E)
    BY <1>2, <1>4, <1>5 DEF Parts
  <1>9. ChosenOK' <=> ChosenOK
    BY <1>1 DEF ChosenOK
  <1> QED BY <1>2, <1>3, <1>4, <1>5, <1>6, <1>7, <1>8, <1>9
-----------------------------------------------------------------------------
(* The writing side.  E are the ends of the segments; input holds the      *)
(* stream from x, toMemory from t, the Data Mover gets data up to o and    *)
(* commands up to c, has written up to s and completed the commands up to  *)
(* k; the gate has statuses up to g, and z are the commands it has none of *)
(* though they are completed; it has read the commands of cache up to e.   *)
Cuts(E) ==
    /\ announced \in Nat /\ accepted \in Nat /\ accepted < BufferSize
    /\ E \subseteq 0 .. accepted /\ {0, announced, accepted} \subseteq E /\ Wrap \notin E

(* What waits in front of the writer.                                      *)
Queues(E, x, t, c) ==
    /\ input \in Seq(GoodWords(E, accepted)) /\ Chain(input, Lo, Hi, x, accepted)
    /\ toMemory \in Seq(GoodWords(E, accepted)) /\ Chain(toMemory, Lo, Hi, t, x)
    /\ writeCmds \in Seq(SegCmds(E)) /\ Chain(writeCmds, From, To, c, accepted)

Data == [Lanes -> Int \cup {NoByte}]
WriterType ==
    writer \in [state : {"WAIT_CMD", "FWD_NO_BREAKDOWN", "FWD_BREAKDOWN_0", "FWD_BREAKDOWN_1", "FWD_EXTRA"},
                cmd : Cmds, byte_offset : Lanes, left : Nat, first : Int, prev : Data]

(* The writer in a segment that ends at c, of which it takes the word at t *)
(* next and has given away the bytes below o.  What it holds back is in    *)
(* prev.                                                                   *)
NoBreakdown(E, t, o, c) ==
    /\ writer.state = "FWD_NO_BREAKDOWN" /\ o = t
    /\ \E a \in Nat : Segment(E, a, c) /\ a <= t /\ t < c

Breakdown0(E, t, o, c) ==
    LET off == writer.byte_offset IN
    /\ writer.state = "FWD_BREAKDOWN_0" /\ o = t /\ writer.left # 0
    /\ \E a \in Nat : /\ Segment(E, a, c) /\ Crosses(a, c) /\ a <= t /\ t < Wrap
                      /\ writer.cmd = Part(a, c) /\ writer.first = Wrap - a
    /\ Wrap - t = (writer.left - 1) * WordBytes + (IF off = 0 THEN WordBytes ELSE off)

Breakdown1(E, t, o, c) ==
    LET off == writer.byte_offset IN
    /\ writer.state = "FWD_BREAKDOWN_1"
    /\ \E a \in Nat : Segment(E, a, c) /\ a <= t /\ t < c
    /\ off = 0 => o = t
    /\ off # 0 => /\ o = t - (WordBytes - off) /\ t - WordBytes \in Nat
                  /\ writer.prev = Bytes(t - WordBytes, WordBytes)

Extra(t, o, c) ==
    LET off == writer.byte_offset IN
    /\ writer.state = "FWD_EXTRA" /\ t = c
    /\ off # 0 /\ o - off \in Nat
    /\ \E m \in 1 .. WordBytes - off : writer.prev = Bytes(o - off, off + m) /\ o + m = c

(* The writer is between two segments or at one of these places.           *)
Writer(E, t, o, c) ==
    /\ WriterType /\ o \in Nat
    /\ \/ writer.state = "WAIT_CMD" /\ o = t /\ t = c
       \/ NoBreakdown(E, t, o, c) \/ Breakdown0(E, t, o, c) \/ Breakdown1(E, t, o, c) \/ Extra(t, o, c)

(* The Data Mover has commands without gaps, up to those of the segment    *)
(* that the writer is in, and data up to o; the bytes below s are written. *)
Mover(E, o, c, s, k) ==
    /\ moverCmds \in Seq(Parts(E))
    /\ Chain(moverCmds, From, To, k, IF writer.state = "FWD_BREAKDOWN_0" THEN Wrap ELSE c)
    /\ moverData \in Seq(Pieces) /\ Chain(moverData, Lo, Hi, s, o)
    /\ written \in Nat /\ s = k + written /\ (moverCmds = <<>> => written = 0)
    /\ memory \in [Buffers -> Int \cup {NoByte}]
    /\ \A n \in 0 .. s - 1 : memory[Address(n)] = n

GateType == gate \in [state : {"READ_EV", "READ_STATUS_1", "READ_STATUS_2"}, event : Cmds]
(* Where the gate is: it waits for the one status or the two of a segment. *)
GateAt(E, g, e) ==
    \/ gate.state = "READ_EV" /\ g = announced /\ e = announced
    \/ /\ gate.state = "READ_STATUS_1" /\ side = "tx" /\ g = announced
       /\ gate.event = Part(announced, e) /\ Segment(E, announced, e)
    \/ /\ gate.state = "READ_STATUS_2" /\ g = Wrap
       /\ gate.event = Part(announced, e) /\ Segment(E, announced, e) /\ Crosses(announced, e)

(* On the rx side: which of the segments that the writer has begun are     *)
(* double, and what it has not begun is the end of the cache.              *)
Delayed ==
    side = "rx" =>
        /\ double \in Seq(BOOLEAN) /\ Len(cache) = Len(double) + Len(writeCmds)
        /\ \A i \in 1 .. Len(double) : double[i] <=> Crosses(From[cache[i]], To[cache[i]])
        /\ \A i \in 1 .. Len(writeCmds) : writeCmds[i] = cache[Len(double) + i]

(* The statuses are those of the commands z.                               *)
Gate(E, k, g, e, z) ==
    /\ z \in Seq(Parts(E)) /\ Chain(z, From, To, g, k)
    /\ statuses \in Seq({"okay"}) /\ Len(statuses) = Len(z)
    /\ cache \in Seq(SegCmds(E)) /\ Chain(cache, From, To, e, accepted)
    /\ GateType /\ GateAt(E, g, e) /\ Delayed

(* The invariant of the writing side.                                      *)
WInv(E, x, t, o, c, s, k, g, e, z) ==
    /\ ChosenOK /\ Cuts(E) /\ Queues(E, x, t, c) /\ Writer(E, t, o, c)
    /\ Mover(E, o, c, s, k) /\ Gate(E, k, g, e, z)

(* Lanes of any bytes are the data of a word.                              *)
LEMMA BytesData ==
    ASSUME NEW a \in Int, NEW n \in Int
    PROVE  Bytes(a, n) \in Data
  BY DEF Bytes, Data, Lanes

(* The ends of segments are places in the stream that is accepted.         *)
LEMMA BufferBelow ==
    ASSUME MemoryConstants, ChosenOK, NEW E, Cuts(E)
    PROVE  Below(E) /\ E \in SUBSET Nat
  BY ConstantFacts DEF Cuts, Below

(* At the beginning all is empty.                                          *)
LEMMA WInit ==
    ASSUME MemoryConstants, Init
    PROVE  WInv({0}, 0, 0, 0, 0, 0, 0, 0, 0, <<>>)
  <1>1. ChosenOK
    BY DEF Init, ChosenOK
  <1>2. WordBytes \in Nat \ {0} /\ BufferSize \in Nat \ {0} /\ Wrap \in 1 .. BufferSize /\ NoByte \notin Int
    BY <1>1, ConstantFacts, ChosenFacts
  <1>3. Cuts({0})
    BY <1>2 DEF Init, Cuts
  <1>4. Queues({0}, 0, 0, 0)
    BY ChainEmpty DEF Init, Queues
  <1>5. Command(0, 0) \in Cmds /\ Empty \in Data /\ 0 \in Lanes
    BY <1>2 DEF Command, Cmds, Empty, Data, Lanes
  <1>6. Writer({0}, 0, 0, 0)
    BY <1>5 DEF Init, Writer, WriterType
  <1>7. Mover({0}, 0, 0, 0, 0)
    BY <1>2, ChainEmpty DEF Init, Mover
  <1>8. Gate({0}, 0, 0, 0, <<>>)
    <2>1. Delayed
      BY DEF Init, Delayed
    <2>2. GateType /\ GateAt({0}, 0, 0)
      BY <1>5 DEF Init, GateType, GateAt
    <2> QED BY <2>1, <2>2, ChainEmpty DEF Init, Gate
  <1> QED BY <1>1, <1>3, <1>4, <1>6, <1>7, <1>8 DEF WInv
(* What an action leaves alone.                                            *)
LEMMA CutsSame ==
    ASSUME NEW E, Cuts(E), UNCHANGED <<chosen, accepted, announced>>
    PROVE  Cuts(E)'
  <1>1. Wrap' = Wrap
    BY Frozen
  <1> QED BY <1>1 DEF Cuts

LEMMA QueuesSame ==
    ASSUME NEW E, NEW x, NEW t, NEW c, Queues(E, x, t, c),
           UNCHANGED <<chosen, accepted, input, toMemory, writeCmds>>
    PROVE  Queues(E, x, t, c)'
  <1>1. From' = From /\ To' = To /\ SegCmds(E)' = SegCmds(E)
    BY Frozen
  <1> QED BY <1>1 DEF Queues

LEMMA WriterSame ==
    ASSUME NEW E, NEW t, NEW o, NEW c, Writer(E, t, o, c), UNCHANGED <<chosen, writer>>
    PROVE  Writer(E, t, o, c)'
  <1>1. Wrap' = Wrap /\ (\A a, b : Part(a, b)' = Part(a, b)) /\ (\A a, b : Crosses(a, b)' <=> Crosses(a, b))
    BY Frozen
  <1> QED BY <1>1 DEF Writer, WriterType, NoBreakdown, Breakdown0, Breakdown1, Extra

LEMMA MoverSame ==
    ASSUME NEW E, NEW o, NEW c, NEW s, NEW k, Mover(E, o, c, s, k),
           UNCHANGED <<chosen, writer, moverCmds, moverData, written, memory>>
    PROVE  Mover(E, o, c, s, k)'
  <1>1. Wrap' = Wrap /\ From' = From /\ To' = To /\ Parts(E)' = Parts(E) /\ (\A a : Address(a)' = Address(a))
    BY Frozen
  <1> QED BY <1>1 DEF Mover

LEMMA GateSame ==
    ASSUME NEW E, NEW k, NEW g, NEW e, NEW z, Gate(E, k, g, e, z),
           UNCHANGED <<chosen, accepted, announced, statuses, cache, gate, double, writeCmds>>
    PROVE  Gate(E, k, g, e, z)'
  <1>1. /\ Wrap' = Wrap /\ From' = From /\ To' = To /\ Parts(E)' = Parts(E) /\ SegCmds(E)' = SegCmds(E)
        /\ (\A a, b : Part(a, b)' = Part(a, b)) /\ (\A a, b : Crosses(a, b)' <=> Crosses(a, b))
        /\ side' = side
    BY Frozen DEF chosen
  <1>2. GateAt(E, g, e)'
    BY <1>1 DEF Gate, GateAt
  <1>3. Delayed'
    BY <1>1 DEF Gate, Delayed
  <1> QED BY <1>1, <1>2, <1>3 DEF Gate, GateType

LEMMA WSame ==
    ASSUME NEW E, NEW x, NEW t, NEW o, NEW c, NEW s, NEW k, NEW g, NEW e, NEW z,
           WInv(E, x, t, o, c, s, k, g, e, z),
           UNCHANGED <<chosen, writing, gating, memory>>
    PROVE  WInv(E, x, t, o, c, s, k, g, e, z)'
  <1>1. UNCHANGED <<chosen, accepted, input, toMemory, writeCmds, writer, moverCmds, moverData, statuses,
                    written, double, announced, cache, gate, memory>>
    BY DEF writing, gating
  <1>2. ChosenOK'
    BY <1>1, Frozen DEF WInv
  <1>3. Cuts(E)'
    BY <1>1, CutsSame DEF WInv
  <1>4. Queues(E, x, t, c)'
    BY <1>1, QueuesSame DEF WInv
  <1>5. Writer(E, t, o, c)'
    BY <1>1, WriterSame DEF WInv
  <1>6. Mover(E, o, c, s, k)'
    BY <1>1, MoverSame DEF WInv
  <1>7. Gate(E, k, g, e, z)'
    BY <1>1, GateSame DEF WInv
  <1> QED BY <1>2, <1>3, <1>4, <1>5, <1>6, <1>7 DEF WInv

(* The steps of the writing side: a segment more ...                       *)
LEMMA WSegmentIn ==
    ASSUME MemoryConstants, NEW E, NEW x, NEW t, NEW o, NEW c, NEW s, NEW k, NEW g, NEW e, NEW z,
           WInv(E, x, t, o, c, s, k, g, e, z), NEW length \in Lengths, SegmentIn(length)
    PROVE  \E p, q, F :
              /\ p \in Nat /\ q \in Nat /\ p = accepted /\ q = p + length /\ F = E \cup {q} /\ accepted' = q
              /\ Segment(F, p, q) /\ WInv(F, x, t, o, c, s, k, g, e, z)'
  <1>1. ChosenOK /\ Cuts(E) /\ Queues(E, x, t, c) /\ Writer(E, t, o, c) /\ Mover(E, o, c, s, k) /\ Gate(E, k, g, e, z)
    BY DEF WInv
  <1>2. UNCHANGED <<chosen, announced, gate, toMemory, writer, moverCmds, moverData, statuses,
                    written, double, memory>>
    BY DEF SegmentIn
  <1>3. length \in Nat \ {0} /\ BufferSize \in Nat \ {0} /\ Wrap \in 1 .. BufferSize
    BY <1>1, ConstantFacts, ChosenFacts
  <1>4. PICK p \in Nat, q \in Nat : /\ p = accepted /\ q = accepted + length /\ q = p + length
                                  /\ p < q /\ q < BufferSize /\ p < BufferSize /\ length = q - p
    BY <1>1, <1>3 DEF Cuts, SegmentIn
  <1>5. accepted' = q /\ input' = input \o SegmentWords(p, q - p)
        /\ writeCmds' = Append(writeCmds, Part(p, q)) /\ cache' = Append(cache, Part(p, q))
        /\ MayFit(p, q - p)
    BY <1>4 DEF SegmentIn, Part
  <1>6. q # Wrap
    BY <1>1, <1>4, <1>5, FitIs
  <1>7. PICK F : F = E \cup {q}
    OBVIOUS
  <1>8. E \subseteq 0 .. p /\ E \in SUBSET Nat /\ F \in SUBSET Nat /\ p \in E /\ Below(E) /\ Below(F)
    <2>1. E \subseteq 0 .. p /\ p \in E
      BY <1>1, <1>4 DEF Cuts
    <2>2. F \subseteq 0 .. q
      BY <1>4, <1>7, <2>1
    <2> QED BY <1>3, <1>4, <2>1, <2>2 DEF Below
  <1>9. /\ GoodWords(E, p) \subseteq GoodWords(F, q) /\ SegCmds(E) \subseteq SegCmds(F)
        /\ Parts(E) \subseteq Parts(F) /\ \A a, b : Segment(E, a, b) => Segment(F, a, b)
    <2>1. Wrap \in Int
      BY <1>3
    <2> QED BY <2>1, <1>4, <1>7, <1>8, CutsGrow
  <1>10. Segment(F, p, q)
    BY <1>4, <1>7, <1>8 DEF Segment, NoCut
  <1>11. /\ SegmentWords(p, q - p) \in Seq(GoodWords(F, q))
         /\ Chain(SegmentWords(p, q - p), Lo, Hi, p, q)
    BY <1>4, <1>8, <1>10, SegmentWordsFacts
  <1>12. /\ Wrap' = Wrap /\ From' = From /\ To' = To /\ Parts(F)' = Parts(F) /\ SegCmds(F)' = SegCmds(F)
         /\ (\A a : Address(a)' = Address(a))
         /\ (\A a, b : Part(a, b)' = Part(a, b)) /\ (\A a, b : Crosses(a, b)' <=> Crosses(a, b))
         /\ ChosenOK' /\ side' = side
    BY <1>1, <1>2, Frozen DEF chosen
  <1>13. Part(p, q) \in SegCmds(F) /\ From[Part(p, q)] = p /\ To[Part(p, q)] = q
    <2>1. Part(p, q) \in Cmds /\ From[Part(p, q)] = p /\ To[Part(p, q)] = q
      BY <1>1, <1>4, PartFacts
    <2>2. p \in F /\ q \in F
      BY <1>10 DEF Segment
    <2> QED BY <1>10, <2>1, <2>2 DEF SegCmds
  <1>14. Cuts(F)'
    BY <1>1, <1>2, <1>4, <1>5, <1>6, <1>7, <1>12 DEF Cuts
  <1>15. Queues(F, x, t, c)'
    <2>1. input \in Seq(GoodWords(F, q)) /\ toMemory \in Seq(GoodWords(F, q)) /\ writeCmds \in Seq(SegCmds(F))
      BY <1>1, <1>4, <1>9, SeqMonotone DEF Queues
    <2>2. Chain(input, Lo, Hi, x, p) /\ Chain(toMemory, Lo, Hi, t, x) /\ Chain(writeCmds, From, To, c, p)
      BY <1>1, <1>4 DEF Queues
    <2>3. input' \in Seq(GoodWords(F, q)) /\ Chain(input', Lo, Hi, x, q)
      BY <1>5, <1>11, <2>1, <2>2, ChainConcat, ConcatProperties
    <2>4. writeCmds' \in Seq(SegCmds(F)) /\ Chain(writeCmds', From, To, c, q)
      BY <1>4, <1>5, <1>13, <2>1, <2>2, ChainAppend, AppendFacts
    <2> QED BY <1>2, <1>5, <1>12, <2>1, <2>2, <2>3, <2>4 DEF Queues
  <1>16. Writer(F, t, o, c)'
    <2>1. Writer(F, t, o, c)
      BY <1>1, <1>9 DEF Writer, NoBreakdown, Breakdown0, Breakdown1
    <2> QED BY <1>2, <2>1, WriterSame
  <1>17. Mover(F, o, c, s, k)'
    <2>1. Mover(F, o, c, s, k)
      <3>1. moverCmds \in Seq(Parts(F))
        BY <1>1, <1>9, SeqMonotone DEF Mover
      <3> QED BY <1>1, <3>1 DEF Mover
    <2> QED BY <1>2, <2>1, MoverSame
  <1>18. Gate(F, k, g, e, z)'
    <2>1. z \in Seq(Parts(F)) /\ cache \in Seq(SegCmds(F))
      BY <1>1, <1>9, SeqMonotone DEF Gate
    <2>2. Chain(cache, From, To, e, p)
      BY <1>1, <1>4 DEF Gate
    <2>3. cache' \in Seq(SegCmds(F)) /\ Chain(cache', From, To, e, q)
      BY <1>4, <1>5, <1>13, <2>1, <2>2, ChainAppend, AppendFacts
    <2>4. GateAt(F, g, e)'
      BY <1>1, <1>2, <1>9, <1>12 DEF Gate, GateAt
    <2>5. Delayed'
      <3>1. SUFFICES ASSUME side' = "rx"
                     PROVE  /\ double' \in Seq(BOOLEAN) /\ Len(cache') = Len(double') + Len(writeCmds')
                            /\ \A i \in 1 .. Len(double') :
                                  double'[i] <=> (From[cache'[i]] < Wrap /\ Wrap < To[cache'[i]])
                            /\ \A i \in 1 .. Len(writeCmds') : writeCmds'[i] = cache'[Len(double') + i]
        BY <1>12 DEF Delayed, Crosses
      <3>2. /\ double \in Seq(BOOLEAN) /\ Len(cache) = Len(double) + Len(writeCmds)
            /\ \A i \in 1 .. Len(double) : double[i] <=> Crosses(From[cache[i]], To[cache[i]])
            /\ \A i \in 1 .. Len(writeCmds) : writeCmds[i] = cache[Len(double) + i]
        BY <1>1, <1>12, <3>1 DEF Gate, Delayed
      <3>3. PICK m \in Nat, n \in Nat : m = Len(double) /\ n = Len(writeCmds) /\ Len(cache) = m + n
        BY <1>1, <3>2, LenProperties DEF Queues
      <3>4. /\ Len(cache') = m + n + 1 /\ Len(writeCmds') = n + 1
            /\ \A i \in 1 .. m + n : cache'[i] = cache[i]
            /\ cache'[m + n + 1] = Part(p, q)
            /\ \A i \in 1 .. n : writeCmds'[i] = writeCmds[i]
            /\ writeCmds'[n + 1] = Part(p, q)
        BY <1>1, <1>5, <3>3, AppendFacts DEF Queues, Gate
      <3>5. ASSUME NEW i \in 1 .. m PROVE double[i] <=> Crosses(From[cache'[i]], To[cache'[i]])
        <4>1. cache'[i] = cache[i]
          BY <3>4
        <4> QED BY <3>2, <3>3, <4>1
      <3>6. ASSUME NEW i \in 1 .. n + 1 PROVE writeCmds'[i] = cache'[m + i]
        <4>1. CASE i = n + 1
          BY <3>4, <4>1
        <4>2. CASE i \in 1 .. n
          <5>1. m + i \in 1 .. m + n
            BY <4>2
          <5> QED BY <3>2, <3>3, <3>4, <4>2, <5>1
        <4> QED BY <4>1, <4>2
      <3>7. double' = double /\ m + n + 1 = m + (n + 1)
        BY <1>2
      <3> QED BY <3>2, <3>3, <3>4, <3>5, <3>6, <3>7 DEF Crosses
    <2>6. /\ z \in Seq(Parts(F)) /\ Chain(z, From, To, g, k)
          /\ statuses \in Seq({"okay"}) /\ Len(statuses) = Len(z) /\ GateType
      BY <1>1, <2>1 DEF Gate
    <2> QED BY <1>2, <1>5, <1>12, <2>3, <2>4, <2>5, <2>6 DEF Gate, GateType
  <1>19. WInv(F, x, t, o, c, s, k, g, e, z)'
    BY <1>12, <1>14, <1>15, <1>16, <1>17, <1>18 DEF WInv
  <1>20. p \in Nat /\ q \in Nat /\ p = accepted /\ q = p + length /\ F = E \cup {q} /\ accepted' = q
    BY <1>4, <1>5, <1>7
  <1> QED BY <1>10, <1>19, <1>20
(* ... a word on its way to the writer ...                                 *)
LEMMA WDataBroadcast ==
    ASSUME MemoryConstants, NEW E, NEW x, NEW t, NEW o, NEW c, NEW s, NEW k, NEW g, NEW e, NEW z,
           WInv(E, x, t, o, c, s, k, g, e, z), DataBroadcast
    PROVE  \E x2 \in Nat : /\ Head(input) \in GoodWords(E, accepted) /\ Lo[Head(input)] = x /\ Hi[Head(input)] = x2
                           /\ WInv(E, x2, t, o, c, s, k, g, e, z)'
  <1>1. ChosenOK /\ Cuts(E) /\ Queues(E, x, t, c) /\ Writer(E, t, o, c) /\ Mover(E, o, c, s, k) /\ Gate(E, k, g, e, z)
    BY DEF WInv
  <1>2. /\ UNCHANGED <<chosen, accepted, announced, cache, gate, writeCmds, writer, moverCmds,
                       moverData, statuses, written, double, memory>>
        /\ input # <<>> /\ toMemory' = Append(toMemory, Head(input)) /\ input' = Tail(input)
    BY DEF DataBroadcast, gating
  <1>3. PICK w : w = Head(input)
    OBVIOUS
  <1>4. PICK x2 : x2 = Hi[w]
    OBVIOUS
  <1>5. /\ input \in Seq(GoodWords(E, accepted)) /\ Chain(input, Lo, Hi, x, accepted)
        /\ toMemory \in Seq(GoodWords(E, accepted)) /\ Chain(toMemory, Lo, Hi, t, x)
        /\ writeCmds \in Seq(SegCmds(E)) /\ Chain(writeCmds, From, To, c, accepted)
    BY <1>1 DEF Queues
  <1>6. w \in GoodWords(E, accepted) /\ Tail(input) \in Seq(GoodWords(E, accepted))
    BY <1>2, <1>3, <1>5, TailFacts
  <1>7. Lo[w] = x /\ x2 \in Nat /\ x < x2 /\ Chain(Tail(input), Lo, Hi, x2, accepted)
    BY <1>2, <1>3, <1>4, <1>5, ChainFacts, ChainTail
  <1>8. /\ Append(toMemory, w) \in Seq(GoodWords(E, accepted))
        /\ Chain(Append(toMemory, w), Lo, Hi, t, x2)
    BY <1>4, <1>5, <1>6, <1>7, ChainAppend, AppendFacts
  <1>9. From' = From /\ To' = To /\ SegCmds(E)' = SegCmds(E) /\ ChosenOK'
    BY <1>1, <1>2, Frozen
  <1>10. Queues(E, x2, t, c)'
    BY <1>2, <1>3, <1>5, <1>6, <1>7, <1>8, <1>9 DEF Queues
  <1>11. Cuts(E)' /\ Writer(E, t, o, c)' /\ Mover(E, o, c, s, k)' /\ Gate(E, k, g, e, z)'
    BY <1>1, <1>2, CutsSame, WriterSame, MoverSame, GateSame
  <1>12. WInv(E, x2, t, o, c, s, k, g, e, z)'
    BY <1>9, <1>10, <1>11 DEF WInv
  <1> QED BY <1>3, <1>4, <1>6, <1>7, <1>12

(* The word w that is due at t of a segment that ends at c.                *)
WordAt(w, t, c) ==
    \E r \in Nat :
       /\ r = Hi[w] /\ t < r /\ r <= c /\ r - t <= WordBytes /\ (r = c \/ r - t = WordBytes)
       /\ w.last \in BOOLEAN /\ (w.last <=> r = c)
       /\ w = PieceOf(t, r, w.last) /\ w.data = Bytes(t, r - t) /\ w \in Pieces

(* Words of a segment, and how they are shifted.                           *)
LEMMA WordIs ==
    ASSUME MemoryConstants, NEW E, E \in SUBSET Nat, NEW top, NEW w \in GoodWords(E, top),
           NEW a \in Nat, NEW c \in Nat, NEW t \in Nat, Segment(E, a, c), a <= t, t < c, Lo[w] = t
    PROVE  WordAt(w, t, c)
  <1>1. w \in Pieces /\ w.last = (Hi[w] \in E) /\ NoCut(E, Lo[w], Hi[w]) /\ (w.last \/ Hi[w] - Lo[w] = WordBytes)
    BY DEF GoodWords
  <1>2. PICK r \in Nat : r = Hi[w] /\ t < r /\ r - t <= WordBytes /\ w.last \in BOOLEAN /\ w = PieceOf(t, r, w.last)
    BY <1>1, PieceIs
  <1>3. r <= c
    BY <1>1, <1>2 DEF NoCut, Segment
  <1>4. r \in E <=> r = c
    BY <1>2, <1>3 DEF Segment, NoCut
  <1>5. w.data = Bytes(t, r - t)
    BY <1>2, PieceFacts
  <1> QED BY <1>1, <1>2, <1>3, <1>4, <1>5 DEF WordAt

(* align_words_to_memory puts what is left of a word in front of the next. *)
LEMMA AlignFacts ==
    ASSUME MemoryConstants, NEW p \in Nat, NEW off \in 1 .. WordBytes - 1, NEW n \in 1 .. WordBytes
    PROVE  /\ align_words_to_memory(Bytes(p + WordBytes, n), Bytes(p, WordBytes), off)
                = Bytes(p + off, IF n > off THEN WordBytes ELSE WordBytes - off + n)
           /\ off + n <= WordBytes => align_words_to_memory(Empty, Bytes(p, off + n), off) = Bytes(p + off, n)
  <1> DEFINE W == WordBytes
  <1>1. W \in Nat \ {0}
    BY ConstantFacts
  <1>2. ASSUME NEW l \in Lanes
        PROVE  (IF l < W - off THEN Bytes(p, W)[l + off] ELSE Bytes(p + W, n)[l - (W - off)])
                 = Bytes(p + off, IF n > off THEN W ELSE W - off + n)[l]
    <2>1. CASE l < W - off
      <3>1. l + off \in Lanes
        BY <1>1, <2>1 DEF Lanes
      <3>2. Bytes(p, W)[l + off] = IF l + off < W THEN p + (l + off) ELSE NoByte
        BY <3>1 DEF Bytes
      <3>3. Bytes(p + off, IF n > off THEN W ELSE W - off + n)[l]
              = IF l < (IF n > off THEN W ELSE W - off + n) THEN (p + off) + l ELSE NoByte
        BY DEF Bytes
      <3>4. l + off < W /\ l < (IF n > off THEN W ELSE W - off + n)
        BY <1>1, <2>1 DEF Lanes
      <3> QED BY <1>1, <2>1, <3>2, <3>3, <3>4 DEF Lanes
    <2>2. CASE ~(l < W - off)
      <3>1. PICK j \in Lanes : j = l - (W - off)
        BY <1>1, <2>2 DEF Lanes
      <3>2. Bytes(p + W, n)[j] = IF j < n THEN (p + W) + j ELSE NoByte
        BY DEF Bytes
      <3>3. Bytes(p + off, IF n > off THEN W ELSE W - off + n)[l]
              = IF l < (IF n > off THEN W ELSE W - off + n) THEN (p + off) + l ELSE NoByte
        BY DEF Bytes
      <3>4. (p + W) + j = (p + off) + l /\ (j < n <=> l < (IF n > off THEN W ELSE W - off + n))
        BY <1>1, <3>1, <2>2 DEF Lanes
      <3> QED BY <2>2, <3>1, <3>2, <3>3, <3>4
    <2> QED BY <2>1, <2>2
  <1>3. off # 0
    OBVIOUS
  <1>4. align_words_to_memory(Bytes(p + W, n), Bytes(p, W), off)
          = Bytes(p + off, IF n > off THEN W ELSE W - off + n)
    <2>1. Bytes(p + off, IF n > off THEN W ELSE W - off + n)
            = [l \in Lanes |-> Bytes(p + off, IF n > off THEN W ELSE W - off + n)[l]]
      BY DEF Bytes
    <2> QED BY <1>2, <1>3, <2>1 DEF align_words_to_memory
  <1>5. ASSUME off + n <= W, NEW l \in Lanes
        PROVE  (IF l < W - off THEN Bytes(p, off + n)[l + off] ELSE Empty[l - (W - off)]) = Bytes(p + off, n)[l]
    <2>1. CASE l < W - off
      <3>1. l + off \in Lanes
        BY <1>1, <2>1 DEF Lanes
      <3>2. Bytes(p, off + n)[l + off] = IF l + off < off + n THEN p + (l + off) ELSE NoByte
        BY <3>1 DEF Bytes
      <3>3. Bytes(p + off, n)[l] = IF l < n THEN (p + off) + l ELSE NoByte
        BY DEF Bytes
      <3> QED BY <1>1, <2>1, <3>2, <3>3 DEF Lanes
    <2>2. CASE ~(l < W - off)
      <3>1. PICK j \in Lanes : j = l - (W - off)
        BY <1>1, <2>2 DEF Lanes
      <3>2. Empty[j] = NoByte /\ ~(l < n)
        BY <1>1, <1>5, <2>2 DEF Empty, Lanes
      <3> QED BY <2>2, <3>1, <3>2 DEF Bytes
    <2> QED BY <2>1, <2>2
  <1>6. ASSUME off + n <= W
        PROVE  align_words_to_memory(Empty, Bytes(p, off + n), off) = Bytes(p + off, n)
    <2>1. Bytes(p + off, n) = [l \in Lanes |-> Bytes(p + off, n)[l]]
      BY DEF Bytes
    <2> QED BY <1>3, <1>5, <1>6, <2>1 DEF align_words_to_memory
  <1> QED BY <1>4, <1>6

(* len2Keep cuts a word where the buffer ends.                             *)
LEMMA KeepFacts ==
    ASSUME MemoryConstants, NEW p \in Nat, NEW n \in 1 .. WordBytes, NEW off \in 0 .. n
    PROVE  len2Keep(Bytes(p, n), off) = Bytes(p, IF off = 0 THEN n ELSE off)
  <1>1. WordBytes \in Nat \ {0}
    BY ConstantFacts
  <1>2. ASSUME NEW l \in Lanes
        PROVE  (IF off = 0 \/ l < off THEN Bytes(p, n)[l] ELSE NoByte) = Bytes(p, IF off = 0 THEN n ELSE off)[l]
    BY <1>1 DEF Bytes, Lanes
  <1> QED BY <1>2 DEF len2Keep, Bytes
(* The gate is not concerned with the writer, but for the rx side's FIFO   *)
(* of flags.                                                               *)
LEMMA GateButDelayed ==
    ASSUME NEW E, NEW k, NEW g, NEW e, NEW z, Gate(E, k, g, e, z),
           UNCHANGED <<chosen, accepted, announced, statuses, cache, gate>>, Delayed'
    PROVE  Gate(E, k, g, e, z)'
  <1>1. /\ Wrap' = Wrap /\ From' = From /\ To' = To /\ Parts(E)' = Parts(E) /\ SegCmds(E)' = SegCmds(E)
        /\ (\A a, b : Part(a, b)' = Part(a, b)) /\ (\A a, b : Crosses(a, b)' <=> Crosses(a, b))
        /\ side' = side
    BY Frozen DEF chosen
  <1>2. GateAt(E, g, e)'
    BY <1>1 DEF Gate, GateAt
  <1> QED BY <1>1, <1>2 DEF Gate, GateType

WriterFrame == UNCHANGED <<chosen, gating, memory, bypass, reading, accepted, input, statuses, written>>

(* The number of words and the lanes up to the end of the buffer.          *)
LEMMA NumberFacts ==
    ASSUME MemoryConstants, NEW first \in Nat \ {0}
    PROVE  /\ first % WordBytes \in Lanes /\ NumberOfWords(first) \in Nat \ {0}
           /\ first = (NumberOfWords(first) - 1) * WordBytes
                      + (IF first % WordBytes = 0 THEN WordBytes ELSE first % WordBytes)
  <1>1. WordBytes \in Nat \ {0}
    BY ConstantFacts
  <1>2. PICK W \in Nat \ {0} : W = WordBytes
    BY <1>1
  <1>3. PICK q \in Int, m \in 0 .. W - 1 : first = W * q + m /\ q = first \div W /\ m = first % W
    BY <1>2, ModFacts
  <1>4. q >= 0 /\ (m = 0 => q >= 1)
    <2>1. CASE q <= -1
      <3>1. W * q <= W * (-1)
        BY <2>1
      <3> QED BY <3>1, <1>3
    <2>2. CASE q = 0
      BY <1>3, <2>2
    <2> QED BY <2>1, <2>2
  <1>5. NumberOfWords(first) = q + (IF m # 0 THEN 1 ELSE 0)
    BY <1>2, <1>3 DEF NumberOfWords
  <1>6. W * q = q * W /\ (q - 1) * W = q * W - W
    OBVIOUS
  <1>7. PICK v \in Nat \ {0} : v = NumberOfWords(first) /\ v = q + (IF m # 0 THEN 1 ELSE 0)
    BY <1>4, <1>5
  <1>8. first = (v - 1) * W + (IF m = 0 THEN W ELSE m)
    <2>1. CASE m = 0
      <3>1. v = q
        BY <1>7, <2>1
      <3> QED BY <1>3, <1>6, <2>1, <3>1
    <2>2. CASE m # 0
      <3>1. v - 1 = q
        BY <1>7, <2>2
      <3> QED BY <1>3, <1>6, <2>2, <3>1
    <2> QED BY <2>1, <2>2
  <1>9. first % WordBytes = m /\ m \in Lanes
    BY <1>2, <1>3 DEF Lanes
  <1> QED BY <1>2, <1>7, <1>8, <1>9

(* The writer takes a command and gives the first of one or two to the     *)
(* Data Mover.                                                             *)
LEMMA WWaitCommand ==
    ASSUME MemoryConstants, NEW E, NEW x, NEW t, NEW o, NEW c, NEW s, NEW k, NEW g, NEW e, NEW z,
           WInv(E, x, t, o, c, s, k, g, e, z), WaitCommand, WriterFrame
    PROVE  \E t2, o2, c2 : WInv(E, x, t2, o2, c2, s, k, g, e, z)'
  <1>1. ChosenOK /\ Cuts(E) /\ Queues(E, x, t, c) /\ Writer(E, t, o, c) /\ Mover(E, o, c, s, k) /\ Gate(E, k, g, e, z)
    BY DEF WInv
  <1>2. /\ UNCHANGED <<chosen, accepted, announced, cache, gate, toMemory, moverData, statuses, written, memory, input>>
        /\ writer.state = "WAIT_CMD" /\ writeCmds # <<>> /\ writeCmds' = Tail(writeCmds)
    BY DEF WaitCommand, WriterFrame, gating
  <1>3. /\ writeCmds \in Seq(SegCmds(E)) /\ Chain(writeCmds, From, To, c, accepted)
        /\ Below(E) /\ E \in SUBSET Nat
    BY <1>1, BufferBelow DEF Queues
  <1>4. /\ Head(writeCmds) \in SegCmds(E) /\ From[Head(writeCmds)] = c /\ c \in Nat
        /\ Tail(writeCmds) \in Seq(SegCmds(E)) /\ Head(writeCmds) = writeCmds[1]
        /\ Chain(Tail(writeCmds), From, To, To[Head(writeCmds)], accepted)
    BY <1>2, <1>3, ChainFacts, ChainTail, TailFacts
  <1>5. PICK r \in Nat : /\ r = To[Head(writeCmds)] /\ Segment(E, c, r) /\ c < r
                         /\ c < BufferSize /\ r < BufferSize
                         /\ Head(writeCmds) = Part(c, r) /\ Part(c, r) \in Cmds
    BY <1>1, <1>3, <1>4, SegCmdIs DEF Segment
  <1>6. r # Wrap /\ r \in E /\ c \in E
    BY <1>1, <1>5 DEF Segment, Cuts
  <1>7. Part(c, r).saddr = Address(c) /\ Part(c, r).bbt = r - c
    BY <1>1, <1>4, <1>5, PartFacts
  <1>8. /\ (Position(Address(c)) + (r - c) >= BufferSize) <=> Crosses(c, r)
        /\ Crosses(c, r) => BufferSize - Position(Address(c)) = Wrap - c
    BY <1>1, <1>4, <1>5, <1>6, OverflowIs
  <1>9. /\ Wrap' = Wrap /\ From' = From /\ To' = To /\ SegCmds(E)' = SegCmds(E) /\ ChosenOK'
        /\ Parts(E)' = Parts(E) /\ (\A a : Address(a)' = Address(a))
        /\ (\A a, b : Part(a, b)' = Part(a, b)) /\ (\A a, b : Crosses(a, b)' <=> Crosses(a, b))
        /\ side' = side
    BY <1>1, <1>2, Frozen DEF chosen
  <1>10. Cuts(E)'
    BY <1>1, <1>2, CutsSame
  <1>11. Queues(E, x, t, r)'
    BY <1>1, <1>2, <1>4, <1>5, <1>9 DEF Queues
  <1>12. Gate(E, k, g, e, z)'
    <2>1. CASE side = "rx"
      <3>1. /\ double \in Seq(BOOLEAN) /\ Len(cache) = Len(double) + Len(writeCmds)
            /\ \A i \in 1 .. Len(double) : double[i] <=> Crosses(From[cache[i]], To[cache[i]])
            /\ \A i \in 1 .. Len(writeCmds) : writeCmds[i] = cache[Len(double) + i]
        BY <1>1, <2>1 DEF Gate, Delayed
      <3>2. PICK v \in BOOLEAN : /\ v <=> Crosses(c, r)
                                 /\ double' = Append(double, v)
        <4>1. double' = Append(double, (Position(Address(c)) + (r - c) >= BufferSize))
          BY <1>5, <1>7, <2>1 DEF WaitCommand
        <4>2. CASE Crosses(c, r)
          <5>1. (Position(Address(c)) + (r - c) >= BufferSize) = TRUE
            BY <1>8, <4>2
          <5> QED BY <4>1, <4>2, <5>1
        <4>3. CASE ~Crosses(c, r)
          <5>1. (Position(Address(c)) + (r - c) >= BufferSize) = FALSE
            BY <1>8, <4>3
          <5> QED BY <4>1, <4>3, <5>1
        <4> QED BY <4>2, <4>3
      <3>3. PICK m \in Nat, n \in Nat : m = Len(double) /\ n = Len(writeCmds) /\ Len(cache) = m + n /\ n # 0
        BY <1>2, <1>3, <3>1, LenProperties, EmptySeq
      <3>4. /\ double' \in Seq(BOOLEAN) /\ Len(double') = m + 1 /\ double'[m + 1] = v
            /\ \A i \in 1 .. m : double'[i] = double[i]
        BY <3>1, <3>2, <3>3, AppendFacts
      <3>5. Len(writeCmds') = n - 1 /\ \A i \in 1 .. n - 1 : writeCmds'[i] = writeCmds[i + 1]
        BY <1>2, <1>3, <3>3, TailFacts
      <3>6. From[cache[m + 1]] = c /\ To[cache[m + 1]] = r
        BY <1>4, <1>5, <3>1, <3>3
      <3>7. ASSUME NEW i \in 1 .. m + 1 PROVE double'[i] <=> (From[cache[i]] < Wrap /\ Wrap < To[cache[i]])
        <4>1. CASE i = m + 1
          BY <3>2, <3>4, <3>6, <4>1 DEF Crosses
        <4>2. CASE i \in 1 .. m
          BY <3>1, <3>3, <3>4, <4>2 DEF Crosses
        <4> QED BY <4>1, <4>2
      <3>8. ASSUME NEW i \in 1 .. n - 1 PROVE writeCmds'[i] = cache[(m + 1) + i]
        <4>1. i + 1 \in 1 .. n /\ m + (i + 1) = (m + 1) + i
          OBVIOUS
        <4>2. writeCmds[i + 1] = cache[m + (i + 1)]
          BY <3>1, <3>3, <4>1
        <4> QED BY <3>5, <4>1, <4>2
      <3>9. Len(cache) = (m + 1) + (n - 1)
        BY <3>3
      <3>10. Delayed'
        BY <1>2, <1>9, <3>4, <3>5, <3>7, <3>8, <3>9 DEF Delayed, Crosses
      <3> QED BY <1>1, <1>2, <3>10, GateButDelayed
    <2>2. CASE side # "rx"
      <3>1. Delayed'
        BY <1>9, <2>2 DEF Delayed
      <3> QED BY <1>1, <1>2, <3>1, GateButDelayed
    <2> QED BY <2>1, <2>2
  <1>13. o = t /\ t = c /\ WriterType
    BY <1>1, <1>2 DEF Writer, NoBreakdown, Breakdown0, Breakdown1, Extra
  <1>14. moverCmds \in Seq(Parts(E)) /\ Chain(moverCmds, From, To, k, c)
    BY <1>1, <1>2 DEF Mover
  <1>15. CASE Crosses(c, r)
    <2>1. PICK first \in Nat \ {0} : first = Wrap - c /\ BufferSize - Position(Address(c)) = first
      BY <1>1, <1>4, <1>8, <1>15, ChosenFacts DEF Crosses
    <2>2. writer' = [writer EXCEPT !.state = "FWD_BREAKDOWN_0", !.cmd = Part(c, r),
                                   !.byte_offset = first % WordBytes, !.first = first,
                                   !.left = NumberOfWords(first)]
          /\ moverCmds' = Append(moverCmds, Command(Address(c), first))
      BY <1>5, <1>7, <1>8, <1>15, <2>1 DEF WaitCommand
    <2>3. /\ first % WordBytes \in Lanes /\ NumberOfWords(first) \in Nat \ {0}
          /\ first = (NumberOfWords(first) - 1) * WordBytes
                      + (IF first % WordBytes = 0 THEN WordBytes ELSE first % WordBytes)
      BY NumberFacts
    <2>4. /\ WriterType' /\ writer'.state = "FWD_BREAKDOWN_0" /\ writer'.cmd = Part(c, r)
          /\ writer'.byte_offset = first % WordBytes /\ writer'.first = first
          /\ writer'.left = NumberOfWords(first)
      <3>1. PICK v \in Nat, b \in Lanes, i \in Int : v = NumberOfWords(first) /\ b = first % WordBytes /\ i = first
        BY <2>3
      <3>2. writer' = [writer EXCEPT !.state = "FWD_BREAKDOWN_0", !.cmd = Part(c, r),
                                     !.byte_offset = b, !.first = i, !.left = v]
        BY <2>2, <3>1
      <3> QED BY <1>5, <1>13, <3>1, <3>2 DEF WriterType
    <2>5. Writer(E, t, o, r)'
      <3>1. Segment(E, c, r) /\ Crosses(c, r)' /\ c <= t /\ t < Wrap /\ writer'.cmd = Part(c, r) /\ writer'.first = Wrap - c
        BY <1>4, <1>5, <1>9, <1>13, <1>15, <2>1, <2>4 DEF Crosses
      <3>2. Breakdown0(E, t, o, r)'
        BY <1>4, <1>9, <1>13, <2>1, <2>3, <2>4, <3>1 DEF Breakdown0
      <3> QED BY <1>4, <1>13, <2>4, <3>2 DEF Writer
    <2>6. Command(Address(c), first) = Part(c, Wrap)
      BY <2>1 DEF Part
    <2>7. Part(c, Wrap) \in Parts(E) /\ From[Part(c, Wrap)] = c /\ To[Part(c, Wrap)] = Wrap /\ c < Wrap /\ Wrap \in Nat
      <3>1. c < Wrap /\ ~Crosses(c, Wrap) /\ NoCut(E, c, Wrap) /\ \E d \in E : Wrap < d
        BY <1>1, <1>5, <1>6, <1>15, ChosenFacts DEF Crosses, Segment, NoCut
      <3> QED BY <1>1, <1>3, <1>6, <3>1, PartIn
    <2>8. moverCmds' \in Seq(Parts(E)) /\ Chain(moverCmds', From, To, k, Wrap)
      BY <1>14, <2>2, <2>6, <2>7, ChainAppend, AppendFacts
    <2>9. Mover(E, o, r, s, k)'
      <3>1. moverCmds' # <<>>
        BY <1>14, <2>2, AppendFacts
      <3> QED BY <1>1, <1>2, <1>9, <2>4, <2>8, <3>1 DEF Mover
    <2>10. WInv(E, x, t, o, r, s, k, g, e, z)'
      BY <1>9, <1>10, <1>11, <1>12, <2>5, <2>9 DEF WInv
    <2> QED BY <2>10
  <1>16. CASE ~Crosses(c, r)
    <2>2. writer' = [writer EXCEPT !.state = "FWD_NO_BREAKDOWN", !.cmd = Part(c, r)]
          /\ moverCmds' = Append(moverCmds, Part(c, r))
      BY <1>5, <1>7, <1>8, <1>16 DEF WaitCommand
    <2>4. WriterType' /\ writer'.state = "FWD_NO_BREAKDOWN"
      BY <1>5, <1>13, <2>2 DEF WriterType
    <2>5. Writer(E, t, o, r)'
      BY <1>4, <1>5, <1>13, <2>4 DEF Writer, NoBreakdown
    <2>7. Part(c, r) \in Parts(E) /\ From[Part(c, r)] = c /\ To[Part(c, r)] = r
      <3>1. NoCut(E, c, r)
        BY <1>5 DEF Segment
      <3> QED BY <1>1, <1>3, <1>5, <1>6, <1>16, <3>1, PartIn
    <2>8. moverCmds' \in Seq(Parts(E)) /\ Chain(moverCmds', From, To, k, r)
      BY <1>5, <1>14, <2>2, <2>7, ChainAppend, AppendFacts
    <2>9. Mover(E, o, r, s, k)'
      <3>1. moverCmds' # <<>>
        BY <1>14, <2>2, AppendFacts
      <3> QED BY <1>1, <1>2, <1>9, <2>4, <2>8, <3>1 DEF Mover
    <2>10. WInv(E, x, t, o, r, s, k, g, e, z)'
      BY <1>9, <1>10, <1>11, <1>12, <2>5, <2>9 DEF WInv
    <2> QED BY <2>10
  <1> QED BY <1>15, <1>16
(* The word that the writer takes.                                         *)
LEMMA TakeFacts ==
    ASSUME MemoryConstants, NEW E, NEW x, NEW t, NEW o, NEW c, NEW s, NEW k, NEW g, NEW e, NEW z,
           WInv(E, x, t, o, c, s, k, g, e, z), TakeWord, WriterFrame,
           NEW a \in Nat, Segment(E, a, c), a <= t, t < c
    PROVE  /\ t \in Nat /\ c \in Nat /\ c \in E
           /\ \E r \in Nat :
                 LET w == Head(toMemory) IN
                 /\ t < r /\ r <= c /\ r - t <= WordBytes /\ (r = c \/ r - t = WordBytes)
                 /\ w.last \in BOOLEAN /\ (w.last <=> r = c)
                 /\ w = PieceOf(t, r, w.last) /\ w.data = Bytes(t, r - t)
                 /\ Cuts(E)' /\ Queues(E, x, r, c)' /\ Gate(E, k, g, e, z)' /\ ChosenOK'
  <1>1. ChosenOK /\ Cuts(E) /\ Queues(E, x, t, c) /\ Gate(E, k, g, e, z)
    BY DEF WInv
  <1>2. /\ UNCHANGED <<chosen, accepted, announced, cache, gate, writeCmds, double, statuses, written, memory, input>>
        /\ toMemory # <<>> /\ toMemory' = Tail(toMemory)
    BY DEF TakeWord, WriterFrame, gating
  <1>3. toMemory \in Seq(GoodWords(E, accepted)) /\ Chain(toMemory, Lo, Hi, t, x) /\ E \in SUBSET Nat
    BY <1>1, BufferBelow DEF Queues
  <1>4. PICK w : w = Head(toMemory)
    OBVIOUS
  <1>5. /\ w \in GoodWords(E, accepted) /\ Lo[w] = t /\ t \in Nat
        /\ toMemory' \in Seq(GoodWords(E, accepted))
        /\ Chain(toMemory', Lo, Hi, Hi[w], x)
    BY <1>2, <1>3, <1>4, ChainFacts, ChainTail, TailFacts
  <1>6. c \in E /\ c \in Nat
    BY <1>3 DEF Segment
  <1>7. PICK r \in Nat : /\ r = Hi[w] /\ t < r /\ r <= c /\ r - t <= WordBytes /\ (r = c \/ r - t = WordBytes)
                         /\ w.last \in BOOLEAN /\ (w.last <=> r = c)
                         /\ w = PieceOf(t, r, w.last) /\ w.data = Bytes(t, r - t)
    <2>1. PICK top : top = accepted
      OBVIOUS
    <2>2. w \in GoodWords(E, top) /\ E \in SUBSET Nat /\ Lo[w] = t /\ t \in Nat /\ c \in Nat
      BY <1>3, <1>5, <1>6, <2>1
    <2>3. WordAt(w, t, c)
      BY <1>3, <2>2, WordIs, Zenon
    <2> QED BY <2>3 DEF WordAt
  <1>8. From' = From /\ To' = To /\ SegCmds(E)' = SegCmds(E) /\ ChosenOK'
    BY <1>1, <1>2, Frozen
  <1>9. Queues(E, x, r, c)'
    BY <1>1, <1>2, <1>5, <1>7, <1>8 DEF Queues
  <1>10. Cuts(E)' /\ Gate(E, k, g, e, z)'
    BY <1>1, <1>2, CutsSame, GateSame
  <1> QED BY <1>4, <1>5, <1>6, <1>7, <1>8, <1>9, <1>10

(* The Data Mover is given a word more.                                    *)
LEMMA MoverGets ==
    ASSUME MemoryConstants, NEW E, NEW o \in Nat, NEW o2 \in Nat, NEW c, NEW s, NEW k, NEW l \in BOOLEAN,
           Mover(E, o, c, s, k), o < o2, o2 - o <= WordBytes, UNCHANGED <<chosen, moverCmds, written, memory>>,
           moverData' = Append(moverData, PieceOf(o, o2, l)),
           (writer.state = "FWD_BREAKDOWN_0") <=> (writer'.state = "FWD_BREAKDOWN_0")
    PROVE  Mover(E, o2, c, s, k)'
  <1>1. /\ Wrap' = Wrap /\ From' = From /\ To' = To /\ Parts(E)' = Parts(E) /\ (\A a : Address(a)' = Address(a))
    BY Frozen
  <1>2. PICK w \in Pieces : w = PieceOf(o, o2, l) /\ Lo[w] = o /\ Hi[w] = o2
    BY PieceFacts
  <1>3. moverData \in Seq(Pieces) /\ Chain(moverData, Lo, Hi, s, o)
    BY DEF Mover
  <1>4. moverData' \in Seq(Pieces) /\ Chain(moverData', Lo, Hi, s, o2)
    BY <1>2, <1>3, ChainAppend, AppendFacts
  <1> QED BY <1>1, <1>4 DEF Mover

(* A word of a segment that does not cross the end of the buffer ...       *)
LEMMA WForwardAll ==
    ASSUME MemoryConstants, NEW E, NEW x, NEW t, NEW o, NEW c, NEW s, NEW k, NEW g, NEW e, NEW z,
           WInv(E, x, t, o, c, s, k, g, e, z), ForwardAll, WriterFrame
    PROVE  \E t2, o2, c2 : WInv(E, x, t2, o2, c2, s, k, g, e, z)'
  <1>1. Writer(E, t, o, c) /\ Mover(E, o, c, s, k)
    BY DEF WInv
  <1>2. /\ writer.state = "FWD_NO_BREAKDOWN" /\ TakeWord /\ UNCHANGED moverCmds
        /\ moverData' = Append(moverData, Head(toMemory))
        /\ writer' = [writer EXCEPT !.state = IF Head(toMemory).last THEN "WAIT_CMD" ELSE @]
    BY DEF ForwardAll
  <1>3. PICK a \in Nat : Segment(E, a, c) /\ a <= t /\ t < c /\ o = t /\ WriterType
    BY <1>1, <1>2 DEF Writer, NoBreakdown, Breakdown0, Breakdown1, Extra
  <1>4. t \in Nat /\ c \in Nat
    BY <1>2, <1>3, TakeFacts
  <1>5. PICK r \in Nat :
                 LET w == Head(toMemory) IN
                 /\ t < r /\ r <= c /\ r - t <= WordBytes /\ (r = c \/ r - t = WordBytes)
                 /\ w.last \in BOOLEAN /\ (w.last <=> r = c)
                 /\ w = PieceOf(t, r, w.last) /\ w.data = Bytes(t, r - t)
                 /\ Cuts(E)' /\ Queues(E, x, r, c)' /\ Gate(E, k, g, e, z)' /\ ChosenOK'
    BY <1>2, <1>3, TakeFacts
  <1>6. PICK l \in BOOLEAN : l = Head(toMemory).last /\ (l <=> r = c) /\ Head(toMemory) = PieceOf(t, r, l)
    BY <1>5
  <1>7. WriterType' /\ writer'.state = IF l THEN "WAIT_CMD" ELSE "FWD_NO_BREAKDOWN"
    BY <1>2, <1>3, <1>6 DEF WriterType
  <1>8. Writer(E, r, r, c)'
    <2>1. CASE l
      BY <1>6, <1>7, <2>1 DEF Writer
    <2>2. CASE ~l
      <3>1. a <= r /\ r < c
        BY <1>3, <1>4, <1>5, <1>6, <2>2
      <3>2. NoBreakdown(E, r, r, c)'
        BY <1>3, <1>7, <2>2, <3>1 DEF NoBreakdown
      <3> QED BY <1>7, <3>2 DEF Writer
    <2> QED BY <2>1, <2>2
  <1>9. Mover(E, r, c, s, k)'
    <2>1. UNCHANGED <<chosen, moverCmds, written, memory>>
      BY <1>2 DEF WriterFrame
    <2>2. moverData' = Append(moverData, PieceOf(t, r, l))
      BY <1>2, <1>6
    <2>3. writer.state # "FWD_BREAKDOWN_0" /\ writer'.state # "FWD_BREAKDOWN_0"
      BY <1>2, <1>7
    <2> QED BY <1>1, <1>3, <1>4, <1>5, <2>1, <2>2, <2>3, MoverGets
  <1>10. WInv(E, x, r, r, c, s, k, g, e, z)'
    BY <1>5, <1>8, <1>9 DEF WInv
  <1> QED BY <1>10
(* ... of the first part of one that does; the last of them gives the      *)
(* second command ...                                                      *)
LEMMA WForwardFirst ==
    ASSUME MemoryConstants, NEW E, NEW x, NEW t, NEW o, NEW c, NEW s, NEW k, NEW g, NEW e, NEW z,
           WInv(E, x, t, o, c, s, k, g, e, z), ForwardFirst, WriterFrame
    PROVE  \E t2, o2, c2 : WInv(E, x, t2, o2, c2, s, k, g, e, z)'
  <1>1. Writer(E, t, o, c) /\ Mover(E, o, c, s, k) /\ ChosenOK /\ Cuts(E) /\ Below(E)
    BY BufferBelow DEF WInv
  <1>2. /\ writer.state = "FWD_BREAKDOWN_0" /\ TakeWord
        /\ UNCHANGED <<chosen, written, memory>>
    BY DEF ForwardFirst, WriterFrame
  <1>3. Breakdown0(E, t, o, c) /\ WriterType
    BY <1>1, <1>2 DEF Writer, NoBreakdown, Breakdown1, Extra
  <1>4. PICK a \in Nat : /\ Segment(E, a, c) /\ Crosses(a, c) /\ a <= t /\ t < Wrap
                         /\ writer.cmd = Part(a, c) /\ writer.first = Wrap - a
    BY <1>3 DEF Breakdown0
  <1>5. PICK W \in Nat \ {0}, off \in Nat, left \in Nat \ {0}, v \in Nat :
             W = WordBytes /\ off = writer.byte_offset /\ off < W /\ left = writer.left /\ v = Wrap
    BY <1>1, <1>3, ConstantFacts, ChosenFacts DEF Breakdown0, WriterType, Lanes
  <1>6. o = t /\ Wrap - t = (left - 1) * W + (IF off = 0 THEN W ELSE off)
    BY <1>3, <1>5 DEF Breakdown0
  <1>7. Wrap \in Nat /\ a < Wrap /\ Wrap < c /\ a \in E /\ c \in E /\ a < BufferSize
    BY <1>1, <1>4, ChosenFacts, ConstantFacts DEF Crosses, Segment, Below
  <1>8. t < c /\ t \in Nat /\ c \in Nat
    <2>1. c \in Nat
      BY <1>1, <1>7 DEF Below
    <2>2. t \in Int
      BY <1>1, <1>6 DEF Writer
    <2>3. t < c
      BY <1>4, <1>7, <2>1, <2>2
    <2> QED BY <1>2, <1>4, <2>1, <2>3, TakeFacts
  <1>9. PICK r \in Nat :
                 LET w == Head(toMemory) IN
                 /\ t < r /\ r <= c /\ r - t <= WordBytes /\ (r = c \/ r - t = WordBytes)
                 /\ w.last \in BOOLEAN /\ (w.last <=> r = c)
                 /\ w = PieceOf(t, r, w.last) /\ w.data = Bytes(t, r - t)
                 /\ Cuts(E)' /\ Queues(E, x, r, c)' /\ Gate(E, k, g, e, z)' /\ ChosenOK'
    BY <1>2, <1>4, <1>8, TakeFacts
  <1>10. PICK l \in BOOLEAN : l = Head(toMemory).last /\ (l <=> r = c) /\ Head(toMemory) = PieceOf(t, r, l)
    BY <1>9
  <1>11. /\ Wrap' = Wrap /\ From' = From /\ To' = To /\ Parts(E)' = Parts(E) /\ (\A u : Address(u)' = Address(u))
         /\ (\A u, w : Part(u, w)' = Part(u, w)) /\ (\A u, w : Crosses(u, w)' <=> Crosses(u, w))
    BY <1>2, Frozen
  <1>12. Bytes(t, r - t) \in Data
    BY <1>8, BytesData
  <1>13. CASE left # 1
    <2>1. r - t = W /\ r < Wrap /\ ~l
      <3>1. (left - 1) * W >= W
        <4>1. left - 1 >= 1
          BY <1>13
        <4> QED BY <4>1
      <3>2. Wrap - t > W
        BY <1>6, <3>1
      <3> QED BY <1>5, <1>7, <1>8, <1>9, <1>10, <3>2
    <2>2. /\ moverData' = Append(moverData, PieceOf(t, r, l)) /\ moverCmds' = moverCmds
          /\ writer' = [writer EXCEPT !.left = @ - 1, !.prev = Bytes(t, r - t)]
      BY <1>5, <1>9, <1>10, <1>13, <1>3 DEF ForwardFirst, WriterType
    <2>3. /\ WriterType' /\ writer'.state = "FWD_BREAKDOWN_0" /\ writer'.cmd = writer.cmd
          /\ writer'.first = writer.first /\ writer'.byte_offset = off /\ writer'.left = left - 1
      <3>1. left - 1 \in Nat
        OBVIOUS
      <3> QED BY <1>2, <1>3, <1>5, <1>12, <2>2, <3>1 DEF WriterType
    <2>4. Wrap - r = ((left - 1) - 1) * W + (IF off = 0 THEN W ELSE off)
      <3>1. ((left - 1) - 1) * W = (left - 1) * W - W
        OBVIOUS
      <3> QED BY <1>6, <1>7, <1>8, <2>1, <3>1
    <2>5. Breakdown0(E, r, r, c)'
      <3>1. left - 1 # 0 /\ a <= r
        BY <1>4, <1>8, <1>9, <1>13
      <3> QED BY <1>4, <1>5, <1>11, <2>1, <2>3, <2>4, <3>1 DEF Breakdown0
    <2>6. Writer(E, r, r, c)'
      BY <2>3, <2>5 DEF Writer
    <2>7. Mover(E, r, c, s, k)'
      BY <1>1, <1>2, <1>6, <1>8, <1>9, <2>2, <2>3, MoverGets
    <2>8. WInv(E, x, r, r, c, s, k, g, e, z)'
      BY <1>9, <2>6, <2>7 DEF WInv
    <2> QED BY <2>8
  <1>14. CASE left = 1
    <2>1. Wrap - t = (IF off = 0 THEN W ELSE off)
      <3>1. (left - 1) * W = 0
        BY <1>14
      <3> QED BY <1>6, <3>1
    <2>2. /\ r >= Wrap /\ (off = 0 => r = Wrap /\ ~l) /\ (off # 0 => r > Wrap /\ off < r - t)
          /\ Wrap - t \in 1 .. W /\ t < Wrap
      BY <1>4, <1>5, <1>7, <1>8, <1>9, <1>10, <2>1
    <2>3. PICK n \in 1 .. WordBytes : n = r - t /\ off \in 0 .. n
      BY <1>5, <1>8, <1>9, <2>2
    <2>4. len2Keep(Bytes(t, r - t), off) = Bytes(t, Wrap - t)
      BY <1>5, <1>8, <2>1, <2>2, <2>3, KeepFacts
    <2>5. /\ moverData' = Append(moverData, PieceOf(t, Wrap, TRUE))
          /\ moverCmds' = Append(moverCmds, Command(BaseOf(Part(a, c).saddr), Part(a, c).bbt - (Wrap - a)))
          /\ writer' = [writer EXCEPT !.left = 0, !.prev = Bytes(t, r - t),
                                      !.state = IF l THEN "FWD_EXTRA" ELSE "FWD_BREAKDOWN_1"]
      <3>1. writer.left = 1 /\ writer.left - 1 = 0 /\ Head(toMemory).data = Bytes(t, r - t)
        BY <1>5, <1>9, <1>14
      <3>2. moverData' = Append(moverData, PieceOf(t, Wrap, TRUE))
        BY <1>5, <2>4, <3>1 DEF ForwardFirst, PieceOf
      <3>3. writer' = [writer EXCEPT !.left = 0, !.prev = Bytes(t, r - t),
                                     !.state = IF l THEN "FWD_EXTRA" ELSE "FWD_BREAKDOWN_1"]
        BY <1>3, <1>10, <3>1 DEF ForwardFirst, WriterType
      <3> QED BY <1>4, <3>1, <3>2, <3>3 DEF ForwardFirst
    <2>6. Command(BaseOf(Part(a, c).saddr), Part(a, c).bbt - (Wrap - a)) = Part(Wrap, c)
      <3>1. Part(a, c).saddr = Address(a) /\ Part(a, c).bbt = c - a
        BY <1>1, <1>7, <1>8, PartFacts
      <3>2. BaseOf(Address(a)) = Base
        BY <1>1, <1>7, ConstantFacts, AddressIs
      <3>3. c < BufferSize
        BY <1>1, <1>7, ConstantFacts DEF Below
      <3>4. Wrap \in 0 .. BufferSize - 1 /\ BufferSize \in Nat
        BY <1>7, <1>8, <3>3, ConstantFacts
      <3>5. Address(Wrap) = Base
        BY <1>1, <3>4, AddressIs, ChosenFacts
      <3>6. (c - a) - (Wrap - a) = c - Wrap
        BY <1>7, <1>8
      <3> QED BY <3>1, <3>2, <3>5, <3>6 DEF Part, Command
    <2>7. Part(Wrap, c) \in Parts(E) /\ From[Part(Wrap, c)] = Wrap /\ To[Part(Wrap, c)] = c
      <3>1. ~Crosses(Wrap, c) /\ NoCut(E, Wrap, c) /\ c # Wrap
        BY <1>1, <1>4, <1>7, <1>8 DEF Crosses, Segment, NoCut, Below
      <3> QED BY <1>1, <1>7, <3>1, PartIn
    <2>8. /\ moverCmds \in Seq(Parts(E)) /\ Chain(moverCmds, From, To, k, Wrap)
          /\ moverData \in Seq(Pieces) /\ Chain(moverData, Lo, Hi, s, t)
      BY <1>1, <1>2, <1>6 DEF Mover
    <2>9. moverCmds' \in Seq(Parts(E)) /\ Chain(moverCmds', From, To, k, c) /\ moverCmds' # <<>>
      <3>1. PICK q \in Parts(E) : q = Part(Wrap, c) /\ From[q] = v /\ To[q] = c /\ moverCmds' = Append(moverCmds, q)
        BY <1>5, <2>5, <2>6, <2>7
      <3>2. Chain(moverCmds, From, To, k, v) /\ v < c
        BY <1>5, <1>7, <2>8
      <3> QED BY <1>8, <2>8, <3>1, <3>2, ChainAppend, AppendFacts
    <2>10. PieceOf(t, Wrap, TRUE) \in Pieces /\ Lo[PieceOf(t, Wrap, TRUE)] = t /\ Hi[PieceOf(t, Wrap, TRUE)] = Wrap
      <3>1. t < v /\ v - t <= WordBytes
        BY <1>5, <1>8, <2>2
      <3>2. PICK b \in BOOLEAN : b = TRUE
        OBVIOUS
      <3>3. PieceOf(t, Wrap, TRUE) = PieceOf(t, v, b) /\ v \in Nat
        BY <1>5, <3>2
      <3>4. /\ PieceOf(t, v, b) \in Pieces
            /\ Lo[PieceOf(t, v, b)] = t /\ Hi[PieceOf(t, v, b)] = v
        BY <1>8, <3>1, <3>3, PieceFacts
      <3> QED BY <1>5, <3>3, <3>4
    <2>11. moverData' \in Seq(Pieces) /\ Chain(moverData', Lo, Hi, s, v)
      BY <1>5, <1>7, <2>2, <2>5, <2>8, <2>10, ChainAppend, AppendFacts
    <2>12. /\ WriterType' /\ writer'.byte_offset = off /\ writer'.prev = Bytes(t, r - t)
           /\ writer'.state = IF l THEN "FWD_EXTRA" ELSE "FWD_BREAKDOWN_1"
      BY <1>3, <1>5, <1>12, <2>5 DEF WriterType
    <2>13. Mover(E, v, c, s, k)'
      BY <1>1, <1>2, <1>5, <1>11, <2>9, <2>11, <2>12 DEF Mover
    <2>14. Writer(E, r, v, c)'
      <3>1. CASE l
        <4>1. off # 0 /\ Wrap - off = t
          BY <1>7, <1>8, <2>1, <2>2, <3>1
        <4>2. PICK m \in 1 .. W - off : m = r - Wrap
          BY <1>5, <1>7, <1>8, <1>9, <2>2, <4>1
        <4>3. off + m = r - t /\ Wrap + m = c /\ r = c
          <5>1. r = c
            BY <1>10, <3>1
          <5>2. off = v - t /\ m = r - v
            BY <1>5, <1>8, <4>1, <4>2
          <5> QED BY <1>5, <1>8, <1>9, <5>1, <5>2
        <4>4. Extra(r, v, c)'
          BY <1>5, <1>8, <1>11, <2>12, <3>1, <4>1, <4>2, <4>3 DEF Extra
        <4> QED BY <1>5, <1>7, <1>11, <2>12, <4>4 DEF Writer
      <3>2. CASE ~l
        <4>1. a <= r /\ r < c /\ r - t = W
          BY <1>4, <1>5, <1>8, <1>9, <1>10, <3>2
        <4>2. off = 0 => Wrap = r
          BY <2>2
        <4>3. off # 0 => Wrap = r - (W - off) /\ r - W = t
          BY <1>7, <1>8, <2>1, <4>1
        <4>4. Breakdown1(E, r, v, c)'
          BY <1>4, <1>5, <1>8, <1>11, <2>12, <3>2, <4>1, <4>2, <4>3 DEF Breakdown1
        <4> QED BY <1>5, <1>7, <1>11, <2>12, <4>4 DEF Writer
      <3> QED BY <3>1, <3>2
    <2>15. WInv(E, x, r, v, c, s, k, g, e, z)'
      BY <1>9, <2>13, <2>14 DEF WInv
    <2> QED BY <2>15
  <1> QED BY <1>13, <1>14
(* ... and of the second part, realigned ...                               *)
LEMMA WForwardSecond ==
    ASSUME MemoryConstants, NEW E, NEW x, NEW t, NEW o, NEW c, NEW s, NEW k, NEW g, NEW e, NEW z,
           WInv(E, x, t, o, c, s, k, g, e, z), ForwardSecond, WriterFrame
    PROVE  \E t2, o2, c2 : WInv(E, x, t2, o2, c2, s, k, g, e, z)'
  <1>1. Writer(E, t, o, c) /\ Mover(E, o, c, s, k) /\ ChosenOK /\ Cuts(E) /\ Below(E)
    BY BufferBelow DEF WInv
  <1>2. /\ writer.state = "FWD_BREAKDOWN_1" /\ TakeWord
        /\ UNCHANGED <<chosen, written, memory, moverCmds>>
    BY DEF ForwardSecond, WriterFrame
  <1>3. Breakdown1(E, t, o, c) /\ WriterType /\ o \in Nat
    BY <1>1, <1>2 DEF Writer, NoBreakdown, Breakdown0, Extra
  <1>4. PICK a \in Nat : Segment(E, a, c) /\ a <= t /\ t < c
    BY <1>3 DEF Breakdown1
  <1>5. PICK W \in Nat \ {0}, off \in Nat : W = WordBytes /\ off = writer.byte_offset /\ off < W /\ off \in Lanes
    BY <1>3, ConstantFacts DEF WriterType, Lanes
  <1>6. /\ off = 0 => o = t
        /\ off # 0 => o = t - (W - off) /\ t - W \in Nat /\ writer.prev = Bytes(t - W, W)
    BY <1>3, <1>5 DEF Breakdown1
  <1>8. t \in Nat /\ c \in Nat
    BY <1>2, <1>4, TakeFacts
  <1>9. PICK r \in Nat :
                 LET w == Head(toMemory) IN
                 /\ t < r /\ r <= c /\ r - t <= WordBytes /\ (r = c \/ r - t = WordBytes)
                 /\ w.last \in BOOLEAN /\ (w.last <=> r = c)
                 /\ w = PieceOf(t, r, w.last) /\ w.data = Bytes(t, r - t)
                 /\ Cuts(E)' /\ Queues(E, x, r, c)' /\ Gate(E, k, g, e, z)' /\ ChosenOK'
    BY <1>2, <1>4, TakeFacts
  <1>10. PICK l \in BOOLEAN, n \in 1 .. WordBytes :
             l = Head(toMemory).last /\ (l <=> r = c) /\ n = r - t /\ Head(toMemory).data = Bytes(t, n)
    BY <1>5, <1>8, <1>9
  <1>11. Beyond(Bytes(t, n), off) <=> off < n
    BY <1>5, <1>8, BytesFacts
  <1>12. PICK more \in BOOLEAN : more <=> (l /\ off < n /\ off # 0)
    OBVIOUS
  <1>13. PICK o2 \in Nat : o2 = IF off # 0 /\ off < n THEN o + W ELSE r
    BY <1>3
  <1>14. (off # 0 /\ ~(off < n) => r = c /\ l)
    BY <1>5, <1>8, <1>9, <1>10
  <1>15. o < o2 /\ o2 - o <= WordBytes
    BY <1>3, <1>5, <1>6, <1>8, <1>10, <1>13
  <1>16. align_words_to_memory(Bytes(t, n), writer.prev, off) = Bytes(o, o2 - o)
    <2>1. CASE off = 0
      <3>1. align_words_to_memory(Bytes(t, n), writer.prev, off) = Bytes(t, n)
        BY <2>1 DEF align_words_to_memory
      <3>2. o = t /\ o2 - o = n
        BY <1>6, <1>8, <1>9, <1>10, <1>13, <2>1
      <3> QED BY <3>1, <3>2
    <2>2. CASE off # 0
      <3>1. PICK p \in Nat : p = t - W /\ writer.prev = Bytes(p, WordBytes) /\ p + WordBytes = t /\ p + off = o
        BY <1>5, <1>6, <1>8, <2>2
      <3>2. off \in 1 .. WordBytes - 1
        BY <1>5, <2>2
      <3>3. align_words_to_memory(Bytes(p + WordBytes, n), Bytes(p, WordBytes), off)
              = Bytes(p + off, IF n > off THEN WordBytes ELSE WordBytes - off + n)
        BY <3>2, AlignFacts
      <3>4. (IF n > off THEN WordBytes ELSE WordBytes - off + n) = o2 - o
        BY <1>5, <1>6, <1>8, <1>10, <1>13, <2>2
      <3> QED BY <3>1, <3>3, <3>4
    <2> QED BY <2>1, <2>2
  <1>17. Bytes(t, n) \in Data
    BY <1>8, BytesData
  <1>18. /\ \E m \in BOOLEAN : moverData' = Append(moverData, PieceOf(o, o2, m))
         /\ writer' = [writer EXCEPT !.prev = Bytes(t, n),
                                     !.state = IF more THEN "FWD_EXTRA" ELSE IF l THEN "WAIT_CMD" ELSE @]
    <2>1. (Head(toMemory).last /\ Beyond(Head(toMemory).data, writer.byte_offset) /\ writer.byte_offset # 0) <=> more
      BY <1>5, <1>10, <1>11, <1>12
    <2>2. PICK m \in BOOLEAN : m = (Head(toMemory).last
             /\ ~(Head(toMemory).last /\ Beyond(Head(toMemory).data, writer.byte_offset) /\ writer.byte_offset # 0))
      BY <1>10
    <2>3. moverData' = Append(moverData, PieceOf(o, o2, m))
      BY <1>5, <1>10, <1>16, <2>2 DEF ForwardSecond, PieceOf
    <2>4. writer' = [writer EXCEPT !.prev = Bytes(t, n),
                                   !.state = IF more THEN "FWD_EXTRA" ELSE IF l THEN "WAIT_CMD" ELSE @]
      BY <1>10, <2>1 DEF ForwardSecond
    <2> QED BY <2>3, <2>4
  <1>19. /\ WriterType' /\ writer'.byte_offset = off /\ writer'.prev = Bytes(t, n)
         /\ writer'.state = IF more THEN "FWD_EXTRA" ELSE IF l THEN "WAIT_CMD" ELSE "FWD_BREAKDOWN_1"
    BY <1>2, <1>3, <1>5, <1>17, <1>18 DEF WriterType
  <1>20. Mover(E, o2, c, s, k)'
    <2>1. PICK m \in BOOLEAN : moverData' = Append(moverData, PieceOf(o, o2, m))
      BY <1>18
    <2>2. writer.state # "FWD_BREAKDOWN_0" /\ writer'.state # "FWD_BREAKDOWN_0"
      BY <1>2, <1>19
    <2> QED BY <1>1, <1>2, <1>3, <1>15, <2>1, <2>2, MoverGets
  <1>21. Writer(E, r, o2, c)'
    <2>1. CASE more
      <3>1. PICK m \in 1 .. W - off : m = n - off
        BY <1>5, <1>10, <1>12, <2>1
      <3>2. o2 - off = t /\ off + m = n /\ o2 + m = c /\ r = c /\ off # 0
        BY <1>5, <1>6, <1>8, <1>9, <1>10, <1>12, <1>13, <2>1, <3>1
      <3>3. Extra(r, o2, c)'
        BY <1>5, <1>8, <1>19, <2>1, <3>1, <3>2 DEF Extra
      <3> QED BY <1>19, <3>3 DEF Writer
    <2>2. CASE ~more /\ l
      <3>1. o2 = r /\ r = c
        BY <1>10, <1>12, <1>13, <2>2
      <3> QED BY <1>19, <2>2, <3>1 DEF Writer
    <2>3. CASE ~l
      <3>1. ~more /\ n = W /\ r < c /\ a <= r
        BY <1>4, <1>5, <1>8, <1>9, <1>10, <1>12, <2>3
      <3>2. off = 0 => o2 = r
        BY <1>13
      <3>3. off # 0 => o2 = r - (W - off) /\ r - W = t
        BY <1>5, <1>6, <1>8, <1>10, <1>13, <3>1
      <3>4. Breakdown1(E, r, o2, c)'
        BY <1>4, <1>5, <1>8, <1>19, <2>3, <3>1, <3>2, <3>3 DEF Breakdown1
      <3> QED BY <1>19, <3>4 DEF Writer
    <2> QED BY <2>1, <2>2, <2>3
  <1>22. WInv(E, x, r, o2, c, s, k, g, e, z)'
    BY <1>9, <1>20, <1>21 DEF WInv
  <1> QED BY <1>22

(* ... with one more if the shift makes it longer.                         *)
LEMMA WForwardExtra ==
    ASSUME MemoryConstants, NEW E, NEW x, NEW t, NEW o, NEW c, NEW s, NEW k, NEW g, NEW e, NEW z,
           WInv(E, x, t, o, c, s, k, g, e, z), ForwardExtra, WriterFrame
    PROVE  \E t2, o2, c2 : WInv(E, x, t2, o2, c2, s, k, g, e, z)'
  <1>1. Writer(E, t, o, c) /\ Mover(E, o, c, s, k) /\ ChosenOK /\ Cuts(E) /\ Queues(E, x, t, c) /\ Gate(E, k, g, e, z)
    BY DEF WInv
  <1>2. /\ writer.state = "FWD_EXTRA"
        /\ UNCHANGED <<chosen, accepted, announced, cache, gate, toMemory, writeCmds, double, statuses,
                       written, memory, input, moverCmds>>
        /\ moverData' = Append(moverData,
                      [data |-> align_words_to_memory(Empty, writer.prev, writer.byte_offset), last |-> TRUE])
        /\ writer' = [writer EXCEPT !.state = "WAIT_CMD"]
    BY DEF ForwardExtra, WriterFrame, gating
  <1>3. Extra(t, o, c) /\ WriterType /\ o \in Nat
    BY <1>1, <1>2 DEF Writer, NoBreakdown, Breakdown0, Breakdown1
  <1>4. PICK off \in 1 .. WordBytes - 1, p \in Nat, m \in 1 .. WordBytes :
             /\ off = writer.byte_offset /\ p = o - off /\ p + off = o /\ off + m <= WordBytes
             /\ writer.prev = Bytes(p, off + m) /\ o + m = c /\ t = c
    <2>1. PICK off \in Lanes : off = writer.byte_offset /\ off # 0 /\ o - off \in Nat /\ t = c
      BY <1>3 DEF Extra, WriterType
    <2>2. PICK m \in 1 .. WordBytes - off : writer.prev = Bytes(o - off, off + m) /\ o + m = c
      BY <1>3, <2>1 DEF Extra
    <2>3. off \in 1 .. WordBytes - 1 /\ m \in 1 .. WordBytes /\ off + m <= WordBytes /\ (o - off) + off = o
      BY <1>3, <2>1, <2>2, ConstantFacts DEF Lanes
    <2> QED BY <2>1, <2>2, <2>3
  <1>5. PICK o2 \in Nat : o2 = o + m /\ o2 - o = m /\ o < o2 /\ o2 - o <= WordBytes /\ o2 = c
    BY <1>3, <1>4, ConstantFacts
  <1>6. align_words_to_memory(Empty, writer.prev, writer.byte_offset) = Bytes(o, o2 - o)
    BY <1>4, <1>5, AlignFacts
  <1>7. moverData' = Append(moverData, PieceOf(o, o2, TRUE))
    BY <1>2, <1>6 DEF PieceOf
  <1>8. WriterType' /\ writer'.state = "WAIT_CMD"
    BY <1>2, <1>3 DEF WriterType
  <1>9. Writer(E, t, o2, c)'
    BY <1>4, <1>5, <1>8 DEF Writer
  <1>10. Mover(E, o2, c, s, k)'
    <2>1. writer.state # "FWD_BREAKDOWN_0" /\ writer'.state # "FWD_BREAKDOWN_0"
      BY <1>2, <1>8
    <2>2. TRUE \in BOOLEAN
      OBVIOUS
    <2> QED BY <1>1, <1>2, <1>3, <1>5, <1>7, <2>1, <2>2, MoverGets
  <1>11. Cuts(E)' /\ Queues(E, x, t, c)' /\ Gate(E, k, g, e, z)' /\ ChosenOK'
    BY <1>1, <1>2, CutsSame, QueuesSame, GateSame, Frozen
  <1>12. WInv(E, x, t, o2, c, s, k, g, e, z)'
    BY <1>9, <1>10, <1>11 DEF WInv
  <1> QED BY <1>12
(* The Data Mover writes what a command asks for, where it asks for it.    *)
LEMMA WMoverWrite ==
    ASSUME MemoryConstants, NEW E, NEW x, NEW t, NEW o, NEW c, NEW s, NEW k, NEW g, NEW e, NEW z,
           WInv(E, x, t, o, c, s, k, g, e, z), MoverWrite
    PROVE  \E s2, k2, z2 : WInv(E, x, t, o, c, s2, k2, g, e, z2)'
  <1>1. Writer(E, t, o, c) /\ Mover(E, o, c, s, k) /\ ChosenOK /\ Cuts(E) /\ Queues(E, x, t, c)
        /\ Gate(E, k, g, e, z) /\ Below(E)
    BY BufferBelow DEF WInv
  <1>2. UNCHANGED <<chosen, announced, cache, gate, accepted, input, toMemory, writeCmds, writer, double>>
    BY DEF MoverWrite, gating
  <1>3. /\ moverCmds \in Seq(Parts(E)) /\ moverCmds # <<>>
        /\ moverData \in Seq(Pieces) /\ moverData # <<>> /\ Chain(moverData, Lo, Hi, s, o)
        /\ written \in Nat /\ s = k + written
        /\ memory \in [Buffers -> Int \cup {NoByte}]
        /\ \A n \in 0 .. s - 1 : memory[Address(n)] = n
    BY <1>1 DEF Mover, MoverWrite
  <1>4. PICK h : h = (IF writer.state = "FWD_BREAKDOWN_0" THEN Wrap ELSE c) /\ Chain(moverCmds, From, To, k, h)
    BY <1>1 DEF Mover
  <1>5. PICK cmd \in Parts(E), w \in Pieces : cmd = Head(moverCmds) /\ w = Head(moverData)
    BY <1>3, TailFacts
  <1>6. PICK b \in Nat : /\ b = To[cmd] /\ From[cmd] = k /\ k < b /\ b < BufferSize /\ k \in Nat
                         /\ ~Crosses(k, b) /\ cmd = Part(k, b)
                         /\ Chain(Tail(moverCmds), From, To, b, h) /\ Tail(moverCmds) \in Seq(Parts(E))
    BY <1>1, <1>3, <1>4, <1>5, ChainFacts, ChainTail, TailFacts, PartIs
  <1>7. PICK r \in Nat : /\ r = Hi[w] /\ Lo[w] = s /\ s < r /\ r - s <= WordBytes /\ s \in Nat
                         /\ Chain(Tail(moverData), Lo, Hi, r, o) /\ Tail(moverData) \in Seq(Pieces)
    BY <1>3, <1>5, ChainFacts, ChainTail, TailFacts, PieceIs
  <1>8. PICK n \in 1 .. WordBytes : n = r - s /\ keep2len(w.data) = n /\ w.data = Bytes(s, n)
    <2>1. PICK n \in 1 .. WordBytes : n = r - s
      BY <1>7, ConstantFacts
    <2>2. w = PieceOf(s, r, w.last) /\ w.last \in BOOLEAN
      BY <1>7, PieceIs
    <2>3. w.data = Bytes(s, r - s)
      BY <2>2 DEF PieceOf
    <2>4. keep2len(Bytes(s, n)) = n
      BY <1>7, BytesFacts
    <2> QED BY <2>1, <2>3, <2>4
  <1>9. cmd.saddr = Address(k) /\ cmd.bbt = b - k
    <2>1. k < BufferSize
      BY <1>6, ConstantFacts
    <2>2. ChosenOK /\ k \in Nat /\ b \in Nat
      BY <1>1, <1>6
    <2>3. Part(k, b).saddr = Address(k) /\ Part(k, b).bbt = b - k
      BY <2>1, <2>2, PartFacts
    <2> QED BY <1>6, <2>3
  <1>10. PICK f \in Nat : f = written
    BY <1>3
  <1>11. /\ r <= b /\ (f + n = b - k <=> r = b) /\ s = k + f /\ f + n \in Nat
    <2>1. f + n <= b - k
      BY <1>5, <1>8, <1>9, <1>10 DEF MoverWrite
    <2>2. s = k + f
      BY <1>3, <1>10
    <2>3. /\ k \in Nat /\ b \in Nat /\ s \in Nat /\ r \in Nat /\ f \in Nat /\ n \in Nat \ {0}
          /\ r = s + n
      BY <1>6, <1>7, <1>8, <1>10, ConstantFacts
    <2> QED BY <2>1, <2>2, <2>3
  <1>20. /\ k \in Nat /\ b \in Nat /\ s \in Nat /\ r \in Nat /\ f \in Nat /\ n \in Nat \ {0}
         /\ r = s + n /\ r <= b /\ s = k + f /\ b < BufferSize /\ BufferSize \in Nat
         /\ WordBytes \in Nat /\ n <= WordBytes
    <2>1. WordBytes \in Nat /\ BufferSize \in Nat
      BY ConstantFacts
    <2>2. n \in Nat \ {0} /\ n <= WordBytes /\ n = r - s
      BY <1>8, <2>1
    <2>3. k \in Nat /\ b \in Nat /\ s \in Nat /\ r \in Nat /\ f \in Nat /\ b < BufferSize
      BY <1>6, <1>7, <1>10
    <2>4. r = s + n
      BY <2>2, <2>3
    <2> QED BY <1>11, <2>1, <2>2, <2>3, <2>4
  <1>12. /\ memory' = [a \in Buffers |-> IF a - (Address(k) + f) \in 0 .. n - 1
                                           THEN w.data[a - (Address(k) + f)] ELSE memory[a]]
         /\ moverData' = Tail(moverData)
         /\ moverCmds' = IF r = b THEN Tail(moverCmds) ELSE moverCmds
         /\ written' = IF r = b THEN 0 ELSE f + n
         /\ statuses' = IF r = b THEN Append(statuses, "okay") ELSE statuses
    <2>1. f + n = b - k <=> r = b
      BY <1>11
    <2>2. moverData' = Tail(moverData)
      BY DEF MoverWrite
    <2>3. memory' = [a \in Buffers |-> IF a - (Address(k) + f) \in 0 .. n - 1
                                           THEN w.data[a - (Address(k) + f)] ELSE memory[a]]
      BY <1>5, <1>8, <1>9, <1>10 DEF MoverWrite
    <2>4. /\ moverCmds' = IF f + n = b - k THEN Tail(moverCmds) ELSE moverCmds
          /\ written' = IF f + n = b - k THEN 0 ELSE f + n
          /\ statuses' = IF f + n = b - k THEN Append(statuses, "okay") ELSE statuses
      BY <1>5, <1>8, <1>9, <1>10 DEF MoverWrite
    <2> QED BY <2>1, <2>2, <2>3, <2>4
  <1>13. ASSUME NEW l \in 0 .. n - 1
         PROVE  Address(s + l) = Address(k) + f + l /\ s + l \in 0 .. BufferSize - 1
    <2>1. PICK m \in 0 .. BufferSize - 1 : m = s + l /\ k <= m /\ m < b
      BY <1>20
    <2>2. k \in 0 .. BufferSize - 1
      BY <1>6, ConstantFacts
    <2>3. ~(k < Wrap /\ Wrap <= m)
      BY <1>1, <1>6, <2>1, ChosenFacts DEF Crosses
    <2>4. Address(m) = Address(k) + (m - k)
      BY <1>1, <2>1, <2>2, <2>3, AddressRuns
    <2>5. Address(k) \in Int
      BY <1>1, <2>2, AddressIs, ChosenFacts
    <2> QED BY <1>6, <1>11, <2>1, <2>4, <2>5
  <1>14. memory' \in [Buffers -> Int \cup {NoByte}]
    <2>1. \A j \in 0 .. n - 1 : w.data[j] \in Int \cup {NoByte}
      BY <1>7, <1>8, ConstantFacts DEF Bytes, Lanes
    <2> QED BY <1>3, <1>12, <2>1
  <1>15. ASSUME NEW m \in 0 .. r - 1 PROVE memory'[Address(m)] = m
    <2>1. m \in 0 .. BufferSize - 1 /\ m \in Nat
      BY <1>20
    <2>2. Address(m) \in Buffers /\ Address(m) \in Int /\ Address(k) \in Int
      <3>1. k \in 0 .. BufferSize - 1
        BY <1>6, ConstantFacts
      <3> QED BY <1>1, <2>1, <3>1, AddressIs, ChosenFacts
    <2>3. CASE m < s
      <3>1. ASSUME NEW l \in 0 .. n - 1 PROVE Address(m) - (Address(k) + f) # l
        <4>1. SUFFICES ASSUME Address(m) - (Address(k) + f) = l PROVE FALSE
          OBVIOUS
        <4>2. Address(m) = Address(s + l) /\ s + l \in 0 .. BufferSize - 1
          BY <1>10, <1>13, <2>2, <4>1
        <4>3. m = s + l
          BY <1>1, <2>1, <4>2, AddressInjective
        <4> QED BY <1>7, <2>3, <4>3
      <3>2. memory'[Address(m)] = memory[Address(m)]
        BY <1>12, <2>2, <3>1
      <3> QED BY <1>3, <1>7, <2>1, <2>3, <3>2
    <2>4. CASE ~(m < s)
      <3>1. PICK l \in 0 .. n - 1 : l = m - s /\ m = s + l
        BY <1>7, <1>8, <2>4
      <3>2. Address(m) - (Address(k) + f) = l
        BY <1>10, <1>13, <2>2, <3>1
      <3>3. memory'[Address(m)] = w.data[l]
        BY <1>12, <2>2, <3>1, <3>2
      <3>4. Bytes(s, n)[l] = s + l
        BY <1>20, <3>1 DEF Bytes, Lanes
      <3> QED BY <1>8, <3>1, <3>3, <3>4
    <2> QED BY <2>3, <2>4
  <1>16. /\ Wrap' = Wrap /\ From' = From /\ To' = To /\ Parts(E)' = Parts(E) /\ (\A u : Address(u)' = Address(u))
         /\ SegCmds(E)' = SegCmds(E)
    BY <1>2, Frozen
  <1>17. Cuts(E)' /\ Queues(E, x, t, c)' /\ Writer(E, t, o, c)' /\ ChosenOK'
    BY <1>1, <1>2, CutsSame, QueuesSame, WriterSame, Frozen
  <1>18. CASE r = b
    <2>1. Mover(E, o, c, r, r)'
      <3>1. /\ moverCmds' \in Seq(Parts(E)) /\ Chain(moverCmds', From, To, r, h)
            /\ moverData' \in Seq(Pieces) /\ Chain(moverData', Lo, Hi, r, o)
            /\ written' = 0 /\ r = r + 0
        BY <1>6, <1>7, <1>12, <1>18
      <3> QED BY <1>2, <1>4, <1>14, <1>15, <1>16, <3>1 DEF Mover
    <2>2. /\ z \in Seq(Parts(E)) /\ Chain(z, From, To, g, k)
          /\ statuses \in Seq({"okay"}) /\ Len(statuses) = Len(z)
      BY <1>1 DEF Gate
    <2>3. PICK z2 : z2 = Append(z, cmd)
      OBVIOUS
    <2>4. z2 \in Seq(Parts(E)) /\ Chain(z2, From, To, g, r) /\ Len(z2) = Len(z) + 1
      <3>1. From[cmd] = k /\ To[cmd] = r /\ k < r
        BY <1>6, <1>18
      <3> QED BY <2>2, <2>3, <3>1, ChainAppend, AppendFacts
    <2>5. statuses' \in Seq({"okay"}) /\ Len(statuses') = Len(z2)
      BY <1>12, <1>18, <2>2, <2>4, AppendFacts
    <2>6. Delayed' /\ GateType' /\ GateAt(E, g, e)' /\ cache \in Seq(SegCmds(E)) /\ Chain(cache, From, To, e, accepted)
      <3>1. Delayed' <=> Delayed
        BY <1>2, <1>16 DEF Delayed, Crosses, chosen
      <3>2. GateAt(E, g, e)'
        <4>1. (\A u, v : Part(u, v)' = Part(u, v)) /\ (\A u, v : Crosses(u, v)' <=> Crosses(u, v)) /\ side' = side
          BY <1>2, Frozen DEF chosen
        <4> QED BY <1>1, <1>2, <1>16, <4>1 DEF Gate, GateAt
      <3> QED BY <1>1, <1>2, <3>1, <3>2 DEF Gate, GateType
    <2>7. Gate(E, r, g, e, z2)'
      BY <1>2, <1>16, <2>4, <2>5, <2>6 DEF Gate
    <2>8. WInv(E, x, t, o, c, r, r, g, e, z2)'
      BY <1>17, <2>1, <2>7 DEF WInv
    <2> QED BY <2>8
  <1>19. CASE r # b
    <2>1. Mover(E, o, c, r, k)'
      <3>1. /\ moverCmds' = moverCmds
            /\ moverData' \in Seq(Pieces) /\ Chain(moverData', Lo, Hi, r, o)
            /\ written' \in Nat /\ r = k + written'
        <4>1. f + n \in Nat /\ r = k + (f + n)
          BY <1>20
        <4> QED BY <1>7, <1>12, <1>19, <4>1
      <3> QED BY <1>2, <1>3, <1>4, <1>14, <1>15, <1>16, <3>1 DEF Mover
    <2>2. Gate(E, k, g, e, z)'
      BY <1>1, <1>2, <1>12, <1>19, GateSame
    <2>8. WInv(E, x, t, o, c, r, k, g, e, z)'
      BY <1>17, <2>1, <2>2 DEF WInv
    <2> QED BY <2>8
  <1> QED BY <1>18, <1>19
(* What the next completed command is that a segment waits for.            *)
LEMMA StatusFacts ==
    ASSUME MemoryConstants, ChosenOK, NEW E, Below(E), Wrap \notin E, NEW q \in Parts(E),
           NEW d, NEW r, Segment(E, d, r)
    PROVE  /\ From[q] = d => To[q] = IF Crosses(d, r) THEN Wrap ELSE r
           /\ (From[q] = Wrap /\ Crosses(d, r)) => To[q] = r
  <1>1. /\ From[q] \in Nat /\ To[q] \in Nat /\ From[q] < To[q] /\ To[q] \in E \cup {Wrap}
        /\ ~Crosses(From[q], To[q]) /\ NoCut(E, From[q], To[q])
    BY PartIs
  <1>2. d \in E /\ r \in E /\ d < r /\ NoCut(E, d, r) /\ d \in Nat /\ r \in Nat /\ Wrap \in Nat
    BY ChosenFacts, ConstantFacts DEF Segment, Below
  <1>3. PICK b \in Nat : b = To[q]
    BY <1>1
  <1>4. ASSUME From[q] = d PROVE b = IF Crosses(d, r) THEN Wrap ELSE r
    <2>1. b \in E => b = r
      BY <1>1, <1>2, <1>3, <1>4 DEF NoCut
    <2>2. b = Wrap => Crosses(d, r)
      BY <1>1, <1>2, <1>3, <1>4 DEF NoCut, Crosses
    <2>3. b = r => ~Crosses(d, r)
      BY <1>1, <1>2, <1>3, <1>4
    <2> QED BY <1>1, <1>3, <2>1, <2>2, <2>3
  <1>5. ASSUME From[q] = Wrap, Crosses(d, r) PROVE b = r
    <2>1. b \in E
      BY <1>1, <1>3, <1>5
    <2>2. Wrap < b /\ Wrap < r /\ d < Wrap /\ NoCut(E, Wrap, b)
      BY <1>1, <1>3, <1>5 DEF Crosses
    <2> QED BY <1>2, <2>1, <2>2 DEF NoCut
  <1> QED BY <1>3, <1>4, <1>5

(* The rest of the gate's state as a status is taken.                      *)
LEMMA GateRest ==
    ASSUME MemoryConstants, NEW E, NEW x, NEW t, NEW o, NEW c, NEW s, NEW k, NEW g, NEW e, NEW z,
           WInv(E, x, t, o, c, s, k, g, e, z), GateFrame
    PROVE  /\ Queues(E, x, t, c)' /\ Writer(E, t, o, c)' /\ Mover(E, o, c, s, k)' /\ ChosenOK'
           /\ Wrap' = Wrap /\ From' = From /\ To' = To /\ Parts(E)' = Parts(E) /\ SegCmds(E)' = SegCmds(E)
           /\ (\A u, v : Part(u, v)' = Part(u, v)) /\ (\A u, v : Crosses(u, v)' <=> Crosses(u, v))
           /\ side' = side /\ accepted' = accepted
           /\ (\A d \in E : announced' = d => Cuts(E)')
  <1>1. ChosenOK /\ Cuts(E) /\ Queues(E, x, t, c) /\ Writer(E, t, o, c) /\ Mover(E, o, c, s, k)
    BY DEF WInv
  <1>2. UNCHANGED <<chosen, accepted, input, toMemory, writeCmds, writer, moverCmds, moverData, written, memory>>
    BY DEF GateFrame
  <1>3. Queues(E, x, t, c)' /\ Writer(E, t, o, c)' /\ Mover(E, o, c, s, k)' /\ ChosenOK'
    BY <1>1, <1>2, QueuesSame, WriterSame, MoverSame, Frozen
  <1>4. /\ Wrap' = Wrap /\ From' = From /\ To' = To /\ Parts(E)' = Parts(E) /\ SegCmds(E)' = SegCmds(E)
        /\ (\A u, v : Part(u, v)' = Part(u, v)) /\ (\A u, v : Crosses(u, v)' <=> Crosses(u, v)) /\ side' = side
    BY <1>2, Frozen DEF chosen
  <1>5. ASSUME NEW d \in E, announced' = d PROVE Cuts(E)'
    BY <1>1, <1>2, <1>4, <1>5 DEF Cuts
  <1> QED BY <1>2, <1>3, <1>4, <1>5

(* A status is taken: the command it belongs to.                           *)
LEMMA TakeStatusFacts ==
    ASSUME MemoryConstants, ChosenOK, NEW E, Below(E), NEW k, NEW g, NEW e, NEW z, Gate(E, k, g, e, z), TakeStatus
    PROVE  /\ Head(z) \in Parts(E) /\ From[Head(z)] = g /\ g \in Nat /\ g < k
           /\ Tail(z) \in Seq(Parts(E)) /\ Chain(Tail(z), From, To, To[Head(z)], k)
           /\ statuses' \in Seq({"okay"}) /\ Len(statuses') = Len(Tail(z))
  <1>1. /\ z \in Seq(Parts(E)) /\ Chain(z, From, To, g, k)
        /\ statuses \in Seq({"okay"}) /\ Len(statuses) = Len(z)
        /\ statuses # <<>> /\ statuses' = Tail(statuses)
    BY DEF Gate, TakeStatus
  <1>2. z # <<>>
    <2>1. Len(statuses) # 0
      BY <1>1, EmptySeq
    <2> QED BY <1>1, <2>1
  <1>3. Head(z) \in Parts(E) /\ Tail(z) \in Seq(Parts(E)) /\ Len(Tail(z)) = Len(z) - 1
    BY <1>1, <1>2, TailFacts
  <1>4. statuses' \in Seq({"okay"}) /\ Len(statuses') = Len(statuses) - 1
    BY <1>1, TailFacts
  <1>5. From[Head(z)] = g /\ g \in Nat /\ g < k /\ Chain(Tail(z), From, To, To[Head(z)], k)
    BY <1>1, <1>2, ChainFacts, ChainTail
  <1> QED BY <1>1, <1>3, <1>4, <1>5

(* txAppStatusHandler takes a segment or a status.                         *)
LEMMA WGateTx ==
    ASSUME MemoryConstants, NEW E, NEW x, NEW t, NEW o, NEW c, NEW s, NEW k, NEW g, NEW e, NEW z,
           WInv(E, x, t, o, c, s, k, g, e, z), txAppStatusHandler
    PROVE  \E g2, e2, z2 : WInv(E, x, t, o, c, s, k, g2, e2, z2)' /\ announced' \in E /\ announced <= announced'
  <1>1. ChosenOK /\ Cuts(E) /\ Gate(E, k, g, e, z) /\ Below(E)
    BY BufferBelow DEF WInv
  <1>2. GateFrame /\ UNCHANGED double /\ side = "tx"
    BY DEF txAppStatusHandler
  <1>3. PICK d \in E : d = announced /\ d \in Nat
    BY <1>1 DEF Cuts
  <1>4. /\ Queues(E, x, t, c)' /\ Writer(E, t, o, c)' /\ Mover(E, o, c, s, k)' /\ ChosenOK'
        /\ Wrap' = Wrap /\ From' = From /\ To' = To /\ Parts(E)' = Parts(E) /\ SegCmds(E)' = SegCmds(E)
        /\ (\A u, v : Part(u, v)' = Part(u, v)) /\ (\A u, v : Crosses(u, v)' <=> Crosses(u, v))
        /\ side' = side /\ accepted' = accepted
        /\ (\A u \in E : announced' = u => Cuts(E)')
    BY <1>2, GateRest
  <1>5. Delayed'
    BY <1>2, <1>4 DEF Delayed
  <1>6. /\ cache \in Seq(SegCmds(E)) /\ Chain(cache, From, To, e, accepted) /\ GateType /\ GateAt(E, g, e)
        /\ z \in Seq(Parts(E)) /\ Chain(z, From, To, g, k)
        /\ statuses \in Seq({"okay"}) /\ Len(statuses) = Len(z) /\ Wrap \notin E
    BY <1>1 DEF Gate, Cuts
  <1>7. CASE /\ gate.state = "READ_EV" /\ cache # <<>>
             /\ gate' = [state |-> "READ_STATUS_1", event |-> Head(cache)]
             /\ cache' = Tail(cache)
             /\ UNCHANGED <<statuses, announced>>
    <2>1. g = d /\ e = d
      BY <1>3, <1>6, <1>7 DEF GateAt
    <2>2. /\ Head(cache) \in SegCmds(E) /\ From[Head(cache)] = d
          /\ cache' \in Seq(SegCmds(E)) /\ Chain(cache', From, To, To[Head(cache)], accepted)
      BY <1>6, <1>7, <2>1, ChainFacts, ChainTail, TailFacts
    <2>3. PICK r : r = To[Head(cache)] /\ Segment(E, d, r) /\ Head(cache) = Part(d, r) /\ Head(cache) \in Cmds
      BY <1>1, <2>2, SegCmdIs
    <2>4. GateType' /\ GateAt(E, d, r)'
      BY <1>2, <1>3, <1>4, <1>7, <2>3 DEF GateType, GateAt
    <2>5. Gate(E, k, d, r, z)'
      BY <1>4, <1>5, <1>6, <1>7, <2>1, <2>2, <2>3, <2>4 DEF Gate
    <2>6. WInv(E, x, t, o, c, s, k, d, r, z)'
      BY <1>3, <1>4, <1>7, <2>5 DEF WInv
    <2> QED BY <1>3, <1>7, <2>6
  <1>8. ASSUME TakeStatus, gate.state # "READ_EV", UNCHANGED cache, NEW v, v = To[Head(z)],
               \/ v = e /\ Announce(gate.event)
               \/ v = Wrap /\ gate' = [gate EXCEPT !.state = "READ_STATUS_2"] /\ UNCHANGED announced
                  /\ gate.state = "READ_STATUS_1" /\ Crosses(d, e)
        PROVE  \E g2, e2, z2 : WInv(E, x, t, o, c, s, k, g2, e2, z2)' /\ announced' \in E /\ announced <= announced'
    <2>1. /\ Segment(E, d, e) /\ gate.event = Part(d, e)
      BY <1>3, <1>6, <1>8 DEF GateAt
    <2>2. d \in Nat /\ e \in Nat /\ e \in E /\ d < BufferSize /\ d < e
      BY <1>1, <1>3, <2>1, ConstantFacts DEF Segment, Below
    <2>3. PICK z2 : z2 = Tail(z)
      OBVIOUS
    <2>4. z2 \in Seq(Parts(E)) /\ Chain(z2, From, To, v, k) /\ statuses' \in Seq({"okay"}) /\ Len(statuses') = Len(z2)
      BY <1>1, <1>8, <2>3, TakeStatusFacts
    <2>5. CASE v = e /\ Announce(gate.event)
      <3>1. announced' = e
        <4>1. Part(d, e).bbt = e - d
          BY <1>1, <2>2, PartFacts
        <4> QED BY <1>3, <2>1, <2>2, <2>5, <4>1 DEF Announce
      <3>2. GateType' /\ GateAt(E, e, e)'
        BY <1>6, <2>5, <3>1 DEF GateType, GateAt, Announce
      <3>3. Gate(E, k, e, e, z2)'
        BY <1>4, <1>5, <1>6, <1>8, <2>4, <2>5, <3>2 DEF Gate
      <3>4. WInv(E, x, t, o, c, s, k, e, e, z2)'
        BY <1>4, <2>2, <3>1, <3>3 DEF WInv
      <3> QED BY <1>3, <2>2, <3>1, <3>4
    <2>6. CASE /\ v = Wrap /\ gate' = [gate EXCEPT !.state = "READ_STATUS_2"] /\ UNCHANGED announced
               /\ gate.state = "READ_STATUS_1" /\ Crosses(d, e)
      <3>1. gate'.state = "READ_STATUS_2" /\ gate'.event = Part(d, e) /\ GateType'
        BY <1>6, <2>1, <2>6 DEF GateType
      <3>2. GateAt(E, v, e)'
        BY <1>3, <1>4, <2>1, <2>6, <3>1 DEF GateAt
      <3>3. Gate(E, k, v, e, z2)'
        BY <1>4, <1>5, <1>6, <1>8, <2>4, <2>6, <3>1, <3>2 DEF Gate
      <3>4. WInv(E, x, t, o, c, s, k, v, e, z2)'
        BY <1>3, <1>4, <2>6, <3>3 DEF WInv
      <3> QED BY <1>3, <2>6, <3>4
    <2> QED BY <1>8, <2>5, <2>6
  <1>9. CASE /\ gate.state = "READ_STATUS_1" /\ TakeStatus
             /\ IF Position(gate.event.saddr) + gate.event.bbt >= BufferSize
                  THEN gate' = [gate EXCEPT !.state = "READ_STATUS_2"] /\ UNCHANGED announced
                  ELSE Announce(gate.event)
             /\ UNCHANGED cache
    <2>1. Segment(E, d, e) /\ gate.event = Part(d, e) /\ g = d
      BY <1>3, <1>6, <1>9 DEF GateAt
    <2>2. d \in Nat /\ e \in Nat /\ e \in E /\ d < BufferSize /\ e < BufferSize /\ d < e /\ e # Wrap
      BY <1>1, <1>3, <1>6, <2>1, ConstantFacts DEF Segment, Below
    <2>3. Part(d, e).saddr = Address(d) /\ Part(d, e).bbt = e - d
      BY <1>1, <2>2, PartFacts
    <2>4. Position(Address(d)) + (e - d) >= BufferSize <=> Crosses(d, e)
      BY <1>1, <2>2, OverflowIs
    <2>5. To[Head(z)] = IF Crosses(d, e) THEN Wrap ELSE e
      <3>1. Head(z) \in Parts(E) /\ From[Head(z)] = d
        BY <1>1, <1>9, <2>1, TakeStatusFacts
      <3> QED BY <1>1, <1>6, <2>1, <3>1, StatusFacts
    <2>6. PICK v : v = To[Head(z)]
      OBVIOUS
    <2>7. \/ v = e /\ Announce(gate.event)
          \/ v = Wrap /\ gate' = [gate EXCEPT !.state = "READ_STATUS_2"] /\ UNCHANGED announced
             /\ gate.state = "READ_STATUS_1" /\ Crosses(d, e)
      BY <1>9, <2>1, <2>3, <2>4, <2>5, <2>6
    <2> QED BY <1>8, <1>9, <2>6, <2>7
  <1>10. CASE gate.state = "READ_STATUS_2" /\ TakeStatus /\ Announce(gate.event) /\ UNCHANGED cache
    <2>1. Segment(E, d, e) /\ g = Wrap /\ Crosses(d, e)
      BY <1>3, <1>6, <1>10 DEF GateAt
    <2>5. To[Head(z)] = e
      <3>1. Head(z) \in Parts(E) /\ From[Head(z)] = Wrap
        BY <1>1, <1>10, <2>1, TakeStatusFacts
      <3> QED BY <1>1, <1>6, <2>1, <3>1, StatusFacts
    <2>6. PICK v : v = To[Head(z)]
      OBVIOUS
    <2> QED BY <1>8, <1>10, <2>5, <2>6
  <1> QED BY <1>7, <1>9, <1>10 DEF txAppStatusHandler
(* rxEngAppNotificationDelayer takes a segment with its first status, or   *)
(* the second.                                                             *)
LEMMA WGateRx ==
    ASSUME MemoryConstants, NEW E, NEW x, NEW t, NEW o, NEW c, NEW s, NEW k, NEW g, NEW e, NEW z,
           WInv(E, x, t, o, c, s, k, g, e, z), rxEngAppNotificationDelayer
    PROVE  \E g2, e2, z2 : WInv(E, x, t, o, c, s, k, g2, e2, z2)' /\ announced' \in E /\ announced <= announced'
  <1>1. ChosenOK /\ Cuts(E) /\ Gate(E, k, g, e, z) /\ Below(E)
    BY BufferBelow DEF WInv
  <1>2. GateFrame /\ side = "rx" /\ TakeStatus
    BY DEF rxEngAppNotificationDelayer
  <1>3. PICK d \in E : d = announced /\ d \in Nat /\ d < BufferSize
    BY <1>1, ConstantFacts DEF Cuts, Below
  <1>4. /\ Queues(E, x, t, c)' /\ Writer(E, t, o, c)' /\ Mover(E, o, c, s, k)' /\ ChosenOK'
        /\ Wrap' = Wrap /\ From' = From /\ To' = To /\ Parts(E)' = Parts(E) /\ SegCmds(E)' = SegCmds(E)
        /\ (\A u, v : Part(u, v)' = Part(u, v)) /\ (\A u, v : Crosses(u, v)' <=> Crosses(u, v))
        /\ side' = side /\ accepted' = accepted
        /\ (\A u \in E : announced' = u => Cuts(E)')
    BY <1>2, GateRest
  <1>5. /\ double \in Seq(BOOLEAN) /\ Len(cache) = Len(double) + Len(writeCmds)
        /\ \A i \in 1 .. Len(double) : double[i] <=> Crosses(From[cache[i]], To[cache[i]])
        /\ \A i \in 1 .. Len(writeCmds) : writeCmds[i] = cache[Len(double) + i]
        /\ writeCmds' = writeCmds /\ Len(writeCmds) \in Nat
    <2>1. writeCmds \in Seq(SegCmds(E))
      BY DEF WInv, Queues
    <2> QED BY <1>1, <1>2, <2>1, LenProperties DEF Gate, Delayed, GateFrame
  <1>6. /\ cache \in Seq(SegCmds(E)) /\ Chain(cache, From, To, e, accepted) /\ GateType /\ GateAt(E, g, e)
        /\ z \in Seq(Parts(E)) /\ Wrap \notin E
    BY <1>1 DEF Gate, Cuts
  <1>7. PICK z2, v : /\ z2 = Tail(z) /\ v = To[Head(z)]
                     /\ z2 \in Seq(Parts(E)) /\ Chain(z2, From, To, v, k)
                     /\ statuses' \in Seq({"okay"}) /\ Len(statuses') = Len(z2)
                     /\ Head(z) \in Parts(E) /\ From[Head(z)] = g
    BY <1>1, <1>2, TakeStatusFacts
  <1>8. CASE /\ gate.state = "READ_EV" /\ cache # <<>> /\ double # <<>>
             /\ cache' = Tail(cache) /\ double' = Tail(double)
             /\ IF Head(double)
                  THEN gate' = [state |-> "READ_STATUS_2", event |-> Head(cache)] /\ UNCHANGED announced
                  ELSE Announce(Head(cache))
    <2>0. cache # <<>> /\ cache' = Tail(cache)
      BY <1>8
    <2>1. g = d /\ e = d
      BY <1>3, <1>6, <1>8 DEF GateAt
    <2>2. /\ Head(cache) \in SegCmds(E) /\ From[Head(cache)] = d
          /\ cache' \in Seq(SegCmds(E)) /\ Chain(cache', From, To, To[Head(cache)], accepted)
      BY <1>6, <2>0, <2>1, ChainFacts, ChainTail, TailFacts
    <2>3. PICK r \in Nat : /\ r = To[Head(cache)] /\ Segment(E, d, r) /\ Head(cache) = Part(d, r) /\ Head(cache) \in Cmds
                           /\ d < r /\ r \in E
      BY <1>1, <2>2, SegCmdIs DEF Segment
    <2>4. PICK m \in Nat, n \in Nat : m = Len(double) /\ n = Len(writeCmds) /\ Len(cache) = m + n /\ m # 0
      BY <1>5, <1>8, LenProperties, EmptySeq
    <2>5. /\ Len(cache') = m + n - 1 /\ \A i \in 1 .. m + n - 1 : cache'[i] = cache[i + 1]
          /\ Head(cache) = cache[1]
      BY <1>6, <2>0, <2>4, TailFacts
    <2>6. /\ Len(double') = m - 1 /\ \A i \in 1 .. m - 1 : double'[i] = double[i + 1]
          /\ double' \in Seq(BOOLEAN) /\ Head(double) = double[1]
      BY <1>5, <1>8, <2>4, TailFacts
    <2>7. Delayed'
      <3>1. ASSUME NEW i \in 1 .. m - 1 PROVE double'[i] <=> (From[cache'[i]] < Wrap /\ Wrap < To[cache'[i]])
        <4>1. i + 1 \in 1 .. m /\ i \in 1 .. m + n - 1
          BY <2>4
        <4>2. cache'[i] = cache[i + 1] /\ double'[i] = double[i + 1]
          BY <2>5, <2>6, <4>1
        <4>3. double[i + 1] <=> Crosses(From[cache[i + 1]], To[cache[i + 1]])
          BY <1>5, <2>4, <4>1
        <4> QED BY <4>2, <4>3 DEF Crosses
      <3>2. ASSUME NEW i \in 1 .. n PROVE writeCmds[i] = cache'[(m - 1) + i]
        <4>1. (m - 1) + i \in 1 .. m + n - 1 /\ ((m - 1) + i) + 1 = m + i
          BY <2>4
        <4> QED BY <1>5, <2>4, <2>5, <4>1
      <3>3. Len(cache') = (m - 1) + n
        BY <2>4, <2>5
      <3> QED BY <1>4, <1>5, <2>4, <2>6, <3>1, <3>2, <3>3 DEF Delayed, Crosses
    <2>8. Head(double) <=> Crosses(d, r)
      <3>1. 1 \in 1 .. m
        BY <2>4
      <3> QED BY <1>5, <2>2, <2>3, <2>4, <2>5, <2>6, <3>1
    <2>9. v = IF Crosses(d, r) THEN Wrap ELSE r
      BY <1>1, <1>6, <1>7, <2>1, <2>3, StatusFacts
    <2>10. CASE Crosses(d, r)
      <3>1. gate' = [state |-> "READ_STATUS_2", event |-> Part(d, r)] /\ announced' = d /\ v = Wrap
        BY <1>3, <1>8, <2>3, <2>8, <2>9, <2>10
      <3>2. GateType' /\ GateAt(E, v, r)'
        BY <1>4, <2>3, <2>10, <3>1 DEF GateType, GateAt
      <3>3. Gate(E, k, v, r, z2)'
        BY <1>4, <1>7, <2>2, <2>3, <2>7, <3>2 DEF Gate
      <3>4. WInv(E, x, t, o, c, s, k, v, r, z2)'
        BY <1>4, <3>1, <3>3 DEF WInv
      <3> QED BY <1>3, <3>1, <3>4
    <2>11. CASE ~Crosses(d, r)
      <3>1. Announce(Part(d, r)) /\ v = r
        BY <1>8, <2>3, <2>8, <2>9, <2>11
      <3>2. announced' = r
        <4>1. Part(d, r).bbt = r - d
          BY <1>1, <1>3, <2>3, PartFacts
        <4> QED BY <1>3, <2>3, <3>1, <4>1 DEF Announce
      <3>3. GateType' /\ GateAt(E, v, r)'
        BY <1>6, <3>1, <3>2 DEF GateType, GateAt, Announce
      <3>4. Gate(E, k, v, r, z2)'
        BY <1>4, <1>7, <2>2, <2>3, <2>7, <3>3 DEF Gate
      <3>5. WInv(E, x, t, o, c, s, k, v, r, z2)'
        BY <1>4, <2>3, <3>2, <3>4 DEF WInv
      <3> QED BY <1>3, <2>3, <3>2, <3>5
    <2> QED BY <2>10, <2>11
  <1>9. CASE gate.state = "READ_STATUS_2" /\ Announce(gate.event) /\ UNCHANGED <<cache, double>>
    <2>1. Segment(E, d, e) /\ g = Wrap /\ Crosses(d, e) /\ gate.event = Part(d, e)
      BY <1>3, <1>6, <1>9 DEF GateAt
    <2>2. e \in Nat /\ e \in E /\ d < e
      BY <1>1, <2>1, ConstantFacts DEF Segment, Below
    <2>3. v = e
      BY <1>1, <1>6, <1>7, <2>1, StatusFacts
    <2>4. announced' = e
      <3>1. Part(d, e).bbt = e - d
        BY <1>1, <1>3, <2>2, PartFacts
      <3> QED BY <1>3, <1>9, <2>1, <2>2, <3>1 DEF Announce
    <2>5. GateType' /\ GateAt(E, v, e)'
      BY <1>6, <1>9, <2>3, <2>4 DEF GateType, GateAt, Announce
    <2>6. Delayed'
      BY <1>4, <1>5, <1>9 DEF Delayed, Crosses
    <2>7. Gate(E, k, v, e, z2)'
      BY <1>4, <1>6, <1>7, <1>9, <2>5, <2>6 DEF Gate
    <2>8. WInv(E, x, t, o, c, s, k, v, e, z2)'
      BY <1>4, <2>2, <2>4, <2>7 DEF WInv
    <2> QED BY <1>3, <2>2, <2>4, <2>8
  <1> QED BY <1>8, <1>9 DEF rxEngAppNotificationDelayer

(* What the gate has announced is in the memory.                           *)
LEMMA AnnouncedWritten ==
    ASSUME MemoryConstants, NEW E, NEW x, NEW t, NEW o, NEW c, NEW s, NEW k, NEW g, NEW e, NEW z,
           WInv(E, x, t, o, c, s, k, g, e, z)
    PROVE  \A n \in 0 .. announced - 1 : memory[Address(n)] = n
  <1>1. ChosenOK /\ Cuts(E) /\ Gate(E, k, g, e, z) /\ Below(E) /\ Mover(E, o, c, s, k)
    BY BufferBelow DEF WInv
  <1>2. g \in Nat /\ k \in Nat /\ g <= k
    BY <1>1, ChainFacts DEF Gate
  <1>3. announced <= g /\ announced \in Nat
    BY <1>1, ChosenFacts DEF Gate, GateAt, Cuts, Crosses
  <1>4. s \in Nat /\ k <= s /\ \A n \in 0 .. s - 1 : memory[Address(n)] = n
    BY <1>1, <1>2 DEF Mover
  <1> QED BY <1>2, <1>3, <1>4
-----------------------------------------------------------------------------
(* What comes out: the segments of n requests, and m words of the next.    *)
Words == [data : Data, last : BOOLEAN]
Requests == [from : Nat, length : Lengths, memory : BOOLEAN]
Asked(k) == SegmentWords(requests[k].from, requests[k].length)

OutType == requests \in Seq(Requests) /\ out \in Seq(Seq(Words))
Complete(n) == \A k \in 1 .. n : out[k] = Asked(k)
Done(n) == OutType /\ n \in Nat /\ n <= Len(requests) /\ Len(out) = n /\ Complete(n)
Sent(n, m) ==
    /\ OutType /\ n \in Nat /\ m \in Nat
    /\ n + 1 <= Len(requests) /\ m * WordBytes < requests[n + 1].length
    /\ Complete(n) /\ (m = 0 => Len(out) = n)
    /\ m # 0 => /\ Len(out) = n + 1 /\ Len(out[n + 1]) = m
                /\ \A i \in 1 .. m : out[n + 1][i] = Asked(n + 1)[i]

(* The words that a request asks for.                                      *)
LEMMA AskedFacts ==
    ASSUME MemoryConstants, NEW f \in Nat, NEW c \in Nat \ {0}
    PROVE  /\ SegmentWords(f, c) \in Seq(Words) /\ Len(SegmentWords(f, c)) = WordCount(c)
           /\ WordCount(c) \in Nat \ {0}
           /\ \A j \in Nat : j * WordBytes < c =>
                 /\ j + 1 <= WordCount(c)
                 /\ SegmentWords(f, c)[j + 1] = [data |-> Bytes(f + j * WordBytes, c - j * WordBytes),
                                                 last |-> j + 1 = WordCount(c)]
                 /\ (j + 1 = WordCount(c) <=> c - j * WordBytes <= WordBytes)
  <1>1. PICK q \in Nat \ {0} : q = WordCount(c)
    BY CountFacts
  <1>2. \A j \in Nat : /\ j + 1 <= q <=> j * WordBytes < c
                       /\ j + 1 <= q => (j + 1 = q <=> c - j * WordBytes <= WordBytes)
    BY <1>1, CountFacts
  <1>3. \A j \in 1 .. q : SegmentWords(f, c)[j] =
          [data |-> Bytes(f + (j - 1) * WordBytes, c - (j - 1) * WordBytes), last |-> j = q]
    BY <1>1 DEF SegmentWords
  <1>4. ASSUME NEW j \in 1 .. q
        PROVE [data |-> Bytes(f + (j - 1) * WordBytes, c - (j - 1) * WordBytes), last |-> j = q] \in Words
    <2>1. (j - 1) * WordBytes \in Int
      BY ConstantFacts
    <2>2. f + (j - 1) * WordBytes \in Int /\ c - (j - 1) * WordBytes \in Int
      BY <2>1
    <2>3. Bytes(f + (j - 1) * WordBytes, c - (j - 1) * WordBytes) \in Data
      BY <2>2, BytesData
    <2> QED BY <2>3 DEF Words
  <1>5. SegmentWords(f, c) \in Seq(Words) /\ Len(SegmentWords(f, c)) = q
    <2>1. SegmentWords(f, c) = [j \in 1 .. q |-> SegmentWords(f, c)[j]]
      BY <1>1 DEF SegmentWords
    <2>2. \A j \in 1 .. q : SegmentWords(f, c)[j] \in Words
      BY <1>3, <1>4
    <2>3. SegmentWords(f, c) \in [1 .. q -> Words]
      BY <2>1, <2>2
    <2> QED BY <2>3, SeqDef, LenProperties
  <1>6. ASSUME NEW j \in Nat, j * WordBytes < c
        PROVE  /\ j + 1 <= q
               /\ SegmentWords(f, c)[j + 1] = [data |-> Bytes(f + j * WordBytes, c - j * WordBytes),
                                               last |-> j + 1 = q]
               /\ (j + 1 = q <=> c - j * WordBytes <= WordBytes)
    <2>1. j + 1 \in 1 .. q /\ (j + 1) - 1 = j
      BY <1>2, <1>6
    <2> QED BY <1>2, <1>3, <1>6, <2>1
  <1> QED BY <1>1, <1>5, <1>6
-----------------------------------------------------------------------------
(* The reading side.  The reads of the memory are at, in the order they    *)
(* were asked for; the aligner has begun d of them and the splitter u, and *)
(* w is Wrap.  The Data Mover has the parts lab still to read, from part h *)
(* on: read r has the parts 2 * r and, if it crosses the end of the        *)
(* buffer, 2 * r + 1.  Of the stream that the bypass holds, the aligner    *)
(* has taken what is below y; the segments that it has not ended are bq.   *)
Span == [idx : Nat, from : Nat, to : Nat]
Cross(w, f, t) == f < w /\ w < t

SpanOK(w, r) ==
    /\ r.idx \in 1 .. Len(requests)
    /\ r.from = requests[r.idx].from /\ r.to = r.from + requests[r.idx].length

Sorted(q) == \A i, j \in 1 .. Len(q) : i < j => q[i].idx < q[j].idx

(* The reads of the memory, in order: all are announced.                   *)
Listed(w, at) ==
    /\ at \in Seq(Span) /\ Sorted(at)
    /\ \A i \in 1 .. Len(at) : /\ SpanOK(w, at[i]) /\ requests[at[i].idx].memory
                               /\ at[i].to <= announced /\ at[i].to # w
    /\ \A k \in 1 .. Len(requests) : requests[k].memory => \E i \in 1 .. Len(at) : at[i].idx = k

(* What is in front of the splitter, and what it told the aligner of the   *)
(* reads begun.                                                            *)
Split(w, at, d, u) ==
    /\ d \in Nat /\ u \in Nat
    /\ readCmds \in Seq(Cmds) /\ breakdowns \in Seq([double : BOOLEAN, offset : Lanes])
    /\ u = d + Len(breakdowns) /\ Len(at) = u + Len(readCmds)
    /\ \A i \in 1 .. Len(breakdowns) :
          /\ breakdowns[i].double <=> Cross(w, at[d + i].from, at[d + i].to)
          /\ Cross(w, at[d + i].from, at[d + i].to) =>
                breakdowns[i].offset = (w - at[d + i].from) % WordBytes
    /\ \A i \in 1 .. Len(readCmds) : readCmds[i] = Part(at[u + i].from, at[u + i].to)
    /\ splitter \in [second : BOOLEAN, cmd : Cmds, first : Int]
    /\ splitter.second => /\ u # 0 /\ Cross(w, at[u].from, at[u].to)
                          /\ splitter.cmd = Part(at[u].from, at[u].to) /\ splitter.first = w - at[u].from

(* Which part of which read a command of the Data Mover is for.            *)
Labels == [read : Nat, id : Nat, next : Nat, from : Nat, to : Nat]
LFrom == [e \in Labels |-> e.id]
LTo == [e \in Labels |-> e.next]
LabelsOf(w, at) ==
    {e \in Labels :
        /\ e.read \in 1 .. Len(at)
        /\ \/ /\ ~Cross(w, at[e.read].from, at[e.read].to)
              /\ e.id = 2 * e.read /\ e.next = 2 * e.read + 2
              /\ e.from = at[e.read].from /\ e.to = at[e.read].to
           \/ /\ Cross(w, at[e.read].from, at[e.read].to)
              /\ e.id = 2 * e.read /\ e.next = 2 * e.read + 1
              /\ e.from = at[e.read].from /\ e.to = w
           \/ /\ Cross(w, at[e.read].from, at[e.read].to)
              /\ e.id = 2 * e.read + 1 /\ e.next = 2 * e.read + 2
              /\ e.from = w /\ e.to = at[e.read].to}

(* The commands that the Data Mover still has, the first of them begun.    *)
Reads(w, at, u, lab, h) ==
    /\ lab \in Seq(LabelsOf(w, at)) /\ moverReads \in Seq(Cmds) /\ Len(moverReads) = Len(lab)
    /\ \A i \in 1 .. Len(lab) : moverReads[i] = Part(lab[i].from, lab[i].to)
    /\ Chain(lab, LFrom, LTo, h, IF splitter.second THEN 2 * u + 1 ELSE 2 * u + 2)

(* The first d reads are of the first n requests, and the others are not.  *)
After(at, d, n) ==
    /\ d <= Len(at)
    /\ \A i \in 1 .. Len(at) : at[i].idx <= n <=> i <= d

(* The aligner between two segments, in one from the bypass, and in a      *)
(* read.                                                                   *)
Waiting(at, d, h, n) ==
    /\ aligner.state \in {"READ_BYPASS", "READ_ACCESS"} /\ Done(n)
    /\ h = 2 * d + 2 /\ fetched = 0 /\ After(at, d, n)
    /\ aligner.state = "READ_BYPASS" => side = "tx"
    /\ (aligner.state = "READ_ACCESS" /\ side = "tx") => n + 1 <= Len(requests) /\ requests[n + 1].memory

Passing(at, d, h, n, m) ==
    /\ aligner.state = "NO_USE_DDR" /\ side = "tx" /\ Sent(n, m)
    /\ h = 2 * d + 2 /\ fetched = 0 /\ After(at, d, n)
    /\ ~requests[n + 1].memory

(* Where the aligner is in a read from f to t, of which it has sent what   *)
(* is below p.                                                             *)
Unbroken(w, f, t, p, d, h) ==
    aligner.state = "NO_BREAKDOWN" /\ ~Cross(w, f, t) /\ h = 2 * d /\ p = f + fetched

Block0(w, f, t, p, d, h) ==
    /\ aligner.state = "BREAKDOWN_BLOCK_0" /\ Cross(w, f, t) /\ h = 2 * d
    /\ p = f + fetched /\ p < w /\ aligner.offset = (w - f) % WordBytes

Aligned(w, f, t, p, d, h) ==
    aligner.state = "BREAKDOWN_ALIGNED" /\ Cross(w, f, t) /\ h = 2 * d + 1 /\ p = w + fetched

Merge(w, f, t, p, d, h) ==
    /\ aligner.state = "FIRST_MERGE" /\ Cross(w, f, t) /\ h = 2 * d + 1 /\ fetched = 0
    /\ aligner.offset # 0 /\ p + aligner.offset = w /\ aligner.prev = Bytes(p, aligner.offset)

Block1(w, f, t, p, d, h) ==
    /\ aligner.state = "BREAKDOWN_BLOCK_1" /\ Cross(w, f, t) /\ h = 2 * d + 1
    /\ aligner.offset # 0 /\ fetched >= WordBytes /\ p + aligner.offset = w + fetched /\ w + fetched < t
    /\ aligner.prev = Bytes(w + fetched - WordBytes, WordBytes)

ExtraWord(w, f, t, p, d, h) ==
    /\ aligner.state = "EXTRA_DATA" /\ h = 2 * d + 2 /\ fetched = 0 /\ aligner.offset # 0
    /\ \E q \in Nat : /\ p = q + (WordBytes - aligner.offset) /\ p < t /\ t - q <= WordBytes
                      /\ aligner.prev = Bytes(q, t - q)

Reading(w, at, d, h, n, m) ==
    /\ Sent(n, m) /\ d # 0 /\ After(at, d, n + 1) /\ at[d].idx = n + 1 /\ fetched \in Nat
    /\ LET f == at[d].from
           t == at[d].to
           p == at[d].from + m * WordBytes IN
       \/ Unbroken(w, f, t, p, d, h) \/ Block0(w, f, t, p, d, h) \/ Aligned(w, f, t, p, d, h)
       \/ Merge(w, f, t, p, d, h) \/ Block1(w, f, t, p, d, h) \/ ExtraWord(w, f, t, p, d, h)

(* The aligner is at one of these places.                                  *)
AlignerStates == {"READ_BYPASS", "NO_USE_DDR", "READ_ACCESS", "NO_BREAKDOWN", "BREAKDOWN_BLOCK_0",
                  "BREAKDOWN_ALIGNED", "FIRST_MERGE", "BREAKDOWN_BLOCK_1", "EXTRA_DATA"}
AlignerType == aligner \in [state : AlignerStates, offset : Lanes, prev : Data]
AlignerAt(w, at, d, h, n, m) ==
    /\ AlignerType
    /\ Waiting(at, d, h, n) \/ Passing(at, d, h, n, m) \/ Reading(w, at, d, h, n, m)

(* The bypass holds what the segments bq that are not yet ended still      *)
(* need.                                                                   *)
BFrom == [r \in Span |-> r.from]
BTo == [r \in Span |-> r.to]
Picked(n) == IF aligner.state = "READ_BYPASS" THEN n ELSE n + 1

Bypassing(w, E, x, n, m, y, bq) ==
    IF side # "tx" THEN \A k \in 1 .. Len(requests) : requests[k].memory
    ELSE /\ isBypass \in Seq(BOOLEAN) /\ Len(requests) = Picked(n) + Len(isBypass)
         /\ \A i \in 1 .. Len(isBypass) : isBypass[i] <=> ~requests[Picked(n) + i].memory
         /\ bypass \in Seq(GoodWords(E, accepted)) /\ Chain(bypass, Lo, Hi, y, x)
         /\ bq \in Seq(Span) /\ Sorted(bq)
         /\ \A i \in 1 .. Len(bq) : /\ SpanOK(w, bq[i]) /\ Segment(E, bq[i].from, bq[i].to)
                                    /\ n < bq[i].idx /\ ~requests[bq[i].idx].memory
         /\ \A k \in n + 1 .. Len(requests) : ~requests[k].memory => \E i \in 1 .. Len(bq) : bq[i].idx = k
         /\ Chain(bq, BFrom, BTo, IF aligner.state = "NO_USE_DDR" THEN y - m * WordBytes ELSE y, accepted)

(* The invariant of the reading side.                                      *)
RInv(E, x, w, at, d, u, lab, h, n, m, y, bq) ==
    /\ w = Wrap /\ Listed(w, at) /\ Split(w, at, d, u) /\ Reads(w, at, u, lab, h)
    /\ AlignerAt(w, at, d, h, n, m) /\ Bypassing(w, E, x, n, m, y, bq)
(* The types of a request.                                                 *)
LEMMA RequestIs ==
    ASSUME MemoryConstants, OutType, NEW k \in 1 .. Len(requests)
    PROVE  /\ requests[k].from \in Nat /\ requests[k].length \in Nat \ {0}
           /\ requests[k].length \in Lengths /\ requests[k].memory \in BOOLEAN
           /\ Asked(k) \in Seq(Words)
  <1>1. requests[k] \in Requests
    BY DEF OutType
  <1>2. /\ requests[k].from \in Nat /\ requests[k].length \in Nat \ {0}
        /\ requests[k].length \in Lengths /\ requests[k].memory \in BOOLEAN
    BY <1>1, ConstantFacts DEF Requests
  <1> QED BY <1>2, AskedFacts DEF Asked

(* The words of the segment that a request asks for.                       *)
Count(k) == WordCount(requests[k].length)

(* The word at each place of a segment that is asked for.                  *)
LEMMA AskedAt ==
    ASSUME MemoryConstants, OutType, NEW k \in 1 .. Len(requests), NEW f, NEW c,
           f = requests[k].from, c = requests[k].length
    PROVE  /\ f \in Nat /\ c \in Nat \ {0} /\ Asked(k) \in Seq(Words)
           /\ Len(Asked(k)) = Count(k) /\ Count(k) \in Nat \ {0}
           /\ \A j \in Nat : (j + 1 <= Count(k)) <=> (j * WordBytes < c)
           /\ \A j \in Nat : j * WordBytes < c =>
                 /\ (j + 1 = Count(k)) <=> (c - j * WordBytes <= WordBytes)
                 /\ Asked(k)[j + 1] \in Words
                 /\ Asked(k)[j + 1].last <=> (j + 1 = Count(k))
                 /\ Asked(k)[j + 1].data = Bytes(f + j * WordBytes, c - j * WordBytes)
  <1>1. f \in Nat /\ c \in Nat \ {0} /\ Asked(k) = SegmentWords(f, c) /\ Count(k) = WordCount(c)
    BY RequestIs DEF Asked, Count
  <1>2. Count(k) \in Nat \ {0}
    BY <1>1, CountFacts
  <1>3. \A j \in Nat : (j + 1 <= Count(k)) <=> (j * WordBytes < c)
    BY <1>1, CountFacts
  <1>4. SegmentWords(f, c) \in Seq(Words) /\ Len(SegmentWords(f, c)) = WordCount(c)
    BY <1>1, AskedFacts
  <1>5. ASSUME NEW j \in Nat, j * WordBytes < c
        PROVE  /\ (j + 1 = Count(k)) <=> (c - j * WordBytes <= WordBytes)
               /\ Asked(k)[j + 1] \in Words
               /\ Asked(k)[j + 1].last <=> (j + 1 = Count(k))
               /\ Asked(k)[j + 1].data = Bytes(f + j * WordBytes, c - j * WordBytes)
    <2>1. /\ (j + 1 = WordCount(c)) <=> (c - j * WordBytes <= WordBytes)
          /\ j + 1 <= WordCount(c)
      BY <1>1, <1>5, AskedFacts
    <2>2. PICK i \in 1 .. WordCount(c) : i = j + 1 /\ i - 1 = j
      BY <1>1, <1>2, <2>1
    <2>3a. /\ SegmentWords(f, c)[i].data = Bytes(f + (i - 1) * WordBytes, c - (i - 1) * WordBytes)
           /\ SegmentWords(f, c)[i].last <=> (i = WordCount(c))
      BY DEF SegmentWords
    <2>3. /\ SegmentWords(f, c)[j + 1].data = Bytes(f + j * WordBytes, c - j * WordBytes)
          /\ SegmentWords(f, c)[j + 1].last <=> (j + 1 = WordCount(c))
      BY <2>2, <2>3a
    <2>4. SegmentWords(f, c)[j + 1] \in Words
      BY <1>1, <1>2, <1>4, <2>1, ElementOfSeq
    <2> QED BY <1>1, <2>1, <2>3, <2>4
  <1> QED BY <1>1, <1>2, <1>3, <1>4, <1>5

(* When a segment has ended, none of the next has come.                    *)
LEMMA DoneSent ==
    ASSUME MemoryConstants, NEW n, Done(n), n + 1 <= Len(requests)
    PROVE  Sent(n, 0)
  <1>1. n \in Nat /\ n + 1 \in 1 .. Len(requests) /\ OutType
    BY LenProperties DEF Done, OutType
  <1>2. requests[n + 1].length \in Nat \ {0}
    BY <1>1, RequestIs
  <1>3. 0 * WordBytes = 0
    BY ConstantFacts
  <1> QED BY <1>1, <1>2, <1>3 DEF Done, Sent

(* A word comes between two segments if and only if none is begun.         *)
LEMMA BetweenIs ==
    ASSUME MemoryConstants, NEW n, NEW m, Sent(n, m)
    PROVE  Between <=> m = 0
  <1>1. n \in Nat /\ m \in Nat /\ n + 1 \in 1 .. Len(requests) /\ OutType
    BY LenProperties DEF Sent, OutType
  <1>2. CASE m = 0
    <2>1. CASE n = 0
      <3>1. out = <<>>
        BY <1>1, <1>2, <2>1, EmptySeq DEF Sent, OutType
      <3> QED BY <1>2, <3>1 DEF Between
    <2>2. CASE n # 0
      <3>1. n \in 1 .. Len(requests) /\ Len(out) = n /\ out[n] = Asked(n)
        BY <1>1, <1>2, <2>2 DEF Sent, Complete
      <3>2. PICK f, c : f = requests[n].from /\ c = requests[n].length
        OBVIOUS
      <3>3. Len(Asked(n)) = Count(n) /\ Count(n) \in Nat \ {0}
        BY <1>1, <3>1, <3>2, AskedAt
      <3>4. PICK q \in Nat \ {0} : q = Count(n) /\ Len(Asked(n)) = q
        BY <3>3
      <3>5. PICK j \in Nat : q = j + 1
        <4>1. q - 1 \in Nat /\ q = (q - 1) + 1
          BY <3>4
        <4> QED BY <4>1
      <3>6. j + 1 <= Count(n)
        BY <3>4, <3>5
      <3>7. Asked(n)[j + 1].last
        BY <1>1, <3>1, <3>2, <3>4, <3>5, <3>6, AskedAt
      <3>8. out # <<>> /\ Len(out[Len(out)]) = j + 1 /\ out[Len(out)][j + 1].last
        BY <1>1, <3>1, <3>4, <3>5, <3>7, <2>2
      <3> QED BY <1>2, <3>8 DEF Between
    <2> QED BY <2>1, <2>2
  <1>3. CASE m # 0
    <2>1. Len(out) = n + 1 /\ Len(out[n + 1]) = m /\ out[n + 1][m] = Asked(n + 1)[m] /\ out # <<>>
      BY <1>1, <1>3 DEF Sent
    <2>2. PICK f, c : f = requests[n + 1].from /\ c = requests[n + 1].length
      OBVIOUS
    <2>3. m * WordBytes < c
      BY <2>2 DEF Sent
    <2>4. PICK j \in Nat : m = j + 1
      <3>1. m - 1 \in Nat /\ m = (m - 1) + 1
        BY <1>1, <1>3
      <3> QED BY <3>1
    <2>5a. \A i \in Nat : (i + 1 <= Count(n + 1)) <=> (i * WordBytes < c)
      BY <1>1, <2>2, AskedAt
    <2>5. Count(n + 1) \in Nat \ {0}
      BY <1>1, <2>2, AskedAt
    <2>6. m + 1 <= Count(n + 1)
      BY <1>1, <2>3, <2>5a
    <2>7. j + 1 <= Count(n + 1) /\ j + 1 # Count(n + 1)
      BY <2>4, <2>5, <2>6
    <2>10. ~Asked(n + 1)[j + 1].last
      BY <1>1, <2>2, <2>7, AskedAt
    <2>11. out # <<>> /\ Len(out[Len(out)]) = j + 1 /\ ~out[Len(out)][j + 1].last
      BY <1>1, <2>1, <2>4, <2>10
    <2> QED BY <1>3, <2>11 DEF Between
  <1> QED BY <1>2, <1>3

(* The word that is due goes out.                                          *)
LEMMA SendFacts ==
    ASSUME MemoryConstants, NEW n, NEW m, Sent(n, m), NEW f, NEW t, NEW data, NEW last \in BOOLEAN,
           f = requests[n + 1].from, t = f + requests[n + 1].length,
           data = Bytes(f + m * WordBytes, t - (f + m * WordBytes)),
           last <=> t - (f + m * WordBytes) <= WordBytes,
           Send(data, last), UNCHANGED requests
    PROVE  IF last THEN Done(n + 1)' ELSE Sent(n, m + 1)'
  <1> DEFINE word == [data |-> data, last |-> last]
  <1>1. n \in Nat /\ m \in Nat /\ n + 1 \in 1 .. Len(requests) /\ OutType /\ Complete(n)
    BY LenProperties DEF Sent, OutType
  <1>2. PICK c \in Nat \ {0} : c = requests[n + 1].length /\ f \in Nat /\ t = f + c
    BY <1>1, RequestIs
  <1>3. PICK r \in Nat : r = m * WordBytes /\ r < c
    <2>1. m * WordBytes \in Nat
      BY <1>1, ConstantFacts
    <2> QED BY <2>1, <1>2 DEF Sent
  <1>4. t - (f + r) = c - r
    BY <1>2, <1>3
  <1>5. PICK S : S = Asked(n + 1)
    OBVIOUS
  <1>6. PICK q \in Nat \ {0} : /\ q = Count(n + 1) /\ Len(S) = q /\ S \in Seq(Words)
                               /\ \A i \in Nat : (i + 1 <= q) <=> (i * WordBytes < c)
    BY <1>1, <1>2, <1>5, AskedAt
  <1>6a. \A j \in Nat : j * WordBytes < c =>
            /\ (j + 1 = q) <=> (c - j * WordBytes <= WordBytes)
            /\ S[j + 1] \in Words /\ (S[j + 1].last <=> (j + 1 = q))
            /\ S[j + 1].data = Bytes(f + j * WordBytes, c - j * WordBytes)
    BY <1>1, <1>2, <1>5, <1>6, AskedAt
  <1>7. m + 1 <= q /\ S[m + 1] = word /\ (last <=> m + 1 = q)
    <2>1. /\ m + 1 <= q
          /\ (m + 1 = q) <=> (c - r <= WordBytes)
          /\ S[m + 1] \in Words /\ (S[m + 1].last <=> m + 1 = q)
          /\ S[m + 1].data = Bytes(f + r, c - r)
      BY <1>1, <1>3, <1>6, <1>6a
    <2>2. last <=> m + 1 = q
      BY <1>3, <1>4, <2>1
    <2>3. S[m + 1].data = data
      BY <1>3, <1>4, <2>1
    <2>4. S[m + 1].last \in BOOLEAN /\ S[m + 1] = [data |-> S[m + 1].data, last |-> S[m + 1].last]
      BY <2>1 DEF Words
    <2>5. S[m + 1].last = last
      BY <2>1, <2>2, <2>4
    <2> QED BY <2>1, <2>2, <2>3, <2>4, <2>5
  <1>8. word \in Words
    <2>1. S[m + 1] \in Words
      BY <1>1, <1>3, <1>6a
    <2> QED BY <1>7, <2>1
  <1> HIDE DEF word
  <1>9. PICK w \in Seq(Words) : /\ Len(w) = m + 1 /\ \A i \in 1 .. m + 1 : w[i] = S[i]
                                /\ out' \in Seq(Seq(Words)) /\ Len(out') = n + 1
                                /\ out'[n + 1] = w /\ \A i \in 1 .. n : out'[i] = out[i]
    <2>1. CASE m = 0
      <3>1. out' = Append(out, <<word>>) /\ Len(out) = n /\ <<word>> \in Seq(Words)
        <4>1. Between
          BY <2>1, BetweenIs
        <4>2. Len(out) = n
          BY <2>1 DEF Sent
        <4>3. <<word>> \in Seq(Words)
          BY <1>8
        <4>4. out' = Append(out, <<word>>)
          BY <4>1 DEF Send, word
        <4> QED BY <4>2, <4>3, <4>4
      <3>2. /\ out' \in Seq(Seq(Words)) /\ Len(out') = n + 1
            /\ out'[n + 1] = <<word>> /\ \A i \in 1 .. n : out'[i] = out[i]
        BY <1>1, <3>1, AppendFacts DEF OutType
      <3>3. Len(<<word>>) = m + 1 /\ \A i \in 1 .. m + 1 : <<word>>[i] = S[i]
        BY <1>7, <2>1
      <3> QED BY <3>1, <3>2, <3>3
    <2>2. CASE m # 0
      <3>1. /\ Len(out) = n + 1 /\ Len(out[n + 1]) = m /\ \A i \in 1 .. m : out[n + 1][i] = S[i]
            /\ out[n + 1] \in Seq(Words)
        <4>1. Len(out) = n + 1 /\ Len(out[n + 1]) = m /\ \A i \in 1 .. m : out[n + 1][i] = S[i]
          BY <1>5, <2>2 DEF Sent
        <4>2. out \in Seq(Seq(Words)) /\ n + 1 \in 1 .. Len(out)
          BY <1>1, <4>1 DEF OutType
        <4>3. out[n + 1] \in Seq(Words)
          BY <4>2, ElementOfSeq
        <4> QED BY <4>1, <4>3
      <3>2. out' = [out EXCEPT ![n + 1] = Append(out[n + 1], word)]
        BY <2>2, <3>1, BetweenIs DEF Send, word
      <3>3. PICK w \in Seq(Words) : w = Append(out[n + 1], word)
        BY <1>8, <3>1, AppendFacts
      <3>4. Len(w) = m + 1 /\ (\A i \in 1 .. m : w[i] = out[n + 1][i]) /\ w[m + 1] = word
        BY <1>8, <3>1, <3>3, AppendFacts
      <3>5. \A i \in 1 .. m + 1 : w[i] = S[i]
        BY <1>1, <1>7, <3>1, <3>4
      <3>6. /\ out' \in Seq(Seq(Words)) /\ Len(out') = n + 1
            /\ \A j \in 1 .. n + 1 : out'[j] = IF j = n + 1 THEN w ELSE out[j]
        <4>1. out \in Seq(Seq(Words)) /\ n + 1 \in 1 .. Len(out) /\ w \in Seq(Words)
          BY <1>1, <3>1, <3>3 DEF OutType
        <4>2. /\ [out EXCEPT ![n + 1] = w] \in Seq(Seq(Words)) /\ Len([out EXCEPT ![n + 1] = w]) = Len(out)
              /\ \A j \in 1 .. Len(out) : [out EXCEPT ![n + 1] = w][j] = IF j = n + 1 THEN w ELSE out[j]
          BY <4>1, ExceptSeq
        <4>3. out' = [out EXCEPT ![n + 1] = w]
          BY <3>2, <3>3
        <4> QED BY <3>1, <4>2, <4>3
      <3>7. out'[n + 1] = w /\ \A i \in 1 .. n : out'[i] = out[i]
        BY <1>1, <3>6
      <3> QED BY <3>4, <3>5, <3>6, <3>7
    <2> QED BY <2>1, <2>2
  <1>10. \A k : Asked(k)' = Asked(k)
    BY DEF Asked
  <1>11. OutType' /\ \A k \in 1 .. n : out'[k] = Asked(k)'
    BY <1>1, <1>9, <1>10 DEF OutType, Complete
  <1>12. CASE last
    <2>1. Len(w) = Len(S) /\ \A i \in 1 .. Len(w) : w[i] = S[i]
      BY <1>6, <1>7, <1>9, <1>12
    <2>2. w = S
      BY <1>6, <1>9, <2>1, SeqEqual
    <2>3. \A k \in 1 .. n + 1 : out'[k] = Asked(k)'
      BY <1>1, <1>5, <1>9, <1>10, <1>11, <2>2
    <2>4. n + 1 \in Nat /\ n + 1 <= Len(requests') /\ Len(out') = n + 1
      BY <1>1, <1>9
    <2> QED BY <1>11, <1>12, <2>3, <2>4 DEF Done, Complete
  <1>13. CASE ~last
    <2>1. m + 1 \in Nat /\ m + 1 # 0 /\ (m + 1) + 1 <= q
      BY <1>1, <1>7, <1>13
    <2>2. (m + 1) * WordBytes < c
      BY <1>6, <2>1
    <2>3. \A i \in 1 .. m + 1 : out'[n + 1][i] = Asked(n + 1)'[i]
      BY <1>5, <1>9, <1>10
    <2> QED BY <1>1, <1>2, <1>9, <1>11, <1>13, <2>1, <2>2, <2>3 DEF Sent, Complete
  <1> QED BY <1>12, <1>13

(* What came out so far is what was asked for.                             *)
LEMMA DoneReads ==
    ASSUME MemoryConstants, NEW n, Done(n)
    PROVE  ReadsWhatWasWritten
  BY LenProperties DEF Done, Complete, Asked, ReadsWhatWasWritten, OutType

LEMMA SentReads ==
    ASSUME MemoryConstants, NEW n, NEW m, Sent(n, m)
    PROVE  ReadsWhatWasWritten
  <1>1. n \in Nat /\ m \in Nat /\ n + 1 \in 1 .. Len(requests) /\ OutType /\ Complete(n)
    BY LenProperties DEF Sent, OutType
  <1>2. CASE m = 0
    <2>1. Done(n)
      BY <1>1, <1>2 DEF Sent, Done
    <2> QED BY <2>1, DoneReads
  <1>3. CASE m # 0
    <2>1. /\ Len(out) = n + 1 /\ Len(out[n + 1]) = m
          /\ \A i \in 1 .. m : out[n + 1][i] = Asked(n + 1)[i]
      BY <1>3 DEF Sent
    <2>2. m <= Len(Asked(n + 1))
      <3>1. PICK f \in Nat, c \in Nat \ {0} : f = requests[n + 1].from /\ c = requests[n + 1].length
        BY <1>1, RequestIs
      <3>2. m * WordBytes < c
        BY <3>1 DEF Sent
      <3>3. m + 1 <= WordCount(c) /\ Len(Asked(n + 1)) = WordCount(c) /\ WordCount(c) \in Nat
        BY <1>1, <3>1, <3>2, AskedFacts DEF Asked
      <3> QED BY <1>1, <3>3
    <2> QED BY <1>1, <2>1, <2>2 DEF Complete, Asked, ReadsWhatWasWritten
  <1> QED BY <1>2, <1>3

(* A request more changes nothing of what came out.                        *)
LEMMA RequestsGrow ==
    ASSUME NEW r \in Requests, requests' = Append(requests, r), UNCHANGED out, OutType
    PROVE  /\ OutType' /\ Len(requests') = Len(requests) + 1 /\ Len(requests) \in Nat
           /\ requests'[Len(requests) + 1] = r
           /\ \A k \in 1 .. Len(requests) : requests'[k] = requests[k]
           /\ \A n : Done(n) => Done(n)'
           /\ \A n, m : Sent(n, m) => Sent(n, m)'
  <1>1. /\ OutType' /\ Len(requests') = Len(requests) + 1 /\ Len(requests) \in Nat
        /\ requests'[Len(requests) + 1] = r
        /\ \A k \in 1 .. Len(requests) : requests'[k] = requests[k]
    BY AppendFacts, LenProperties DEF OutType
  <1>2. \A k \in 1 .. Len(requests) : Asked(k)' = Asked(k)
    BY <1>1 DEF Asked
  <1>3. ASSUME NEW n, Done(n) PROVE Done(n)'
    BY <1>1, <1>2, <1>3 DEF Done, Complete
  <1>4. ASSUME NEW n, NEW m, Sent(n, m) PROVE Sent(n, m)'
    <2>1. n \in Nat /\ m \in Nat /\ n + 1 \in 1 .. Len(requests) /\ n + 1 \in Nat
      BY <1>1, <1>4 DEF Sent
    <2>2. requests'[n + 1] = requests[n + 1] /\ Asked(n + 1)' = Asked(n + 1) /\ n + 1 <= Len(requests')
      BY <1>1, <1>2, <2>1
    <2>3. \A k \in 1 .. n : out'[k] = Asked(k)'
      BY <1>1, <1>2, <1>4, <2>1 DEF Sent, Complete
    <2> QED BY <1>1, <1>4, <2>1, <2>2, <2>3 DEF Sent, Complete
  <1> QED BY <1>1, <1>3, <1>4

(* A word that the Data Mover reads of a part that has been announced.     *)
Stable == /\ announced \in Nat /\ announced < BufferSize
          /\ \A i \in 0 .. announced - 1 : memory[Address(i)] = i

LEMMA AnswerIs ==
    ASSUME MemoryConstants, ChosenOK, Stable, NEW a \in Nat, NEW b \in Nat, b <= announced, ~Crosses(a, b),
           Head(moverReads) = Part(a, b), fetched \in Nat, a + fetched < b
    PROVE  /\ Answer.data = Bytes(a + fetched, b - (a + fetched))
           /\ Answer.last \in BOOLEAN /\ (Answer.last <=> b - (a + fetched) <= WordBytes)
  <1>1. WordBytes \in Nat \ {0} /\ announced \in Nat /\ announced < BufferSize /\ a < b /\ BufferSize \in Nat
    BY ConstantFacts DEF Stable
  <1>2. PICK left \in Nat : left = b - (a + fetched) /\ left = (b - a) - fetched
    BY <1>1
  <1>3. Head(moverReads).saddr = Address(a) /\ Head(moverReads).bbt - fetched = left
    BY <1>1, <1>2, PartFacts
  <1>4. ASSUME NEW l \in Lanes, l < left PROVE Stored(Address(a) + fetched + l) = a + fetched + l
    <2>1. PICK m \in Nat : m = a + fetched + l /\ m - a = fetched + l /\ a <= m /\ m < b
      BY <1>1, <1>2, <1>4 DEF Lanes
    <2>2. m \in 0 .. announced - 1 /\ a \in 0 .. BufferSize - 1 /\ m \in 0 .. BufferSize - 1
      BY <1>1, <2>1
    <2>3. ~(a < Wrap /\ Wrap <= m)
      <3>1. Wrap \in Int
        BY ChosenFacts
      <3> QED BY <1>1, <2>1, <3>1 DEF Crosses
    <2>4. Address(m) = Address(a) + (m - a) /\ Address(m) \in Buffers
      BY <2>1, <2>2, <2>3, AddressRuns, AddressIs
    <2>5. Address(a) \in Int
      <3>1. Address(a) - Base \in Int /\ Base \in Int /\ start \in Int /\ Wrap \in Int
        BY <2>2, AddressIs, ChosenFacts
      <3>2. Address(a) = IF a < Wrap THEN Base + start + a ELSE Base + (a - Wrap)
        BY <2>2, AddressIs
      <3> QED BY <3>1, <3>2
    <2>6. Address(a) + fetched + l = Address(m)
      <3>1. PICK v \in Int, y \in Nat : v = Address(a) /\ y = fetched /\ l \in Int
        BY <2>5 DEF Lanes
      <3> QED BY <2>1, <2>4, <3>1
    <2>7. memory[Address(m)] = m
      BY <2>2 DEF Stable
    <2> QED BY <2>1, <2>4, <2>6, <2>7 DEF Stored
  <1>5. Answer.data = [l \in Lanes |-> IF l < left THEN Stored(Address(a) + fetched + l) ELSE NoByte]
    BY <1>3 DEF Answer
  <1>6. Bytes(a + fetched, left) = [l \in Lanes |-> IF l < left THEN (a + fetched) + l ELSE NoByte]
    BY DEF Bytes
  <1>7. Answer.data = Bytes(a + fetched, left)
    BY <1>4, <1>5, <1>6
  <1>8. Answer.last = (left <= WordBytes)
    BY <1>3 DEF Answer
  <1>9. CASE left <= WordBytes
    <2>1. Answer.last = TRUE
      BY <1>8, <1>9
    <2> QED BY <1>2, <1>7, <1>9, <2>1
  <1>10. CASE ~(left <= WordBytes)
    <2>0. (left <= WordBytes) = FALSE
      BY <1>10
    <2>1. Answer.last = FALSE
      BY ONLY <1>8, <2>0
    <2> QED BY <1>2, <1>7, <1>10, <2>1
  <1> QED BY <1>9, <1>10

(* The part that the Data Mover is about to read.                          *)
LEMMA HeadRead ==
    ASSUME NEW w, NEW at, NEW u, NEW lab, NEW h, Reads(w, at, u, lab, h), moverReads # <<>>,
           NEW d \in Nat, h = 2 * d \/ h = 2 * d + 1
    PROVE  /\ lab # <<>> /\ d \in 1 .. Len(at) /\ Head(lab) \in LabelsOf(w, at)
           /\ h = 2 * d => /\ Head(moverReads) = Part(at[d].from, IF Cross(w, at[d].from, at[d].to) THEN w ELSE at[d].to)
                           /\ Head(lab).next = IF Cross(w, at[d].from, at[d].to) THEN 2 * d + 1 ELSE 2 * d + 2
           /\ h = 2 * d + 1 => /\ Cross(w, at[d].from, at[d].to)
                               /\ Head(moverReads) = Part(w, at[d].to) /\ Head(lab).next = 2 * d + 2
  <1>1. lab \in Seq(LabelsOf(w, at)) /\ moverReads \in Seq(Cmds) /\ Len(moverReads) = Len(lab)
    BY DEF Reads
  <1>2. moverReads # <<>> /\ Len(lab) # 0 /\ lab # <<>> /\ Len(lab) \in Nat
    BY <1>1, EmptySeq, LenProperties
  <1>3. PICK e : e = Head(lab) /\ e = lab[1] /\ e \in LabelsOf(w, at) /\ Head(moverReads) = moverReads[1] /\ 1 \in 1 .. Len(lab)
    BY <1>1, <1>2, TailFacts
  <1>4. Head(moverReads) = Part(e.from, e.to)
    BY <1>3 DEF Reads
  <1>5. e \in Labels
    BY <1>3 DEF LabelsOf
  <1>6. e.id = h
    BY <1>2, <1>3, <1>5 DEF Reads, Chain, LFrom
  <1>7. e.read \in Nat /\ e.id \in Nat /\ e.read \in 1 .. Len(at)
    BY <1>3, <1>5 DEF Labels, LabelsOf
  <1>8. e.id = 2 * e.read \/ e.id = 2 * e.read + 1
    BY <1>3 DEF LabelsOf
  <1>9. e.read = d
    BY <1>6, <1>7, <1>8
  <1>10. 2 * d # 2 * d + 1
    OBVIOUS
  <1> QED BY <1>2, <1>3, <1>4, <1>6, <1>7, <1>9, <1>10 DEF LabelsOf

(* The aligner takes a word.                                               *)
LEMMA TakeRead ==
    ASSUME MemoryConstants, ChosenOK, Stable, NEW w, NEW at, NEW u, NEW lab, NEW h, Reads(w, at, u, lab, h),
           TakeAnswer, UNCHANGED <<chosen, splitter>>, NEW a \in Nat, NEW b \in Nat, b <= announced, ~Crosses(a, b),
           Head(moverReads) = Part(a, b), fetched \in Nat, a + fetched < b,
           NEW r, lab # <<>> => r = Head(lab).next
    PROVE  IF b - (a + fetched) <= WordBytes
             THEN Reads(w, at, u, Tail(lab), r)' /\ fetched' = 0
             ELSE Reads(w, at, u, lab, h)' /\ fetched' = fetched + WordBytes /\ a + fetched' < b
  <1>1. /\ moverReads # <<>> /\ moverReads' = (IF Answer.last THEN Tail(moverReads) ELSE moverReads)
        /\ fetched' = IF Answer.last THEN 0 ELSE fetched + WordBytes
    BY DEF TakeAnswer
  <1>2. Answer.last \in BOOLEAN /\ (Answer.last <=> b - (a + fetched) <= WordBytes)
    BY AnswerIs
  <1>3. /\ lab \in Seq(LabelsOf(w, at)) /\ moverReads \in Seq(Cmds) /\ Len(moverReads) = Len(lab)
        /\ \A i \in 1 .. Len(lab) : moverReads[i] = Part(lab[i].from, lab[i].to)
        /\ Chain(lab, LFrom, LTo, h, IF splitter.second THEN 2 * u + 1 ELSE 2 * u + 2)
    BY DEF Reads
  <1>4. Len(lab) # 0 /\ lab # <<>>
    BY <1>1, <1>3, EmptySeq
  <1>5. (\A i, j : Part(i, j)' = Part(i, j)) /\ splitter' = splitter
    BY Frozen
  <1>6. CASE ~Answer.last
    <2>1. Reads(w, at, u, lab, h)'
      BY <1>1, <1>3, <1>5, <1>6 DEF Reads
    <2>2. WordBytes \in Nat
      BY ConstantFacts
    <2> QED BY <1>1, <1>2, <1>6, <2>1, <2>2
  <1>7. CASE Answer.last
    <2>1. LTo[Head(lab)] = r
      <3>1. Head(lab) \in Labels
        BY <1>3, <1>4, TailFacts DEF LabelsOf
      <3> QED BY <1>4, <3>1 DEF LTo
    <2>2. Chain(Tail(lab), LFrom, LTo, r, IF splitter.second THEN 2 * u + 1 ELSE 2 * u + 2)
      BY <1>3, <1>4, <2>1, ChainTail
    <2>3. /\ Tail(lab) \in Seq(LabelsOf(w, at)) /\ moverReads' \in Seq(Cmds) /\ moverReads' = Tail(moverReads)
          /\ Len(moverReads') = Len(Tail(lab)) /\ Len(lab) \in Nat /\ Len(Tail(lab)) = Len(lab) - 1
          /\ \A i \in 1 .. Len(lab) - 1 : Tail(lab)[i] = lab[i + 1] /\ Tail(moverReads)[i] = moverReads[i + 1]
      BY <1>1, <1>3, <1>4, <1>7, TailFacts
    <2>4. ASSUME NEW i \in 1 .. Len(Tail(lab))
          PROVE  moverReads'[i] = Part(Tail(lab)[i].from, Tail(lab)[i].to)'
      <3>1. i + 1 \in 1 .. Len(lab) /\ i \in 1 .. Len(lab) - 1
        BY <2>3
      <3> QED BY <1>3, <1>5, <2>3, <3>1
    <2>5. Reads(w, at, u, Tail(lab), r)'
      BY <1>5, <2>2, <2>3, <2>4 DEF Reads
    <2> QED BY <1>1, <1>2, <1>7, <2>5
  <1> QED BY <1>2, <1>6, <1>7

(* The read that the aligner is in.                                        *)
LEMMA ReadFacts ==
    ASSUME MemoryConstants, ChosenOK, NEW w, w = Wrap, NEW at, Listed(w, at), NEW d \in Nat, NEW h, NEW n, NEW m,
           Sent(n, m), d # 0, d <= Len(at), at[d].idx = n + 1, announced \in Nat
    PROVE  /\ d \in 1 .. Len(at) /\ at[d].from \in Nat /\ at[d].to \in Nat /\ at[d].from < at[d].to
           /\ at[d].to <= announced /\ at[d].to # w /\ at[d].to - at[d].from < LengthRange
           /\ n \in Nat /\ m \in Nat /\ n + 1 \in 1 .. Len(requests) /\ requests[n + 1].memory
           /\ at[d].from = requests[n + 1].from /\ at[d].to = at[d].from + requests[n + 1].length
           /\ m * WordBytes \in Nat /\ (m + 1) * WordBytes = m * WordBytes + WordBytes
           /\ at[d].from + m * WordBytes < at[d].to
           /\ w \in 1 .. BufferSize /\ WordBytes \in Nat \ {0}
  <1>1. d \in 1 .. Len(at) /\ n \in Nat /\ m \in Nat /\ OutType /\ n + 1 \in 1 .. Len(requests)
    BY LenProperties DEF Sent, OutType, Listed
  <1>2. /\ SpanOK(w, at[d]) /\ requests[at[d].idx].memory /\ at[d].to <= announced /\ at[d].to # w
        /\ at[d] \in Span
    BY <1>1, ElementOfSeq DEF Listed
  <1>3. PICK c \in Nat \ {0} : c = requests[n + 1].length /\ c \in Lengths
    BY <1>1, RequestIs
  <1>4. PICK f \in Nat, t \in Nat : f = at[d].from /\ t = at[d].to /\ t = f + c /\ f = requests[n + 1].from
    BY <1>2, <1>3 DEF Span, SpanOK
  <1>5. WordBytes \in Nat \ {0} /\ c < LengthRange /\ LengthRange \in Nat
    BY <1>3, ConstantFacts
  <1>6. m * WordBytes \in Nat /\ (m + 1) * WordBytes = m * WordBytes + WordBytes
    BY <1>1, <1>5
  <1>7. m * WordBytes < c
    BY <1>3 DEF Sent
  <1>8. f + m * WordBytes < t /\ t - f < LengthRange /\ f < t
    BY <1>3, <1>4, <1>5, <1>6, <1>7
  <1>9. w \in 1 .. BufferSize
    BY ChosenFacts
  <1> QED BY <1>1, <1>2, <1>3, <1>4, <1>5, <1>6, <1>8, <1>9

(* How the second answer completes the words of the first.                 *)
LEMMA FromMemoryFacts ==
    ASSUME MemoryConstants, NEW p \in Nat, NEW off \in 1 .. WordBytes - 1, NEW n \in Nat
    PROVE  align_words_from_memory(Bytes(p + off, n), Bytes(p, off), off) = Bytes(p, off + n)
  <1>1. WordBytes \in Nat \ {0}
    BY ConstantFacts
  <1>2. ASSUME NEW i \in Lanes
        PROVE (IF i < off THEN Bytes(p, off)[i] ELSE Bytes(p + off, n)[i - off]) = Bytes(p, off + n)[i]
    <2>1. i \in Int /\ off \in Nat /\ (~(i < off) => i - off \in Lanes)
      BY <1>1 DEF Lanes
    <2>2. CASE i < off
      <3>1. i < off + n
        BY <2>1, <2>2
      <3> QED BY <2>2, <3>1 DEF Bytes
    <2>3. CASE ~(i < off)
      <3>1. Bytes(p + off, n)[i - off] = IF i - off < n THEN (p + off) + (i - off) ELSE NoByte
        BY <2>1, <2>3 DEF Bytes
      <3>2. (i - off < n <=> i < off + n) /\ (p + off) + (i - off) = p + i
        BY <2>1
      <3>3. Bytes(p, off + n)[i] = IF i < off + n THEN p + i ELSE NoByte
        BY DEF Bytes
      <3> QED BY <2>3, <3>1, <3>2, <3>3
    <2> QED BY <2>2, <2>3
  <1>3. Bytes(p, off + n) = [i \in Lanes |-> Bytes(p, off + n)[i]]
    BY DEF Bytes
  <1> QED BY <1>2, <1>3 DEF align_words_from_memory

(* Whether a word reaches past the lanes that complete the one before.     *)
LEMMA BeyondIs ==
    ASSUME MemoryConstants, NEW p \in Nat, NEW n \in Nat, NEW l \in Lanes
    PROVE  Beyond(Bytes(p, n), l) <=> l < n
  <1>1. l \in Int /\ NoByte \notin Int
    BY ConstantFacts DEF Lanes
  <1> QED BY <1>1 DEF Beyond, Bytes

(* How the words of the second answer follow each other.                   *)
LEMMA ToMemoryFacts ==
    ASSUME MemoryConstants, NEW q \in Nat, NEW off \in 1 .. WordBytes - 1, NEW n \in Nat \ {0}
    PROVE  align_words_to_memory(Bytes(q + WordBytes, n), Bytes(q, WordBytes), off)
             = Bytes(q + off, (WordBytes - off) + n)
  <1>1. WordBytes \in Nat \ {0} /\ q + WordBytes \in Nat /\ off \in Nat /\ q + off \in Nat
    BY ConstantFacts
  <1>2. CASE n <= WordBytes
    <2>1. n \in 1 .. WordBytes
      BY <1>1, <1>2
    <2>2. align_words_to_memory(Bytes(q + WordBytes, n), Bytes(q, WordBytes), off)
            = Bytes(q + off, IF n > off THEN WordBytes ELSE WordBytes - off + n)
      BY <2>1, AlignFacts
    <2>3. CASE n > off
      <3>1. (WordBytes - off) + n >= WordBytes /\ (WordBytes - off) + n \in Nat
        BY <1>1, <2>3
      <3> QED BY <1>1, <2>2, <2>3, <3>1, BytesFull
    <2>4. CASE ~(n > off)
      BY <2>2, <2>4
    <2> QED BY <2>3, <2>4
  <1>3. CASE ~(n <= WordBytes)
    <2>1. Bytes(q + WordBytes, n) = Bytes(q + WordBytes, WordBytes)
      BY <1>1, <1>3, BytesFull
    <2>2. align_words_to_memory(Bytes(q + WordBytes, WordBytes), Bytes(q, WordBytes), off) = Bytes(q + off, WordBytes)
      <3>1. WordBytes \in 1 .. WordBytes /\ WordBytes > off
        BY <1>1
      <3> QED BY <3>1, AlignFacts
    <2>3. (WordBytes - off) + n >= WordBytes /\ (WordBytes - off) + n \in Nat
      BY <1>1, <1>3
    <2>4. Bytes(q + off, (WordBytes - off) + n) = Bytes(q + off, WordBytes)
      BY <1>1, <2>3, BytesFull
    <2> QED BY <2>1, <2>2, <2>4
  <1> QED BY <1>2, <1>3

(* What the aligner does not touch.                                        *)
LEMMA ListedSame ==
    ASSUME NEW w, NEW at, Listed(w, at), UNCHANGED <<announced, requests>>
    PROVE  Listed(w, at)'
  BY DEF Listed, SpanOK

LEMMA SplitSame ==
    ASSUME NEW w, NEW at, NEW d, NEW u, Split(w, at, d, u), UNCHANGED <<chosen, readCmds, breakdowns, splitter>>
    PROVE  Split(w, at, d, u)'
  <1>1. \A i, j : Part(i, j)' = Part(i, j)
    BY Frozen
  <1> QED BY <1>1 DEF Split

LEMMA ReadsSame ==
    ASSUME NEW w, NEW at, NEW u, NEW lab, NEW h, Reads(w, at, u, lab, h), UNCHANGED <<chosen, moverReads, splitter>>
    PROVE  Reads(w, at, u, lab, h)'
  <1>1. \A i, j : Part(i, j)' = Part(i, j)
    BY Frozen
  <1> QED BY <1>1 DEF Reads

(* The aligner's steps within a segment leave the bypass alone.            *)
LEMMA BypassMoves ==
    ASSUME NEW w, NEW E, NEW x, NEW n \in Nat, NEW m, NEW y, NEW bq, Bypassing(w, E, x, n, m, y, bq),
           UNCHANGED <<side, isBypass, bypass, requests, accepted>>,
           aligner.state # "NO_USE_DDR", aligner'.state # "NO_USE_DDR", NEW k, NEW l,
           (side = "tx" => Picked(n) = Picked(k)'), k = n \/ (k = n + 1 /\ requests[k].memory)
    PROVE  Bypassing(w, E, x, k, l, y, bq)'
  <1>1. CASE side # "tx"
    BY <1>1 DEF Bypassing
  <1>2. CASE side = "tx"
    <2>1. /\ isBypass \in Seq(BOOLEAN) /\ Len(requests) = Picked(n) + Len(isBypass)
          /\ \A i \in 1 .. Len(isBypass) : isBypass[i] <=> ~requests[Picked(n) + i].memory
          /\ bypass \in Seq(GoodWords(E, accepted)) /\ Chain(bypass, Lo, Hi, y, x)
          /\ bq \in Seq(Span) /\ Sorted(bq)
          /\ \A i \in 1 .. Len(bq) : /\ SpanOK(w, bq[i]) /\ Segment(E, bq[i].from, bq[i].to)
                                     /\ n < bq[i].idx /\ ~requests[bq[i].idx].memory
          /\ \A j \in n + 1 .. Len(requests) : ~requests[j].memory => \E i \in 1 .. Len(bq) : bq[i].idx = j
          /\ Chain(bq, BFrom, BTo, y, accepted)
      BY <1>2 DEF Bypassing
    <2>2. ASSUME NEW i \in 1 .. Len(bq) PROVE k < bq[i].idx
      <3>1. bq[i] \in Span /\ n < bq[i].idx /\ ~requests[bq[i].idx].memory
        BY <2>1, ElementOfSeq
      <3>2. bq[i].idx \in Nat
        BY <3>1 DEF Span
      <3> QED BY <3>1, <3>2
    <2>3. \A j \in k + 1 .. Len(requests) : j \in n + 1 .. Len(requests)
      <3>1. k \in Nat /\ n <= k
        OBVIOUS
      <3> QED BY <3>1
    <2>4. /\ isBypass' \in Seq(BOOLEAN) /\ Len(requests') = Picked(k)' + Len(isBypass')
          /\ \A i \in 1 .. Len(isBypass') : isBypass'[i] <=> ~requests'[Picked(k)' + i].memory
      BY <1>2, <2>1
    <2>5. GoodWords(E, accepted)' = GoodWords(E, accepted)
      OBVIOUS
    <2> QED BY <1>2, <2>1, <2>2, <2>3, <2>4, <2>5 DEF Bypassing, SpanOK
  <1> QED BY <1>1, <1>2

(* What the aligner leaves alone, and what it does in a read.              *)
AlignerFrame == UNCHANGED <<chosen, writing, gating, memory, readCmds, splitter, requests>>
ReaderFrame == AlignerFrame /\ UNCHANGED <<breakdowns, isBypass, bypass>>
ReaderStates == AlignerStates \ {"READ_BYPASS", "NO_USE_DDR", "READ_ACCESS"}

(* In the states of a read the aligner is in a read.                       *)
LEMMA IsReading ==
    ASSUME NEW w, NEW at, NEW d, NEW h, NEW n, NEW m, AlignerAt(w, at, d, h, n, m), aligner.state \in ReaderStates
    PROVE  Reading(w, at, d, h, n, m)
  BY DEF AlignerAt, ReaderStates, Waiting, Passing

LEMMA ReadingState ==
    ASSUME NEW w, NEW at, NEW d, NEW h, NEW n, NEW m, Reading(w, at, d, h, n, m)
    PROVE  aligner.state \in ReaderStates
  BY DEF Reading, Unbroken, Block0, Aligned, Merge, Block1, ExtraWord, ReaderStates, AlignerStates

(* A word of a read goes out, or is kept back.                             *)
LEMMA ReadGoes ==
    ASSUME NEW E, NEW x, NEW w, NEW at, NEW d, NEW u, NEW lab, NEW h, NEW n, NEW m, NEW y, NEW bq,
           RInv(E, x, w, at, d, u, lab, h, n, m, y, bq), Reading(w, at, d, h, n, m), ReaderFrame,
           NEW lab2, NEW h2, Reads(w, at, u, lab2, h2)', NEW m2, Reading(w, at, d, h2, n, m2)', AlignerType'
    PROVE  RInv(E, x, w, at, d, u, lab2, h2, n, m2, y, bq)'
  <1>1. /\ w = Wrap /\ Listed(w, at) /\ Split(w, at, d, u) /\ Bypassing(w, E, x, n, m, y, bq)
        /\ UNCHANGED <<chosen, side, announced, accepted, requests, readCmds, breakdowns, splitter, isBypass, bypass>>
    BY DEF RInv, ReaderFrame, AlignerFrame, writing, gating, chosen
  <1>2. Wrap' = Wrap
    BY <1>1, Frozen
  <1>3. Listed(w, at)' /\ Split(w, at, d, u)'
    BY <1>1, ListedSame, SplitSame
  <1>4. n \in Nat
    BY DEF Reading, Sent
  <1>5. aligner.state \notin {"NO_USE_DDR", "READ_BYPASS"} /\ aligner'.state \notin {"NO_USE_DDR", "READ_BYPASS"}
    <2>1. aligner.state \in ReaderStates
      BY ReadingState
    <2>2. aligner'.state \in ReaderStates
      BY DEF Reading, Unbroken, Block0, Aligned, Merge, Block1, ExtraWord, ReaderStates, AlignerStates
    <2> QED BY <2>1, <2>2 DEF ReaderStates
  <1>6. Picked(n)' = Picked(n)
    BY <1>5 DEF Picked
  <1>7. Bypassing(w, E, x, n, m2, y, bq)'
    BY <1>1, <1>4, <1>5, <1>6, BypassMoves
  <1>8. AlignerAt(w, at, d, h2, n, m2)'
    BY DEF AlignerAt
  <1> QED BY <1>1, <1>2, <1>3, <1>7, <1>8 DEF RInv

(* The last word of a read goes out.                                       *)
LEMMA ReadEnds ==
    ASSUME MemoryConstants, ChosenOK, announced \in Nat,
           NEW E, NEW x, NEW w, NEW at, NEW d, NEW u, NEW lab, NEW h, NEW n, NEW m, NEW y, NEW bq,
           RInv(E, x, w, at, d, u, lab, h, n, m, y, bq), Reading(w, at, d, h, n, m), ReaderFrame,
           NEW lab2, Reads(w, at, u, lab2, 2 * d + 2)', Done(n + 1)', AlignerType',
           aligner'.state = FirstState, fetched' = 0
    PROVE  RInv(E, x, w, at, d, u, lab2, 2 * d + 2, n + 1, m, y, bq)'
  <1>1. /\ w = Wrap /\ Listed(w, at) /\ Split(w, at, d, u) /\ Bypassing(w, E, x, n, m, y, bq)
        /\ UNCHANGED <<chosen, side, announced, accepted, requests, readCmds, breakdowns, splitter, isBypass, bypass>>
    BY DEF RInv, ReaderFrame, AlignerFrame, writing, gating, chosen
  <1>2. Wrap' = Wrap
    BY <1>1, Frozen
  <1>3. Listed(w, at)' /\ Split(w, at, d, u)'
    BY <1>1, ListedSame, SplitSame
  <1>4. d \in Nat /\ d # 0 /\ d <= Len(at) /\ at[d].idx = n + 1 /\ Sent(n, m) /\ After(at, d, n + 1)
    BY <1>1 DEF Reading, Split, After
  <1>5. n \in Nat /\ requests[n + 1].memory
    BY <1>1, <1>4, ReadFacts
  <1>6. aligner.state \notin {"NO_USE_DDR", "READ_BYPASS"}
    BY ReadingState DEF ReaderStates
  <1>7. aligner'.state = IF side = "tx" THEN "READ_BYPASS" ELSE "READ_ACCESS"
    BY DEF FirstState
  <1>8. side = "tx" => Picked(n + 1)' = Picked(n)
    BY <1>6, <1>7 DEF Picked
  <1>9. Bypassing(w, E, x, n + 1, m, y, bq)'
    <2>1. aligner'.state # "NO_USE_DDR"
      BY <1>7
    <2> QED BY <1>1, <1>5, <1>6, <1>8, <2>1, BypassMoves
  <1>10. Waiting(at, d, 2 * d + 2, n + 1)'
    <2>1. side' = side
      BY <1>1
    <2> QED BY <1>4, <1>7, <2>1 DEF Waiting
  <1>11. AlignerAt(w, at, d, 2 * d + 2, n + 1, m)'
    BY <1>10 DEF AlignerAt
  <1> QED BY <1>1, <1>2, <1>3, <1>9, <1>11 DEF RInv

(* The steps of the aligner: a word as it came ...                         *)
LEMMA RPassWord ==
    ASSUME MemoryConstants, ChosenOK, Stable,
           NEW E, NEW x, NEW w, NEW at, NEW d, NEW u, NEW lab, NEW h, NEW n, NEW m, NEW y, NEW bq,
           RInv(E, x, w, at, d, u, lab, h, n, m, y, bq), PassWord, AlignerFrame
    PROVE  \E lab2, h2, n2, m2 : RInv(E, x, w, at, d, u, lab2, h2, n2, m2, y, bq)'
  <1>1. /\ w = Wrap /\ Listed(w, at) /\ Reads(w, at, u, lab, h) /\ AlignerType /\ d \in Nat
        /\ aligner.state \in {"NO_BREAKDOWN", "BREAKDOWN_ALIGNED"} /\ announced \in Nat
    BY DEF RInv, AlignerAt, PassWord, Split, Stable
  <1>2. ReaderFrame /\ TakeAnswer /\ UNCHANGED <<chosen, splitter, requests>>
    BY DEF PassWord, TakeAnswer, ReaderFrame, AlignerFrame
  <1>3. Reading(w, at, d, h, n, m)
    <2>1. aligner.state \in ReaderStates
      BY <1>1 DEF ReaderStates, AlignerStates
    <2> QED BY <2>1, IsReading DEF RInv
  <1>4. d # 0 /\ d <= Len(at) /\ at[d].idx = n + 1 /\ Sent(n, m) /\ After(at, d, n + 1) /\ fetched \in Nat
    BY <1>3 DEF Reading, After
  <1>5a. /\ at[d].from \in Nat /\ at[d].to \in Nat /\ at[d].from < at[d].to
         /\ at[d].to <= announced /\ at[d].to # w
         /\ at[d].from = requests[n + 1].from /\ at[d].to = at[d].from + requests[n + 1].length
         /\ m * WordBytes \in Nat /\ (m + 1) * WordBytes = m * WordBytes + WordBytes
         /\ at[d].from + m * WordBytes < at[d].to /\ w \in 1 .. BufferSize
    BY <1>1, <1>4, ReadFacts
  <1>5. PICK f \in Nat, t \in Nat, r \in Nat :
           /\ f = at[d].from /\ t = at[d].to /\ r = m * WordBytes /\ (m + 1) * WordBytes = r + WordBytes
           /\ f + r < t /\ t <= announced /\ t # w /\ f < t
           /\ f = requests[n + 1].from /\ t = f + requests[n + 1].length /\ w \in 1 .. BufferSize
    BY <1>5a
  <1>6. PICK p \in Nat : p = f + r /\ p = at[d].from + m * WordBytes /\ p < t
    BY <1>5
  <1>7. Unbroken(w, f, t, p, d, h) \/ Aligned(w, f, t, p, d, h)
    BY <1>1, <1>3, <1>5, <1>6 DEF Reading, Block0, Merge, Block1, ExtraWord
  <1>8. PICK a \in Nat : /\ p = a + fetched /\ ~Cross(w, a, t)
                         /\ \/ h = 2 * d /\ a = f /\ ~Cross(w, f, t)
                            \/ h = 2 * d + 1 /\ a = w /\ Cross(w, f, t)
    BY <1>5, <1>7 DEF Unbroken, Aligned, Cross
  <1>9. /\ Head(moverReads) = Part(a, t) /\ lab # <<>> /\ Head(lab).next = 2 * d + 2
    <2>1. moverReads # <<>>
      BY <1>2 DEF TakeAnswer
    <2>2. h = 2 * d \/ h = 2 * d + 1
      BY <1>8
    <2>3. /\ lab # <<>>
          /\ h = 2 * d => /\ Head(moverReads) = Part(at[d].from, IF Cross(w, at[d].from, at[d].to) THEN w ELSE at[d].to)
                          /\ Head(lab).next = IF Cross(w, at[d].from, at[d].to) THEN 2 * d + 1 ELSE 2 * d + 2
          /\ h = 2 * d + 1 => Head(moverReads) = Part(w, at[d].to) /\ Head(lab).next = 2 * d + 2
      BY <1>1, <2>1, <2>2, HeadRead
    <2> QED BY <1>5, <1>8, <2>3
  <1>10. ~Crosses(a, t)
    BY <1>1, <1>8 DEF Cross, Crosses
  <1>11. Answer.data = Bytes(p, t - p) /\ Answer.last \in BOOLEAN /\ (Answer.last <=> t - p <= WordBytes)
    BY <1>4, <1>5, <1>6, <1>8, <1>9, <1>10, AnswerIs
  <1>12. IF Answer.last THEN Done(n + 1)' ELSE Sent(n, m + 1)'
    <2>1. Send(Answer.data, Answer.last)
      BY DEF PassWord
    <2>2. Answer.data = Bytes(f + m * WordBytes, t - (f + m * WordBytes)) /\ (Answer.last <=> t - (f + m * WordBytes) <= WordBytes)
      BY <1>5, <1>6, <1>11
    <2> QED BY <1>2, <1>4, <1>5, <1>11, <2>1, <2>2, SendFacts
  <1>13. IF Answer.last
           THEN Reads(w, at, u, Tail(lab), 2 * d + 2)' /\ fetched' = 0
           ELSE Reads(w, at, u, lab, h)' /\ fetched' = fetched + WordBytes
    <2>1. a + fetched < t /\ t - (a + fetched) = t - p
      BY <1>6, <1>8
    <2>2. IF t - (a + fetched) <= WordBytes
            THEN Reads(w, at, u, Tail(lab), 2 * d + 2)' /\ fetched' = 0
            ELSE Reads(w, at, u, lab, h)' /\ fetched' = fetched + WordBytes /\ a + fetched' < t
      BY <1>1, <1>2, <1>4, <1>5, <1>9, <1>10, <2>1, TakeRead
    <2> QED BY <1>11, <2>1, <2>2
  <1>14. aligner' = [aligner EXCEPT !.state = IF Answer.last THEN FirstState ELSE @]
    BY DEF PassWord
  <1>15. AlignerType'
    <2>1. FirstState \in AlignerStates
      BY DEF FirstState, AlignerStates
    <2> QED BY <1>1, <1>14, <2>1 DEF AlignerType
  <1>16. CASE Answer.last
    <2>1. aligner'.state = FirstState
      BY <1>1, <1>14, <1>16 DEF AlignerType
    <2>2. RInv(E, x, w, at, d, u, Tail(lab), 2 * d + 2, n + 1, m, y, bq)'
      BY <1>1, <1>2, <1>3, <1>12, <1>13, <1>15, <1>16, <2>1, ReadEnds
    <2> QED BY <2>2
  <1>17. CASE ~Answer.last
    <2>1. aligner' = aligner
      BY <1>1, <1>14, <1>17 DEF AlignerType
    <2>2. WordBytes \in Nat /\ fetched' \in Nat /\ f + (m + 1) * WordBytes = a + fetched'
      <3>1. WordBytes \in Nat /\ fetched \in Nat /\ fetched' = fetched + WordBytes
        BY <1>4, <1>13, <1>17, ConstantFacts
      <3>2. p = a + fetched /\ p = f + r /\ (m + 1) * WordBytes = r + WordBytes
        BY <1>5, <1>6, <1>8
      <3>3. fetched' \in Nat /\ f + (r + WordBytes) = a + fetched'
        BY <3>1, <3>2
      <3> QED BY <3>1, <3>2, <3>3
    <2>3. Unbroken(w, f, t, f + (m + 1) * WordBytes, d, h)' \/ Aligned(w, f, t, f + (m + 1) * WordBytes, d, h)'
      BY <1>7, <1>8, <2>1, <2>2 DEF Unbroken, Aligned
    <2>4. Reading(w, at, d, h, n, m + 1)'
      BY <1>4, <1>5, <1>12, <1>17, <2>2, <2>3 DEF Reading
    <2>5. RInv(E, x, w, at, d, u, lab, h, n, m + 1, y, bq)'
      BY <1>2, <1>3, <1>13, <1>15, <1>17, <2>4, ReadGoes
    <2> QED BY <2>5
  <1> QED BY <1>11, <1>16, <1>17

(* What came out stays when nothing goes out.                              *)
LEMMA SentSame ==
    ASSUME NEW n, NEW m, Sent(n, m), UNCHANGED <<requests, out>>
    PROVE  Sent(n, m)'
  BY DEF Sent, OutType, Complete, Asked

(* ... a word before the end of the buffer ...                             *)
LEMMA RFirstBlock ==
    ASSUME MemoryConstants, ChosenOK, Stable,
           NEW E, NEW x, NEW w, NEW at, NEW d, NEW u, NEW lab, NEW h, NEW n, NEW m, NEW y, NEW bq,
           RInv(E, x, w, at, d, u, lab, h, n, m, y, bq), FirstBlock, AlignerFrame
    PROVE  \E lab2, h2, n2, m2 : RInv(E, x, w, at, d, u, lab2, h2, n2, m2, y, bq)'
  <1>1. /\ w = Wrap /\ Listed(w, at) /\ Reads(w, at, u, lab, h) /\ AlignerType /\ d \in Nat
        /\ aligner.state = "BREAKDOWN_BLOCK_0" /\ announced \in Nat
    BY DEF RInv, AlignerAt, FirstBlock, Split, Stable
  <1>2. ReaderFrame /\ TakeAnswer /\ UNCHANGED <<chosen, splitter, requests>>
    BY DEF FirstBlock, TakeAnswer, ReaderFrame, AlignerFrame
  <1>3. Reading(w, at, d, h, n, m)
    <2>1. aligner.state \in ReaderStates
      BY <1>1 DEF ReaderStates, AlignerStates
    <2> QED BY <2>1, IsReading DEF RInv
  <1>4. d # 0 /\ d <= Len(at) /\ at[d].idx = n + 1 /\ Sent(n, m) /\ After(at, d, n + 1) /\ fetched \in Nat
    BY <1>3 DEF Reading, After
  <1>5a. /\ at[d].from \in Nat /\ at[d].to \in Nat /\ at[d].from < at[d].to
         /\ at[d].to <= announced /\ at[d].to # w
         /\ at[d].from = requests[n + 1].from /\ at[d].to = at[d].from + requests[n + 1].length
         /\ m * WordBytes \in Nat /\ (m + 1) * WordBytes = m * WordBytes + WordBytes
         /\ at[d].from + m * WordBytes < at[d].to /\ w \in 1 .. BufferSize /\ m \in Nat
    BY <1>1, <1>4, ReadFacts
  <1>5. PICK f \in Nat, t \in Nat, r \in Nat :
           /\ f = at[d].from /\ t = at[d].to /\ r = m * WordBytes /\ (m + 1) * WordBytes = r + WordBytes
           /\ f + r < t /\ t <= announced /\ t # w /\ f < t
           /\ f = requests[n + 1].from /\ t = f + requests[n + 1].length /\ w \in 1 .. BufferSize
    BY <1>5a
  <1>6. PICK p \in Nat : p = f + r /\ p = at[d].from + m * WordBytes /\ p < t
    BY <1>5
  <1>7. Block0(w, f, t, p, d, h)
    BY <1>1, <1>3, <1>5, <1>6 DEF Reading, Unbroken, Aligned, Merge, Block1, ExtraWord
  <1>8. /\ p = f + fetched /\ f < w /\ w < t /\ h = 2 * d /\ p < w /\ Cross(w, f, t) /\ ~Cross(w, f, w)
        /\ aligner.offset = (w - f) % WordBytes
    BY <1>5, <1>7 DEF Block0, Cross
  <1>9. Head(moverReads) = Part(f, w) /\ lab # <<>> /\ Head(lab).next = 2 * d + 1
    <2>1. moverReads # <<>>
      BY <1>2 DEF TakeAnswer
    <2>3. /\ lab # <<>>
          /\ Head(moverReads) = Part(at[d].from, IF Cross(w, at[d].from, at[d].to) THEN w ELSE at[d].to)
          /\ Head(lab).next = IF Cross(w, at[d].from, at[d].to) THEN 2 * d + 1 ELSE 2 * d + 2
      BY <1>1, <1>8, <2>1, HeadRead
    <2> QED BY <1>5, <1>8, <2>3
  <1>10. ~Crosses(f, w)
    BY <1>1, <1>5, <1>8 DEF Crosses
  <1>11. Answer.data = Bytes(p, w - p) /\ Answer.last \in BOOLEAN /\ (Answer.last <=> w - p <= WordBytes)
    <2>1. f + fetched < w /\ w <= announced /\ w \in Nat /\ w - (f + fetched) = w - p /\ f + fetched = p
      BY <1>1, <1>5, <1>8
    <2>2. /\ Answer.data = Bytes(f + fetched, w - (f + fetched))
          /\ Answer.last \in BOOLEAN /\ (Answer.last <=> w - (f + fetched) <= WordBytes)
      BY <1>4, <1>5, <1>9, <1>10, <2>1, AnswerIs
    <2> QED BY <2>1, <2>2
  <1>12. IF w - p <= WordBytes
           THEN Reads(w, at, u, Tail(lab), 2 * d + 1)' /\ fetched' = 0
           ELSE Reads(w, at, u, lab, h)' /\ fetched' = fetched + WordBytes /\ f + fetched' < w
    <2>1. f + fetched < w /\ w <= announced /\ w \in Nat /\ w - (f + fetched) = w - p
      BY <1>1, <1>5, <1>8
    <2>2. IF w - (f + fetched) <= WordBytes
            THEN Reads(w, at, u, Tail(lab), 2 * d + 1)' /\ fetched' = 0
            ELSE Reads(w, at, u, lab, h)' /\ fetched' = fetched + WordBytes /\ f + fetched' < w
      BY <1>1, <1>2, <1>4, <1>5, <1>9, <1>10, <2>1, TakeRead
    <2> QED BY <2>1, <2>2
  <1>13. WordBytes \in Nat \ {0} /\ Answer.data \in Data
    <2>1. w - p \in Int /\ p \in Int
      BY <1>5
    <2> QED BY <1>11, <2>1, BytesData, ConstantFacts
  <1>14. aligner.offset = IF w - p < WordBytes THEN w - p ELSE IF w - p = WordBytes THEN 0 ELSE aligner.offset
    <2>0. w - f \in Int /\ r \in Int /\ m \in Int
      BY <1>5, <1>5a
    <2>1. CASE w - p < WordBytes
      <3>1. w - p \in 0 .. WordBytes - 1 /\ w - f = WordBytes * m + (w - p)
        <4>1. WordBytes * m = r
          BY <1>5, <1>5a, <1>13
        <4> QED BY <1>5, <1>6, <1>8, <1>13, <2>1, <4>1
      <3>2. (w - f) % WordBytes = w - p
        BY <1>13, <2>0, <3>1, ModIs
      <3> QED BY <1>8, <2>1, <3>2
    <2>2. CASE w - p = WordBytes
      <3>1. 0 \in 0 .. WordBytes - 1 /\ w - f = WordBytes * (m + 1) + 0 /\ m + 1 \in Int
        <4>1. WordBytes * (m + 1) = r + WordBytes
          BY <1>5, <1>5a, <1>13
        <4> QED BY <1>5, <1>5a, <1>6, <1>8, <1>13, <2>2, <4>1
      <3>2. (w - f) % WordBytes = 0
        BY <1>13, <2>0, <3>1, ModIs
      <3>3. ~(w - p < WordBytes)
        BY <1>13, <2>2
      <3> QED BY <1>8, <2>2, <3>2, <3>3
    <2>3. CASE ~(w - p < WordBytes) /\ w - p # WordBytes
      BY <2>3
    <2> QED BY <2>1, <2>2, <2>3
  <1>15. w - p >= WordBytes => Answer.data = Bytes(p, t - p) /\ ~(t - p <= WordBytes)
    <2>1. SUFFICES ASSUME w - p >= WordBytes PROVE Answer.data = Bytes(p, t - p) /\ ~(t - p <= WordBytes)
      OBVIOUS
    <2>2. w - p \in Nat /\ t - p \in Nat /\ t - p >= WordBytes /\ ~(t - p <= WordBytes)
      BY <1>5, <1>8, <1>13, <2>1
    <2>3. Bytes(p, w - p) = Bytes(p, WordBytes) /\ Bytes(p, t - p) = Bytes(p, WordBytes)
      BY <2>1, <2>2, BytesFull
    <2> QED BY <1>11, <2>2, <2>3
  <1>16. w - p >= WordBytes /\ Send(Answer.data, FALSE) => Sent(n, m + 1)'
    <2>1. SUFFICES ASSUME w - p >= WordBytes, Send(Answer.data, FALSE) PROVE Sent(n, m + 1)'
      OBVIOUS
    <2>2. Answer.data = Bytes(f + m * WordBytes, t - (f + m * WordBytes)) /\ ~(t - (f + m * WordBytes) <= WordBytes)
      BY <1>5, <1>6, <1>15, <2>1
    <2>3. FALSE \in BOOLEAN /\ (FALSE <=> t - (f + m * WordBytes) <= WordBytes)
      BY <2>2
    <2>4. IF FALSE THEN Done(n + 1)' ELSE Sent(n, m + 1)'
      BY <1>2, <1>4, <1>5, <2>1, <2>2, <2>3, SendFacts
    <2> QED BY <2>4
  <1>17. CASE ~Answer.last
    <2>1. Send(Answer.data, FALSE) /\ aligner' = [aligner EXCEPT !.prev = Answer.data, !.state = aligner.state]
      BY <1>17 DEF FirstBlock
    <2>2. w - p >= WordBytes /\ ~(w - p <= WordBytes)
      BY <1>5, <1>11, <1>13, <1>17
    <2>3. AlignerType' /\ aligner'.state = "BREAKDOWN_BLOCK_0" /\ aligner'.offset = aligner.offset
      BY <1>1, <1>13, <2>1 DEF AlignerType
    <2>4. /\ Reads(w, at, u, lab, h)' /\ fetched' = fetched + WordBytes /\ f + fetched' < w /\ fetched' \in Nat
          /\ f + (m + 1) * WordBytes = f + fetched'
      <3>1. Reads(w, at, u, lab, h)' /\ fetched' = fetched + WordBytes /\ f + fetched' < w
        BY <1>12, <2>2
      <3>2. PICK i \in Nat : i = fetched /\ WordBytes \in Nat
        BY <1>4, <1>13
      <3>3. fetched' \in Nat /\ f + (r + WordBytes) = f + fetched'
        BY <1>5, <1>6, <1>8, <3>1, <3>2
      <3> QED BY <1>5, <3>1, <3>3
    <2>5. Block0(w, f, t, f + (m + 1) * WordBytes, d, h)'
      BY <1>8, <2>3, <2>4 DEF Block0
    <2>6. Reading(w, at, d, h, n, m + 1)'
      BY <1>4, <1>5, <1>16, <2>1, <2>2, <2>4, <2>5 DEF Reading
    <2>7. RInv(E, x, w, at, d, u, lab, h, n, m + 1, y, bq)'
      BY <1>2, <1>3, <2>3, <2>4, <2>6, ReadGoes
    <2> QED BY <2>7
  <1>18. CASE Answer.last /\ aligner.offset = 0
    <2>1. Send(Answer.data, FALSE) /\ aligner' = [aligner EXCEPT !.prev = Answer.data, !.state = "BREAKDOWN_ALIGNED"]
      BY <1>18 DEF FirstBlock
    <2>2. w - p = WordBytes
      <3>1. PICK k \in Nat : k = w - p /\ k # 0
        BY <1>5, <1>8
      <3>2. k <= WordBytes
        BY <1>11, <1>18, <3>1
      <3>3. ~(k < WordBytes)
        BY <1>14, <1>18, <3>1
      <3> QED BY <1>13, <3>1, <3>2, <3>3
    <2>3. AlignerType' /\ aligner'.state = "BREAKDOWN_ALIGNED"
      BY <1>1, <1>13, <2>1 DEF AlignerType, AlignerStates
    <2>4. Reads(w, at, u, Tail(lab), 2 * d + 1)' /\ fetched' = 0 /\ f + (m + 1) * WordBytes = w + fetched'
      BY <1>5, <1>6, <1>12, <1>13, <2>2
    <2>5. Aligned(w, f, t, f + (m + 1) * WordBytes, d, 2 * d + 1)'
      BY <1>8, <2>3, <2>4 DEF Aligned
    <2>6. Reading(w, at, d, 2 * d + 1, n, m + 1)'
      <3>1. w - p >= WordBytes /\ fetched' \in Nat
        BY <1>13, <2>2, <2>4
      <3> QED BY <1>4, <1>5, <1>16, <2>1, <2>4, <2>5, <3>1 DEF Reading
    <2>7. RInv(E, x, w, at, d, u, Tail(lab), 2 * d + 1, n, m + 1, y, bq)'
      BY <1>2, <1>3, <2>3, <2>4, <2>6, ReadGoes
    <2> QED BY <2>7
  <1>19. CASE Answer.last /\ aligner.offset # 0
    <2>1. UNCHANGED out /\ aligner' = [aligner EXCEPT !.prev = Answer.data, !.state = "FIRST_MERGE"]
      BY <1>19 DEF FirstBlock
    <2>2. w - p < WordBytes /\ aligner.offset = w - p
      BY <1>5, <1>8, <1>11, <1>13, <1>14, <1>19
    <2>3. /\ AlignerType' /\ aligner'.state = "FIRST_MERGE" /\ aligner'.offset = w - p
          /\ aligner'.prev = Bytes(p, w - p) /\ aligner'.offset # 0
      BY <1>1, <1>11, <1>13, <1>19, <2>1, <2>2 DEF AlignerType, AlignerStates
    <2>4. Reads(w, at, u, Tail(lab), 2 * d + 1)' /\ fetched' = 0 /\ p + (w - p) = w
      BY <1>5, <1>6, <1>12, <1>13, <2>2
    <2>5. Merge(w, f, t, p, d, 2 * d + 1)'
      BY <1>8, <2>3, <2>4 DEF Merge
    <2>6. Sent(n, m)'
      BY <1>2, <1>4, <2>1, SentSame
    <2>7. Reading(w, at, d, 2 * d + 1, n, m)'
      BY <1>4, <1>5, <1>6, <2>4, <2>5, <2>6 DEF Reading
    <2>8. RInv(E, x, w, at, d, u, Tail(lab), 2 * d + 1, n, m, y, bq)'
      BY <1>2, <1>3, <2>3, <2>4, <2>7, ReadGoes
    <2> QED BY <2>8
  <1> QED BY <1>11, <1>17, <1>18, <1>19

(* ... a word merged of two ...                                            *)
LEMMA RMergeWord ==
    ASSUME MemoryConstants, ChosenOK, Stable,
           NEW E, NEW x, NEW w, NEW at, NEW d, NEW u, NEW lab, NEW h, NEW n, NEW m, NEW y, NEW bq,
           RInv(E, x, w, at, d, u, lab, h, n, m, y, bq), FirstMerge \/ SecondBlock, AlignerFrame
    PROVE  \E lab2, h2, n2, m2 : RInv(E, x, w, at, d, u, lab2, h2, n2, m2, y, bq)'
  <1>1. /\ w = Wrap /\ Listed(w, at) /\ Reads(w, at, u, lab, h) /\ AlignerType /\ d \in Nat
        /\ aligner.state = "FIRST_MERGE" \/ aligner.state = "BREAKDOWN_BLOCK_1"
        /\ aligner.state = "FIRST_MERGE" => FirstMerge
        /\ aligner.state = "BREAKDOWN_BLOCK_1" => SecondBlock
        /\ announced \in Nat
    BY DEF RInv, AlignerAt, FirstMerge, SecondBlock, Split, Stable
  <1>2. ReaderFrame /\ TakeAnswer /\ UNCHANGED <<chosen, splitter, requests>>
    BY DEF FirstMerge, SecondBlock, TakeAnswer, ReaderFrame, AlignerFrame
  <1>3. Reading(w, at, d, h, n, m)
    <2>1. aligner.state \in ReaderStates
      BY <1>1 DEF ReaderStates, AlignerStates
    <2> QED BY <2>1, IsReading DEF RInv
  <1>4. d # 0 /\ d <= Len(at) /\ at[d].idx = n + 1 /\ Sent(n, m) /\ After(at, d, n + 1) /\ fetched \in Nat
    BY <1>3 DEF Reading, After
  <1>5a. /\ at[d].from \in Nat /\ at[d].to \in Nat /\ at[d].from < at[d].to
         /\ at[d].to <= announced /\ at[d].to # w
         /\ at[d].from = requests[n + 1].from /\ at[d].to = at[d].from + requests[n + 1].length
         /\ m * WordBytes \in Nat /\ (m + 1) * WordBytes = m * WordBytes + WordBytes
         /\ at[d].from + m * WordBytes < at[d].to /\ w \in 1 .. BufferSize
    BY <1>1, <1>4, ReadFacts
  <1>5. PICK f \in Nat, t \in Nat, r \in Nat :
           /\ f = at[d].from /\ t = at[d].to /\ r = m * WordBytes /\ (m + 1) * WordBytes = r + WordBytes
           /\ f + r < t /\ t <= announced /\ t # w /\ f < t
           /\ f = requests[n + 1].from /\ t = f + requests[n + 1].length /\ w \in 1 .. BufferSize
    BY <1>5a
  <1>6. PICK p \in Nat : p = f + r /\ p = at[d].from + m * WordBytes /\ p < t
    BY <1>5
  <1>7. /\ aligner.state = "FIRST_MERGE" => Merge(w, f, t, p, d, h)
        /\ aligner.state = "BREAKDOWN_BLOCK_1" => Block1(w, f, t, p, d, h)
    BY <1>3, <1>5, <1>6 DEF Reading, Unbroken, Block0, Aligned, Merge, Block1, ExtraWord
  <1>8. WordBytes \in Nat \ {0} /\ aligner.offset \in 0 .. WordBytes - 1
    BY <1>1, ConstantFacts DEF AlignerType, Lanes
  <1>9. PICK off \in 1 .. WordBytes - 1 :
           off = aligner.offset /\ h = 2 * d + 1 /\ Cross(w, f, t) /\ p + off = w + fetched /\ w + fetched < t
    <2>1. /\ aligner.offset # 0 /\ h = 2 * d + 1 /\ Cross(w, f, t) /\ p + aligner.offset = w + fetched
          /\ w + fetched < t
      <3>1. CASE aligner.state = "FIRST_MERGE"
        <4>1. w + fetched = w
          BY <1>5, <1>7, <3>1 DEF Merge
        <4> QED BY <1>7, <3>1, <4>1 DEF Merge, Cross
      <3>2. CASE aligner.state = "BREAKDOWN_BLOCK_1"
        BY <1>7, <3>2 DEF Block1
      <3> QED BY <1>1, <3>1, <3>2
    <2> QED BY <1>8, <2>1
  <1>10. PICK q \in Nat, c \in Nat \ {0} : q = w + fetched /\ c = t - q /\ t - p = off + c /\ p + off = q
    <2>1. PICK i \in Nat, j \in Nat : i = fetched /\ j = w /\ p + off = j + i /\ j + i < t
      BY <1>4, <1>5, <1>9
    <2>2. j + i \in Nat /\ t - (j + i) \in Nat \ {0} /\ t - p = off + (t - (j + i))
      BY <1>5, <1>6, <2>1
    <2> QED BY <2>1, <2>2
  <1>11. Head(moverReads) = Part(w, t) /\ lab # <<>> /\ Head(lab).next = 2 * d + 2
    <2>1. moverReads # <<>>
      BY <1>2 DEF TakeAnswer
    <2>3. /\ lab # <<>> /\ Head(moverReads) = Part(w, at[d].to) /\ Head(lab).next = 2 * d + 2
      BY <1>1, <1>9, <2>1, HeadRead
    <2> QED BY <1>5, <2>3
  <1>12. ~Crosses(w, t) /\ w \in Nat
    BY <1>1, <1>5 DEF Crosses
  <1>13. Answer.data = Bytes(q, c) /\ Answer.last \in BOOLEAN /\ (Answer.last <=> c <= WordBytes)
    <2>1. /\ Answer.data = Bytes(w + fetched, t - (w + fetched))
          /\ Answer.last \in BOOLEAN /\ (Answer.last <=> t - (w + fetched) <= WordBytes)
      BY <1>4, <1>5, <1>9, <1>11, <1>12, AnswerIs
    <2> QED BY <1>10, <2>1
  <1>14. IF c <= WordBytes
           THEN Reads(w, at, u, Tail(lab), 2 * d + 2)' /\ fetched' = 0
           ELSE Reads(w, at, u, lab, h)' /\ fetched' = fetched + WordBytes /\ w + fetched' < t
    <2>1. IF t - (w + fetched) <= WordBytes
            THEN Reads(w, at, u, Tail(lab), 2 * d + 2)' /\ fetched' = 0
            ELSE Reads(w, at, u, lab, h)' /\ fetched' = fetched + WordBytes /\ w + fetched' < t
      <3>1. t <= announced /\ fetched \in Nat /\ Head(lab).next = 2 * d + 2 /\ t \in Nat
        BY <1>4, <1>5, <1>11
      <3>2. PICK a \in Nat : /\ a = w /\ ~Crosses(a, t) /\ a + fetched < t
                            /\ Head(moverReads) = Part(a, t)
        BY <1>9, <1>11, <1>12
      <3>3. IF t - (a + fetched) <= WordBytes
              THEN Reads(w, at, u, Tail(lab), 2 * d + 2)' /\ fetched' = 0
              ELSE Reads(w, at, u, lab, h)' /\ fetched' = fetched + WordBytes /\ a + fetched' < t
        <4>1. Reads(w, at, u, lab, h) /\ TakeAnswer /\ UNCHANGED <<chosen, splitter>>
          BY <1>1, <1>2
        <4>2. PICK v : v = 2 * d + 2 /\ Head(lab).next = v
          BY <3>1
        <4>3. IF t - (a + fetched) <= WordBytes
                THEN Reads(w, at, u, Tail(lab), v)' /\ fetched' = 0
                ELSE Reads(w, at, u, lab, h)' /\ fetched' = fetched + WordBytes /\ a + fetched' < t
          BY <4>1, <4>2, <3>1, <3>2, TakeRead
        <4> QED BY <4>2, <4>3
      <3> QED BY <3>2, <3>3
    <2> QED BY <1>10, <2>1
  <1>15. OffsetBlock1 = WordBytes - off /\ WordBytes - off \in 1 .. WordBytes - 1 /\ WordBytes - off \in Lanes
    BY <1>8, <1>9 DEF OffsetBlock1, Lanes
  <1>16. MergeWord(Bytes(p, t - p), Answer)
    <2>1. CASE aligner.state = "FIRST_MERGE"
      <3>1. aligner.prev = Bytes(p, off) /\ FirstMerge
        BY <1>1, <1>7, <1>9, <2>1 DEF Merge
      <3>2. align_words_from_memory(Bytes(p + off, c), Bytes(p, off), off) = Bytes(p, off + c)
        BY <1>10, FromMemoryFacts
      <3> QED BY <1>9, <1>10, <1>13, <3>1, <3>2 DEF FirstMerge
    <2>2. CASE aligner.state = "BREAKDOWN_BLOCK_1"
      <3>1. aligner.prev = Bytes(w + fetched - WordBytes, WordBytes) /\ SecondBlock /\ fetched >= WordBytes
        BY <1>1, <1>7, <2>2 DEF Block1
      <3>2. PICK s \in Nat : s = q - WordBytes /\ s = w + fetched - WordBytes /\ q = s + WordBytes
        BY <1>4, <1>8, <1>10, <1>12, <3>1
      <3>3. align_words_to_memory(Bytes(s + WordBytes, c), Bytes(s, WordBytes), WordBytes - off)
              = Bytes(s + (WordBytes - off), (WordBytes - (WordBytes - off)) + c)
        BY <1>15, ToMemoryFacts
      <3>4. s + (WordBytes - off) = p /\ (WordBytes - (WordBytes - off)) + c = t - p
        BY <1>8, <1>9, <1>10, <3>2
      <3> QED BY <1>13, <1>15, <3>1, <3>2, <3>3, <3>4 DEF SecondBlock
    <2> QED BY <1>1, <2>1, <2>2
  <1>17. Beyond(Answer.data, OffsetBlock1) <=> WordBytes - off < c
    BY <1>13, <1>15, BeyondIs
  <1>18. PICK extra \in BOOLEAN : /\ extra <=> c <= WordBytes /\ WordBytes - off < c
                                  /\ Send(Bytes(p, t - p), Answer.last /\ ~extra)
                                  /\ aligner' = [aligner EXCEPT !.prev = Answer.data,
                                                   !.state = IF extra THEN "EXTRA_DATA"
                                                             ELSE IF Answer.last THEN FirstState ELSE "BREAKDOWN_BLOCK_1"]
    <2>1. PICK extra \in BOOLEAN : extra = (Answer.last /\ Beyond(Answer.data, OffsetBlock1))
      OBVIOUS
    <2>2. extra <=> c <= WordBytes /\ WordBytes - off < c
      BY <1>13, <1>17, <2>1
    <2> QED BY <1>16, <2>1, <2>2 DEF MergeWord
  <1>19. PICK last \in BOOLEAN : last = (Answer.last /\ ~extra) /\ (last <=> t - p <= WordBytes)
    <2>1. PICK last \in BOOLEAN : last = (Answer.last /\ ~extra)
      OBVIOUS
    <2>2. Answer.last /\ ~extra <=> t - p <= WordBytes
      BY <1>8, <1>9, <1>10, <1>13, <1>18
    <2> QED BY <2>1, <2>2
  <1>20. IF last THEN Done(n + 1)' ELSE Sent(n, m + 1)'
    <2>1. Send(Bytes(p, t - p), last)
      BY <1>18, <1>19
    <2>2. /\ Bytes(p, t - p) = Bytes(f + m * WordBytes, t - (f + m * WordBytes))
          /\ last <=> t - (f + m * WordBytes) <= WordBytes
      BY <1>5, <1>6, <1>19
    <2> QED BY <1>2, <1>4, <1>5, <2>1, <2>2, SendFacts
  <1>21. Answer.data \in Data /\ FirstState \in AlignerStates
    <2>1. q \in Int /\ c \in Int
      BY <1>10
    <2> QED BY <1>13, <2>1, BytesData DEF FirstState, AlignerStates
  <1>22. AlignerType' /\ aligner'.offset = off /\ aligner'.prev = Bytes(q, c)
    BY <1>1, <1>9, <1>13, <1>18, <1>21 DEF AlignerType, AlignerStates
  <1>23. f + (m + 1) * WordBytes = p + WordBytes /\ p + WordBytes \in Nat
    BY <1>5, <1>6, <1>8
  <1>24. CASE extra
    <2>1. c <= WordBytes /\ WordBytes - off < c /\ ~last /\ aligner'.state = "EXTRA_DATA"
      BY <1>1, <1>18, <1>19, <1>24 DEF AlignerType
    <2>2. /\ p + WordBytes = q + (WordBytes - off) /\ p + WordBytes < t /\ t - q <= WordBytes /\ t - q = c
      BY <1>8, <1>9, <1>10, <2>1
    <2>3. Reads(w, at, u, Tail(lab), 2 * d + 2)' /\ fetched' = 0
      BY <1>14, <2>1
    <2>4. ExtraWord(w, f, t, p + WordBytes, d, 2 * d + 2)'
      <3>1. aligner'.offset # 0
        BY <1>9, <1>22
      <3> QED BY <1>10, <1>22, <2>1, <2>2, <2>3, <3>1 DEF ExtraWord
    <2>5. Reading(w, at, d, 2 * d + 2, n, m + 1)'
      BY <1>4, <1>5, <1>20, <1>23, <2>1, <2>3, <2>4 DEF Reading
    <2>6. RInv(E, x, w, at, d, u, Tail(lab), 2 * d + 2, n, m + 1, y, bq)'
      BY <1>2, <1>3, <1>22, <2>3, <2>5, ReadGoes
    <2> QED BY <2>6
  <1>25. CASE ~extra /\ Answer.last
    <2>1. c <= WordBytes /\ last /\ aligner'.state = FirstState
      BY <1>1, <1>13, <1>18, <1>19, <1>25 DEF AlignerType
    <2>2. RInv(E, x, w, at, d, u, Tail(lab), 2 * d + 2, n + 1, m, y, bq)'
      BY <1>1, <1>2, <1>3, <1>14, <1>20, <1>22, <2>1, ReadEnds
    <2> QED BY <2>2
  <1>26. CASE ~extra /\ ~Answer.last
    <2>1. ~(c <= WordBytes) /\ ~last /\ aligner'.state = "BREAKDOWN_BLOCK_1"
      BY <1>1, <1>13, <1>18, <1>19, <1>26 DEF AlignerType
    <2>2. Reads(w, at, u, lab, h)' /\ fetched' = fetched + WordBytes /\ w + fetched' < t
      BY <1>14, <2>1
    <2>3. PICK i \in Nat : i = fetched' /\ i >= WordBytes /\ p + WordBytes + off = w + i /\ w + i - WordBytes = q
      <3>1. PICK j \in Nat, v \in Nat : j = fetched /\ v = w /\ p + off = v + j /\ q = v + j
        BY <1>4, <1>9, <1>10, <1>12
      <3>2. /\ j + WordBytes \in Nat /\ j + WordBytes >= WordBytes
            /\ p + WordBytes + off = v + (j + WordBytes) /\ v + (j + WordBytes) - WordBytes = q
        BY <1>8, <1>9, <3>1
      <3> QED BY <2>2, <3>1, <3>2
    <2>4. Bytes(q, c) = Bytes(q, WordBytes)
      BY <1>8, <1>10, <2>1, BytesFull
    <2>5. Block1(w, f, t, p + WordBytes, d, h)'
      <3>1. aligner'.offset # 0
        BY <1>9, <1>22
      <3> QED BY <1>9, <1>22, <2>1, <2>2, <2>3, <2>4, <3>1 DEF Block1
    <2>6. Reading(w, at, d, h, n, m + 1)'
      BY <1>4, <1>5, <1>20, <1>23, <2>1, <2>3, <2>5 DEF Reading
    <2>7. RInv(E, x, w, at, d, u, lab, h, n, m + 1, y, bq)'
      BY <1>2, <1>3, <1>22, <2>2, <2>6, ReadGoes
    <2> QED BY <2>7
  <1> QED BY <1>13, <1>18, <1>24, <1>25, <1>26

(* ... the lanes left over at the end ...                                  *)
LEMMA RExtraData ==
    ASSUME MemoryConstants, ChosenOK, Stable,
           NEW E, NEW x, NEW w, NEW at, NEW d, NEW u, NEW lab, NEW h, NEW n, NEW m, NEW y, NEW bq,
           RInv(E, x, w, at, d, u, lab, h, n, m, y, bq), ExtraData, AlignerFrame
    PROVE  \E lab2, h2, n2, m2 : RInv(E, x, w, at, d, u, lab2, h2, n2, m2, y, bq)'
  <1>1. /\ w = Wrap /\ Listed(w, at) /\ Reads(w, at, u, lab, h) /\ AlignerType /\ d \in Nat
        /\ aligner.state = "EXTRA_DATA" /\ announced \in Nat
    BY DEF RInv, AlignerAt, ExtraData, Split, Stable
  <1>2. ReaderFrame /\ UNCHANGED <<chosen, splitter, requests, moverReads, fetched>>
    BY DEF ExtraData, ReaderFrame, AlignerFrame
  <1>3. Reading(w, at, d, h, n, m)
    <2>1. aligner.state \in ReaderStates
      BY <1>1 DEF ReaderStates, AlignerStates
    <2> QED BY <2>1, IsReading DEF RInv
  <1>4. d # 0 /\ d <= Len(at) /\ at[d].idx = n + 1 /\ Sent(n, m) /\ After(at, d, n + 1) /\ fetched \in Nat
    BY <1>3 DEF Reading, After
  <1>5a. /\ at[d].from \in Nat /\ at[d].to \in Nat /\ at[d].from < at[d].to
         /\ at[d].from = requests[n + 1].from /\ at[d].to = at[d].from + requests[n + 1].length
         /\ m * WordBytes \in Nat /\ at[d].from + m * WordBytes < at[d].to
    BY <1>1, <1>4, ReadFacts
  <1>5. PICK f \in Nat, t \in Nat, r \in Nat :
           /\ f = at[d].from /\ t = at[d].to /\ r = m * WordBytes /\ f + r < t
           /\ f = requests[n + 1].from /\ t = f + requests[n + 1].length
    BY <1>5a
  <1>6. PICK p \in Nat : p = f + r /\ p = at[d].from + m * WordBytes /\ p < t
    BY <1>5
  <1>7. ExtraWord(w, f, t, p, d, h)
    BY <1>1, <1>3, <1>5, <1>6 DEF Reading, Unbroken, Block0, Aligned, Merge, Block1
  <1>8. WordBytes \in Nat \ {0} /\ aligner.offset \in 0 .. WordBytes - 1
    BY <1>1, ConstantFacts DEF AlignerType, Lanes
  <1>9. PICK off \in 1 .. WordBytes - 1 : off = aligner.offset
    BY <1>7, <1>8 DEF ExtraWord
  <1>10. PICK q \in Nat : /\ p = q + (WordBytes - off) /\ p < t /\ t - q <= WordBytes
                          /\ aligner.prev = Bytes(q, t - q)
    BY <1>7, <1>9 DEF ExtraWord
  <1>11. h = 2 * d + 2 /\ fetched = 0
    BY <1>7 DEF ExtraWord
  <1>12. PICK c \in 1 .. WordBytes : c = t - p /\ t - q = (WordBytes - off) + c /\ (WordBytes - off) + c <= WordBytes
    BY <1>5, <1>6, <1>8, <1>9, <1>10
  <1>13. align_words_to_memory(Empty, aligner.prev, OffsetBlock1) = Bytes(p, t - p)
    <2>1. WordBytes - off \in 1 .. WordBytes - 1 /\ OffsetBlock1 = WordBytes - off
      BY <1>8, <1>9 DEF OffsetBlock1
    <2>2. align_words_to_memory(Empty, Bytes(q, (WordBytes - off) + c), WordBytes - off) = Bytes(q + (WordBytes - off), c)
      BY <1>12, <2>1, AlignFacts
    <2> QED BY <1>10, <1>12, <2>1, <2>2
  <1>14. Done(n + 1)'
    <2>1. Send(Bytes(p, t - p), TRUE)
      BY <1>13 DEF ExtraData
    <2>2. t - p <= WordBytes
      BY <1>8, <1>12
    <2>3. /\ Bytes(p, t - p) = Bytes(f + m * WordBytes, t - (f + m * WordBytes))
          /\ TRUE <=> t - (f + m * WordBytes) <= WordBytes
      BY <1>5, <1>6, <2>2
    <2>4. IF TRUE THEN Done(n + 1)' ELSE Sent(n, m + 1)'
      BY <1>2, <1>4, <1>5, <2>1, <2>3, SendFacts
    <2> QED BY <2>4
  <1>15. AlignerType' /\ aligner'.state = FirstState
    <2>1. FirstState \in AlignerStates /\ aligner' = [aligner EXCEPT !.state = FirstState]
      BY DEF FirstState, AlignerStates, ExtraData
    <2> QED BY <1>1, <2>1 DEF AlignerType
  <1>16. Reads(w, at, u, lab, 2 * d + 2)'
    BY <1>1, <1>2, <1>11, ReadsSame
  <1>17. RInv(E, x, w, at, d, u, lab, 2 * d + 2, n + 1, m, y, bq)'
    BY <1>1, <1>2, <1>3, <1>11, <1>14, <1>15, <1>16, ReadEnds
  <1> QED BY <1>17

(* The aligner turns to the next read.                                     *)
LEMMA NextRead ==
    ASSUME NEW w, NEW at, Listed(w, at), NEW d \in Nat, NEW n \in Nat, After(at, d, n), d + 1 <= Len(at),
           n + 1 <= Len(requests), requests[n + 1].memory, requests \in Seq(Requests)
    PROVE  at[d + 1].idx = n + 1 /\ After(at, d + 1, n + 1)
  <1>1. Len(at) \in Nat /\ Len(requests) \in Nat /\ n + 1 \in 1 .. Len(requests) /\ d + 1 \in 1 .. Len(at)
    BY LenProperties DEF Listed
  <1>2. \A i \in 1 .. Len(at) : at[i].idx \in Nat
    <2>1. \A i \in 1 .. Len(at) : at[i] \in Span
      BY ElementOfSeq DEF Listed
    <2> QED BY <2>1 DEF Span
  <1>3. PICK i \in 1 .. Len(at) : at[i].idx = n + 1
    BY <1>1 DEF Listed
  <1>4. i > d
    BY <1>1, <1>3 DEF After
  <1>5. ~(at[d + 1].idx <= n)
    BY <1>1 DEF After
  <1>6. ~(d + 1 < i)
    <2>1. d + 1 < i => at[d + 1].idx < at[i].idx
      BY <1>1 DEF Listed, Sorted
    <2> QED BY <1>1, <1>2, <1>3, <1>5, <2>1
  <1>7. i = d + 1
    BY <1>1, <1>4, <1>6
  <1>8. ASSUME NEW j \in 1 .. Len(at) PROVE at[j].idx <= n + 1 <=> j <= d + 1
    <2>1. CASE j <= d
      BY <1>1, <1>2, <2>1 DEF After
    <2>2. CASE j = d + 1
      BY <1>3, <1>7, <2>2
    <2>3. CASE j > d + 1
      <3>1. at[d + 1].idx < at[j].idx
        BY <1>1, <2>3 DEF Listed, Sorted
      <3> QED BY <1>2, <1>3, <1>7, <2>3, <3>1
    <2> QED BY <1>1, <2>1, <2>2, <2>3
  <1> QED BY <1>1, <1>3, <1>7, <1>8 DEF After

(* ... and the next read is begun.                                         *)
LEMMA RReadAccess ==
    ASSUME MemoryConstants, ChosenOK, Stable,
           NEW E, NEW x, NEW w, NEW at, NEW d, NEW u, NEW lab, NEW h, NEW n, NEW m, NEW y, NEW bq,
           RInv(E, x, w, at, d, u, lab, h, n, m, y, bq), ReadAccess, AlignerFrame
    PROVE  RInv(E, x, w, at, d + 1, u, lab, h, n, 0, y, bq)'
  <1>1. /\ w = Wrap /\ Listed(w, at) /\ Split(w, at, d, u) /\ Reads(w, at, u, lab, h) /\ AlignerType
        /\ AlignerAt(w, at, d, h, n, m) /\ Bypassing(w, E, x, n, m, y, bq) /\ d \in Nat /\ announced \in Nat
        /\ aligner.state = "READ_ACCESS" /\ breakdowns # <<>> /\ breakdowns' = Tail(breakdowns)
        /\ aligner' = [aligner EXCEPT !.offset = Head(breakdowns).offset,
                         !.state = IF Head(breakdowns).double THEN "BREAKDOWN_BLOCK_0" ELSE "NO_BREAKDOWN"]
    BY DEF RInv, AlignerAt, ReadAccess, Split, Stable
  <1>2. UNCHANGED <<chosen, side, announced, accepted, readCmds, splitter, requests, moverReads, fetched, isBypass, bypass, out>>
    BY DEF ReadAccess, AlignerFrame, writing, gating, chosen
  <1>3. Waiting(at, d, h, n)
    BY <1>1 DEF AlignerAt, Passing, Reading, Unbroken, Block0, Aligned, Merge, Block1, ExtraWord
  <1>4. n \in Nat /\ OutType /\ n <= Len(requests) /\ Done(n) /\ h = 2 * d + 2 /\ fetched = 0 /\ After(at, d, n)
    BY <1>3 DEF Waiting, Done
  <1>5. /\ breakdowns \in Seq([double : BOOLEAN, offset : Lanes]) /\ readCmds \in Seq(Cmds)
        /\ u = d + Len(breakdowns) /\ Len(at) = u + Len(readCmds) /\ u \in Nat
        /\ Len(readCmds) \in Nat /\ Len(breakdowns) \in Nat \ {0}
        /\ Head(breakdowns) = breakdowns[1] /\ Len(breakdowns') = Len(breakdowns) - 1
        /\ breakdowns' \in Seq([double : BOOLEAN, offset : Lanes])
        /\ \A i \in 1 .. Len(breakdowns) - 1 : breakdowns'[i] = breakdowns[i + 1]
        /\ Head(breakdowns) \in [double : BOOLEAN, offset : Lanes]
    <2>1. /\ breakdowns \in Seq([double : BOOLEAN, offset : Lanes]) /\ readCmds \in Seq(Cmds)
          /\ u = d + Len(breakdowns) /\ Len(at) = u + Len(readCmds) /\ u \in Nat
      BY <1>1 DEF Split
    <2>2. Len(readCmds) \in Nat
      BY <2>1, LenProperties
    <2>3. /\ Len(breakdowns) \in Nat \ {0} /\ Head(breakdowns) = breakdowns[1]
          /\ Len(Tail(breakdowns)) = Len(breakdowns) - 1
          /\ Tail(breakdowns) \in Seq([double : BOOLEAN, offset : Lanes])
          /\ \A i \in 1 .. Len(breakdowns) - 1 : Tail(breakdowns)[i] = breakdowns[i + 1]
          /\ Head(breakdowns) \in [double : BOOLEAN, offset : Lanes]
      BY <1>1, <2>1, TailFacts
    <2> QED BY <1>1, <2>1, <2>2, <2>3
  <1>6. d + 1 \in 1 .. Len(at) /\ d + 1 \in Nat /\ d + 1 # 0
    BY <1>1, <1>5
  <1>7. n + 1 \in 1 .. Len(requests) /\ requests[n + 1].memory /\ requests \in Seq(Requests)
    <2>0. Len(requests) \in Nat /\ requests \in Seq(Requests)
      BY <1>4, LenProperties DEF OutType
    <2>1. CASE side = "tx"
      BY <1>1, <1>3, <1>4, <2>0, <2>1 DEF Waiting
    <2>2. CASE side # "tx"
      <3>1. at[d + 1].idx \in 1 .. Len(requests)
        BY <1>1, <1>6 DEF Listed, SpanOK
      <3>2. ~(at[d + 1].idx <= n)
        BY <1>1, <1>4, <1>6 DEF After
      <3>3. n + 1 \in 1 .. Len(requests)
        BY <1>4, <2>0, <3>1, <3>2
      <3> QED BY <1>1, <2>0, <2>2, <3>3 DEF Bypassing
    <2> QED BY <2>1, <2>2
  <1>8. at[d + 1].idx = n + 1 /\ After(at, d + 1, n + 1)
    BY <1>1, <1>4, <1>6, <1>7, NextRead
  <1>9. Sent(n, 0)
    BY <1>4, <1>7, DoneSent
  <1>10. Sent(n, 0)'
    BY <1>2, <1>9, SentSame
  <1>11a. /\ at[d + 1].from \in Nat /\ at[d + 1].to \in Nat /\ at[d + 1].from < at[d + 1].to
          /\ w \in 1 .. BufferSize /\ WordBytes \in Nat
    <2>1. PICK v \in Nat : v = d + 1 /\ v # 0 /\ v <= Len(at) /\ at[v].idx = n + 1
      BY <1>6, <1>8
    <2> QED BY <1>1, <1>9, <2>1, ReadFacts
  <1>11. PICK f \in Nat, t \in Nat : f = at[d + 1].from /\ t = at[d + 1].to /\ f < t
    BY <1>11a
  <1>12. PICK e \in [double : BOOLEAN, offset : Lanes] :
            /\ e = Head(breakdowns) /\ (e.double <=> Cross(w, f, t))
            /\ Cross(w, f, t) => e.offset = (w - f) % WordBytes
    <2>1. 1 \in 1 .. Len(breakdowns)
      BY <1>5
    <2> QED BY <1>1, <1>5, <1>11, <2>1 DEF Split
  <1>13. /\ AlignerType' /\ aligner'.offset = e.offset
         /\ aligner'.state = IF e.double THEN "BREAKDOWN_BLOCK_0" ELSE "NO_BREAKDOWN"
    BY <1>1, <1>12 DEF AlignerType, AlignerStates
  <1>14. f + 0 * WordBytes = f /\ fetched' = 0 /\ h = 2 * (d + 1)
    BY <1>1, <1>2, <1>4, <1>11, <1>11a
  <1>15. Reading(w, at, d + 1, h, n, 0)'
    <2>1. CASE Cross(w, f, t)
      <3>1. aligner'.state = "BREAKDOWN_BLOCK_0" /\ aligner'.offset = (w - f) % WordBytes
        BY <1>12, <1>13, <2>1
      <3>2. f = f + fetched' /\ f < w
        BY <1>11, <1>14, <2>1 DEF Cross
      <3>3. Block0(w, f, t, f, d + 1, h)'
        BY <1>14, <2>1, <3>1, <3>2 DEF Block0
      <3> QED BY <1>6, <1>8, <1>10, <1>11, <1>14, <3>3 DEF Reading
    <2>2. CASE ~Cross(w, f, t)
      <3>1. aligner'.state = "NO_BREAKDOWN"
        BY <1>12, <1>13, <2>2
      <3>2. f = f + fetched'
        BY <1>11, <1>14
      <3>3. Unbroken(w, f, t, f, d + 1, h)'
        BY <1>14, <2>2, <3>1, <3>2 DEF Unbroken
      <3> QED BY <1>6, <1>8, <1>10, <1>11, <1>14, <3>3 DEF Reading
    <2> QED BY <2>1, <2>2
  <1>16. AlignerAt(w, at, d + 1, h, n, 0)'
    BY <1>13, <1>15 DEF AlignerAt
  <1>17. Wrap' = Wrap /\ (\A i, j : Part(i, j)' = Part(i, j))
    BY <1>2, Frozen
  <1>18. Listed(w, at)' /\ Reads(w, at, u, lab, h)'
    BY <1>1, <1>2, ListedSame, ReadsSame
  <1>19. Split(w, at, d + 1, u)'
    <2>1. u = (d + 1) + Len(breakdowns')
      BY <1>1, <1>5
    <2>2. ASSUME NEW i \in 1 .. Len(breakdowns')
          PROVE  /\ breakdowns'[i].double <=> Cross(w, at[(d + 1) + i].from, at[(d + 1) + i].to)
                 /\ Cross(w, at[(d + 1) + i].from, at[(d + 1) + i].to) =>
                       breakdowns'[i].offset = (w - at[(d + 1) + i].from) % WordBytes
      <3>1. i + 1 \in 1 .. Len(breakdowns) /\ breakdowns'[i] = breakdowns[i + 1] /\ d + (i + 1) = (d + 1) + i
        BY <1>1, <1>5
      <3>2. /\ breakdowns[i + 1].double <=> Cross(w, at[d + (i + 1)].from, at[d + (i + 1)].to)
            /\ Cross(w, at[d + (i + 1)].from, at[d + (i + 1)].to) =>
                  breakdowns[i + 1].offset = (w - at[d + (i + 1)].from) % WordBytes
        BY <1>1, <3>1 DEF Split
      <3> QED BY <3>1, <3>2
    <2>3. /\ Len(at) = u + Len(readCmds)
          /\ \A i \in 1 .. Len(readCmds) : readCmds[i] = Part(at[u + i].from, at[u + i].to)
          /\ splitter \in [second : BOOLEAN, cmd : Cmds, first : Int]
          /\ splitter.second => /\ u # 0 /\ Cross(w, at[u].from, at[u].to)
                                /\ splitter.cmd = Part(at[u].from, at[u].to) /\ splitter.first = w - at[u].from
      BY <1>1 DEF Split
    <2> QED BY <1>2, <1>5, <1>6, <1>17, <2>1, <2>2, <2>3 DEF Split
  <1>20. Bypassing(w, E, x, n, 0, y, bq)'
    <2>1. Picked(n)' = Picked(n)
      BY <1>1, <1>13 DEF Picked
    <2>2. aligner.state # "NO_USE_DDR" /\ aligner'.state # "NO_USE_DDR"
      BY <1>1, <1>13
    <2> QED BY <1>1, <1>2, <1>4, <2>1, <2>2, BypassMoves
  <1> QED BY <1>1, <1>16, <1>17, <1>18, <1>19, <1>20 DEF RInv

(* The next segment comes from the bypass or from the memory.              *)
LEMMA RReadBypass ==
    ASSUME MemoryConstants, ChosenOK, Stable,
           NEW E, NEW x, NEW w, NEW at, NEW d, NEW u, NEW lab, NEW h, NEW n, NEW m, NEW y, NEW bq,
           RInv(E, x, w, at, d, u, lab, h, n, m, y, bq), ReadBypass, AlignerFrame
    PROVE  RInv(E, x, w, at, d, u, lab, h, n, 0, y, bq)'
  <1>1. /\ w = Wrap /\ Listed(w, at) /\ Split(w, at, d, u) /\ Reads(w, at, u, lab, h) /\ AlignerType
        /\ AlignerAt(w, at, d, h, n, m) /\ Bypassing(w, E, x, n, m, y, bq) /\ d \in Nat
        /\ aligner.state = "READ_BYPASS" /\ isBypass # <<>> /\ isBypass' = Tail(isBypass)
        /\ aligner' = [aligner EXCEPT !.state = IF Head(isBypass) THEN "NO_USE_DDR" ELSE "READ_ACCESS"]
    BY DEF RInv, AlignerAt, ReadBypass, Split, Stable
  <1>2. UNCHANGED <<chosen, side, announced, accepted, readCmds, splitter, requests, moverReads, fetched, breakdowns, bypass, out>>
    BY DEF ReadBypass, AlignerFrame, writing, gating, chosen
  <1>3. Waiting(at, d, h, n) /\ side = "tx"
    BY <1>1 DEF AlignerAt, Waiting, Passing, Reading, Unbroken, Block0, Aligned, Merge, Block1, ExtraWord
  <1>4. n \in Nat /\ OutType /\ Done(n) /\ h = 2 * d + 2 /\ fetched = 0 /\ After(at, d, n) /\ Len(requests) \in Nat
    BY <1>3, LenProperties DEF Waiting, Done, OutType
  <1>5. /\ isBypass \in Seq(BOOLEAN) /\ Len(requests) = n + Len(isBypass)
        /\ \A i \in 1 .. Len(isBypass) : isBypass[i] <=> ~requests[n + i].memory
        /\ bypass \in Seq(GoodWords(E, accepted)) /\ Chain(bypass, Lo, Hi, y, x)
        /\ bq \in Seq(Span) /\ Sorted(bq)
        /\ \A i \in 1 .. Len(bq) : /\ SpanOK(w, bq[i]) /\ Segment(E, bq[i].from, bq[i].to)
                                   /\ n < bq[i].idx /\ ~requests[bq[i].idx].memory
        /\ \A k \in n + 1 .. Len(requests) : ~requests[k].memory => \E i \in 1 .. Len(bq) : bq[i].idx = k
        /\ Chain(bq, BFrom, BTo, y, accepted)
    BY <1>1, <1>3 DEF Bypassing, Picked
  <1>6. /\ isBypass' \in Seq(BOOLEAN) /\ Len(isBypass) \in Nat \ {0} /\ Len(isBypass') = Len(isBypass) - 1
        /\ Head(isBypass) = isBypass[1] /\ Head(isBypass) \in BOOLEAN
        /\ \A i \in 1 .. Len(isBypass) - 1 : isBypass'[i] = isBypass[i + 1]
    BY <1>1, <1>5, TailFacts
  <1>7. n + 1 \in 1 .. Len(requests) /\ (Head(isBypass) <=> ~requests[n + 1].memory)
    <2>1. PICK b \in Nat \ {0}, z \in Nat : b = Len(isBypass) /\ z = Len(requests) /\ z = n + b
      BY <1>4, <1>5, <1>6
    <2>2. 1 \in 1 .. b /\ n + 1 \in 1 .. z
      BY <1>4, <2>1
    <2>3. isBypass[1] <=> ~requests[n + 1].memory
      BY <1>5, <2>1, <2>2
    <2> QED BY <1>6, <2>1, <2>2, <2>3
  <1>7a. n + 1 <= Len(requests)
    <2>1. n + 1 \in 1 .. Len(requests)
      BY <1>7
    <2> QED BY ONLY <1>4, <2>1
  <1>8. Done(n)' /\ Sent(n, 0)'
    <2>1. Sent(n, 0)
      BY <1>4, <1>7a, DoneSent
    <2>2. Done(n)'
      BY <1>2, <1>4 DEF Done, OutType, Complete, Asked
    <2> QED BY <1>2, <2>1, <2>2, SentSame
  <1>9. AlignerType' /\ aligner'.state = IF Head(isBypass) THEN "NO_USE_DDR" ELSE "READ_ACCESS"
    BY <1>1 DEF AlignerType, AlignerStates
  <1>10. AlignerAt(w, at, d, h, n, 0)'
    <2>1. CASE Head(isBypass)
      <3>1. Passing(at, d, h, n, 0)'
        BY <1>2, <1>3, <1>4, <1>7, <1>8, <1>9, <2>1 DEF Passing
      <3> QED BY <1>9, <3>1 DEF AlignerAt
    <2>2. CASE ~Head(isBypass)
      <3>0. PICK b \in BOOLEAN : b = requests[n + 1].memory
        BY <1>4, <1>7, RequestIs
      <3>0a. b = TRUE
        BY <1>7, <2>2, <3>0
      <3>1. requests[n + 1].memory /\ aligner'.state = "READ_ACCESS" /\ n + 1 <= Len(requests)
        BY <1>7a, <1>9, <2>2, <3>0, <3>0a
      <3>2. Waiting(at, d, h, n)'
        BY <1>2, <1>4, <1>8, <3>1 DEF Waiting
      <3> QED BY <1>9, <3>2 DEF AlignerAt
    <2> QED BY <2>1, <2>2
  <1>11. Picked(n)' = n + 1
    BY <1>9 DEF Picked
  <1>12. Bypassing(w, E, x, n, 0, y, bq)'
    <2>1. Len(requests') = (n + 1) + Len(isBypass')
      BY <1>2, <1>4, <1>5, <1>6
    <2>2. ASSUME NEW i \in 1 .. Len(isBypass') PROVE isBypass'[i] <=> ~requests'[(n + 1) + i].memory
      <3>1. i + 1 \in 1 .. Len(isBypass) /\ isBypass'[i] = isBypass[i + 1] /\ n + (i + 1) = (n + 1) + i
        BY <1>4, <1>6
      <3>2. isBypass[i + 1] <=> ~requests[n + (i + 1)].memory
        BY <1>5, <3>1
      <3> QED BY <1>2, <3>1, <3>2
    <2>3. Chain(bq, BFrom, BTo, IF aligner'.state = "NO_USE_DDR" THEN y - 0 * WordBytes ELSE y, accepted)
      <3>1. y \in Nat
        BY <1>5 DEF Chain
      <3>2. y - 0 * WordBytes = y
        BY <3>1, ConstantFacts
      <3> QED BY <1>5, <3>2
    <2> QED BY <1>2, <1>3, <1>5, <1>6, <1>11, <2>1, <2>2, <2>3 DEF Bypassing, SpanOK
  <1>13. Wrap' = Wrap
    BY <1>2, Frozen
  <1>14. Listed(w, at)' /\ Reads(w, at, u, lab, h)' /\ Split(w, at, d, u)'
    BY <1>1, <1>2, ListedSame, ReadsSame, SplitSame
  <1> QED BY <1>1, <1>10, <1>12, <1>13, <1>14 DEF RInv

(* A word comes from the bypass.                                           *)
LEMMA RNoUseDdr ==
    ASSUME MemoryConstants, ChosenOK, Stable,
           NEW E, Cuts(E), NEW x, NEW w, NEW at, NEW d, NEW u, NEW lab, NEW h, NEW n, NEW m, NEW y, NEW bq,
           RInv(E, x, w, at, d, u, lab, h, n, m, y, bq), NoUseDdr, AlignerFrame
    PROVE  \E n2, m2, y2, bq2 : RInv(E, x, w, at, d, u, lab, h, n2, m2, y2, bq2)'
  <1>1. /\ w = Wrap /\ Listed(w, at) /\ Split(w, at, d, u) /\ Reads(w, at, u, lab, h) /\ AlignerType
        /\ AlignerAt(w, at, d, h, n, m) /\ Bypassing(w, E, x, n, m, y, bq) /\ d \in Nat
        /\ aligner.state = "NO_USE_DDR" /\ bypass # <<>> /\ bypass' = Tail(bypass)
        /\ Send(Head(bypass).data, Head(bypass).last)
        /\ aligner' = [aligner EXCEPT !.state = IF Head(bypass).last THEN "READ_BYPASS" ELSE @]
        /\ E \in SUBSET Nat
    BY BufferBelow DEF RInv, AlignerAt, NoUseDdr, Split, Stable
  <1>2. UNCHANGED <<chosen, side, announced, accepted, readCmds, splitter, requests, moverReads, fetched, breakdowns, isBypass>>
    BY DEF NoUseDdr, AlignerFrame, writing, gating, chosen
  <1>3. Passing(at, d, h, n, m) /\ side = "tx"
    BY <1>1 DEF AlignerAt, Waiting, Passing, Reading, Unbroken, Block0, Aligned, Merge, Block1, ExtraWord
  <1>4. /\ n \in Nat /\ m \in Nat /\ OutType /\ Sent(n, m) /\ h = 2 * d + 2 /\ fetched = 0 /\ After(at, d, n)
        /\ n + 1 \in 1 .. Len(requests) /\ ~requests[n + 1].memory /\ Len(requests) \in Nat
    BY <1>3, LenProperties DEF Passing, Sent, OutType
  <1>5. /\ isBypass \in Seq(BOOLEAN) /\ Len(requests) = (n + 1) + Len(isBypass)
        /\ \A i \in 1 .. Len(isBypass) : isBypass[i] <=> ~requests[(n + 1) + i].memory
        /\ bypass \in Seq(GoodWords(E, accepted)) /\ Chain(bypass, Lo, Hi, y, x)
        /\ bq \in Seq(Span) /\ Sorted(bq)
        /\ \A i \in 1 .. Len(bq) : /\ SpanOK(w, bq[i]) /\ Segment(E, bq[i].from, bq[i].to)
                                   /\ n < bq[i].idx /\ ~requests[bq[i].idx].memory
        /\ \A k \in n + 1 .. Len(requests) : ~requests[k].memory => \E i \in 1 .. Len(bq) : bq[i].idx = k
        /\ Chain(bq, BFrom, BTo, y - m * WordBytes, accepted)
    BY <1>1, <1>3 DEF Bypassing, Picked
  <1>6. PICK i \in 1 .. Len(bq) : bq[i].idx = n + 1
    <2>1. PICK z \in Nat : z = Len(requests)
      BY <1>4
    <2>2. n + 1 \in n + 1 .. z
      BY <1>4, <2>1
    <2> QED BY <1>4, <1>5, <2>1, <2>2
  <1>7. /\ bq # <<>> /\ Len(bq) \in Nat \ {0} /\ Head(bq) = bq[1] /\ Head(bq) \in Span /\ Tail(bq) \in Seq(Span)
        /\ Len(Tail(bq)) = Len(bq) - 1 /\ \A j \in 1 .. Len(bq) - 1 : Tail(bq)[j] = bq[j + 1]
    <2>1. bq # <<>>
      BY <1>6
    <2> QED BY <1>5, <2>1, TailFacts
  <1>8. \A j \in 1 .. Len(bq) : bq[j] \in Span /\ bq[j].idx \in Nat
    <2>1. \A j \in 1 .. Len(bq) : bq[j] \in Span
      BY <1>5, ElementOfSeq
    <2> QED BY <2>1 DEF Span
  <1>9. Head(bq).idx = n + 1
    <2>1. 1 \in 1 .. Len(bq) /\ n < bq[1].idx /\ bq[1].idx \in Nat
      BY <1>5, <1>7, <1>8
    <2>2. 1 < i => bq[1].idx < bq[i].idx
      BY <1>5, <2>1 DEF Sorted
    <2> QED BY <1>4, <1>6, <1>7, <2>1, <2>2
  <1>10. PICK f \in Nat, t \in Nat :
            /\ f = Head(bq).from /\ t = Head(bq).to /\ f = requests[n + 1].from /\ t = f + requests[n + 1].length
            /\ Segment(E, f, t) /\ f < t /\ BFrom[Head(bq)] = f /\ BTo[Head(bq)] = t
    <2>1. /\ SpanOK(w, Head(bq)) /\ Segment(E, Head(bq).from, Head(bq).to)
      BY <1>5, <1>7
    <2>2. Head(bq).from \in Nat /\ Head(bq).to \in Nat /\ BFrom[Head(bq)] = Head(bq).from /\ BTo[Head(bq)] = Head(bq).to
      BY <1>7 DEF Span, BFrom, BTo
    <2> QED BY <1>9, <2>1, <2>2 DEF SpanOK, Segment
  <1>11. PICK r \in Nat : r = m * WordBytes /\ (m + 1) * WordBytes = r + WordBytes /\ f + r < t /\ WordBytes \in Nat \ {0}
    <2>1. m * WordBytes \in Nat /\ (m + 1) * WordBytes = m * WordBytes + WordBytes /\ WordBytes \in Nat \ {0}
      BY <1>4, ConstantFacts
    <2>2. PICK c \in Nat : c = requests[n + 1].length /\ t = f + c
      BY <1>4, <1>10, RequestIs
    <2>3. m * WordBytes < c
      BY <2>2, <1>4 DEF Sent
    <2>4. PICK r \in Nat : r = m * WordBytes
      BY <2>1
    <2>5. f + r < t
      BY <1>10, <2>2, <2>3, <2>4
    <2> QED BY <2>1, <2>4, <2>5
  <1>12. y \in Nat /\ y = f + r
    <2>1. y \in Nat
      BY <1>5 DEF Chain
    <2>2. y - m * WordBytes = f
      BY <1>5, <1>7, <1>10 DEF Chain
    <2> QED BY <1>10, <1>11, <2>1, <2>2
  <1>13. /\ Head(bypass) \in GoodWords(E, accepted) /\ Lo[Head(bypass)] = y
         /\ Tail(bypass) \in Seq(GoodWords(E, accepted)) /\ Chain(Tail(bypass), Lo, Hi, Hi[Head(bypass)], x)
    BY <1>1, <1>5, ChainFacts, ChainTail, TailFacts
  <1>14. PICK v : v = Head(bypass) /\ v \in GoodWords(E, accepted) /\ Lo[v] = y
    BY <1>13
  <1>15. PICK y2 \in Nat : /\ y2 = Hi[v] /\ y < y2 /\ y2 <= t /\ y2 - y <= WordBytes /\ (y2 = t \/ y2 - y = WordBytes)
                          /\ v.last \in BOOLEAN /\ (v.last <=> y2 = t) /\ v.data = Bytes(y, y2 - y)
    <2>1. y \in Nat /\ f <= y /\ y < t
      BY <1>11, <1>12
    <2>2. v \in GoodWords(E, accepted) /\ Lo[v] = y /\ f \in Nat /\ t \in Nat
      BY <1>10, <1>14
    <2>3. Segment(E, f, t) /\ E \in SUBSET Nat
      BY <1>1, <1>10
    <2>4. WordAt(v, y, t)
      BY <2>1, <2>2, <2>3, WordIs, Zenon
    <2> QED BY <2>4 DEF WordAt
  <1>16. PICK last \in BOOLEAN :
            /\ y2 = Hi[v] /\ last = v.last /\ y < y2 /\ y2 <= t /\ y2 - y <= WordBytes /\ (y2 = t \/ y2 - y = WordBytes)
            /\ (last <=> y2 = t) /\ v.data = Bytes(y, y2 - y) /\ y2 \in Nat
    BY <1>15
  <1>17. v.data = Bytes(y, t - y) /\ (last <=> t - y <= WordBytes) /\ (~last => y2 = y + WordBytes)
    <2>1. CASE y2 = t
      BY <1>16, <2>1
    <2>2. CASE y2 # t
      <3>0. PICK a \in Nat, b \in Nat : a = y /\ b = WordBytes
        BY <1>11, <1>12
      <3>0a. y2 - a = b /\ y2 < t /\ ~last
        BY <1>16, <2>2, <3>0
      <3>1. y2 - y = WordBytes /\ t - y >= WordBytes /\ t - y \in Nat /\ ~(t - y <= WordBytes) /\ ~last /\ y2 = y + WordBytes
        BY <3>0, <3>0a
      <3>2. Bytes(y, t - y) = Bytes(y, WordBytes)
        BY <1>12, <3>1, BytesFull
      <3> QED BY <1>16, <3>1, <3>2
    <2> QED BY <2>1, <2>2
  <1>18. IF last THEN Done(n + 1)' ELSE Sent(n, m + 1)'
    <2>1. Send(v.data, last)
      BY <1>1, <1>14, <1>16
    <2>2. v.data = Bytes(f + m * WordBytes, t - (f + m * WordBytes)) /\ (last <=> t - (f + m * WordBytes) <= WordBytes)
      BY <1>11, <1>12, <1>17
    <2> QED BY <1>2, <1>4, <1>10, <2>1, <2>2, SendFacts
  <1>19. AlignerType' /\ aligner'.state = IF last THEN "READ_BYPASS" ELSE "NO_USE_DDR"
    BY <1>1, <1>14, <1>16 DEF AlignerType, AlignerStates
  <1>20. Wrap' = Wrap
    BY <1>2, Frozen
  <1>21. Listed(w, at)' /\ Reads(w, at, u, lab, h)' /\ Split(w, at, d, u)'
    BY <1>1, <1>2, ListedSame, ReadsSame, SplitSame
  <1>22. CASE last
    <2>1. y2 = t /\ aligner'.state = "READ_BYPASS" /\ Done(n + 1)'
      BY <1>16, <1>18, <1>19, <1>22
    <2>2. After(at, d, n + 1)
      <3>1. ASSUME NEW j \in 1 .. Len(at) PROVE at[j].idx <= n + 1 <=> j <= d
        <4>1. at[j] \in Span /\ requests[at[j].idx].memory
          BY <1>1, ElementOfSeq DEF Listed
        <4>2. at[j].idx \in Nat /\ at[j].idx # n + 1
          BY <1>4, <4>1 DEF Span
        <4>3. at[j].idx <= n <=> j <= d
          BY <1>4 DEF After
        <4> QED BY <1>4, <4>2, <4>3
      <3> QED BY <1>4, <3>1 DEF After
    <2>3. Waiting(at, d, h, n + 1)'
      BY <1>2, <1>3, <1>4, <2>1, <2>2 DEF Waiting
    <2>4. AlignerAt(w, at, d, h, n + 1, 0)'
      BY <1>19, <2>3 DEF AlignerAt
    <2>5. Chain(Tail(bq), BFrom, BTo, y2, accepted)
      <3>1. Chain(Tail(bq), BFrom, BTo, BTo[Head(bq)], accepted)
        BY <1>5, <1>7, ChainTail
      <3> QED BY <1>10, <2>1, <3>1
    <2>6. ASSUME NEW j \in 1 .. Len(Tail(bq))
          PROVE  /\ SpanOK(w, Tail(bq)[j]) /\ Segment(E, Tail(bq)[j].from, Tail(bq)[j].to)
                 /\ n + 1 < Tail(bq)[j].idx /\ ~requests[Tail(bq)[j].idx].memory
      <3>1. j + 1 \in 1 .. Len(bq) /\ 1 \in 1 .. Len(bq) /\ Tail(bq)[j] = bq[j + 1] /\ 1 < j + 1
        BY <1>7
      <3>2. bq[1].idx < bq[j + 1].idx
        BY <1>5, <3>1 DEF Sorted
      <3> QED BY <1>5, <1>7, <1>9, <3>1, <3>2
    <2>7. Sorted(Tail(bq))
      <3>1. ASSUME NEW j \in 1 .. Len(Tail(bq)), NEW k \in 1 .. Len(Tail(bq)), j < k
            PROVE  Tail(bq)[j].idx < Tail(bq)[k].idx
        <4>1. /\ j + 1 \in 1 .. Len(bq) /\ k + 1 \in 1 .. Len(bq) /\ j + 1 < k + 1
              /\ Tail(bq)[j] = bq[j + 1] /\ Tail(bq)[k] = bq[k + 1]
          BY <1>7, <3>1
        <4> QED BY <1>5, <4>1 DEF Sorted
      <3> QED BY <3>1 DEF Sorted
    <2>8. ASSUME NEW k \in (n + 1) + 1 .. Len(requests), ~requests[k].memory
          PROVE  \E j \in 1 .. Len(Tail(bq)) : Tail(bq)[j].idx = k
      <3>1. k \in n + 1 .. Len(requests)
        BY <1>4
      <3>2. PICK j \in 1 .. Len(bq) : bq[j].idx = k
        BY <1>5, <2>8, <3>1
      <3>3. j # 1
        BY <1>4, <1>7, <1>9, <3>2
      <3>4. PICK l \in 1 .. Len(bq) - 1 : j = l + 1
        <4>1. j - 1 \in 1 .. Len(bq) - 1 /\ j = (j - 1) + 1
          BY <1>7, <3>3
        <4> QED BY <4>1
      <3> QED BY <1>7, <3>2, <3>4
    <2>9. Picked(n + 1)' = n + 1
      BY <2>1 DEF Picked
    <2>10. bypass' \in Seq(GoodWords(E, accepted')) /\ Chain(bypass', Lo, Hi, y2, x)
      BY <1>1, <1>2, <1>13, <1>14, <1>16
    <2>11. Bypassing(w, E, x, n + 1, 0, y2, Tail(bq))'
      BY <1>2, <1>3, <1>5, <1>7, <2>1, <2>5, <2>6, <2>7, <2>8, <2>9, <2>10 DEF Bypassing, SpanOK
    <2>12. RInv(E, x, w, at, d, u, lab, h, n + 1, 0, y2, Tail(bq))'
      BY <1>1, <1>20, <1>21, <2>4, <2>11 DEF RInv
    <2> QED BY <2>12
  <1>23. CASE ~last
    <2>1. y2 = y + WordBytes /\ aligner'.state = "NO_USE_DDR" /\ Sent(n, m + 1)'
      BY <1>17, <1>18, <1>19, <1>23
    <2>2. Passing(at, d, h, n, m + 1)'
      BY <1>2, <1>3, <1>4, <2>1 DEF Passing
    <2>3. AlignerAt(w, at, d, h, n, m + 1)'
      BY <1>19, <2>2 DEF AlignerAt
    <2>4. y2 - (m + 1) * WordBytes = y - m * WordBytes
      BY <1>11, <1>12, <2>1
    <2>5. Picked(n)' = n + 1
      BY <2>1 DEF Picked
    <2>6. bypass' \in Seq(GoodWords(E, accepted')) /\ Chain(bypass', Lo, Hi, y2, x)
      BY <1>1, <1>2, <1>13, <1>14, <1>16
    <2>7. Chain(bq, BFrom, BTo, y2 - (m + 1) * WordBytes, accepted')
      BY <1>2, <1>5, <2>4
    <2>8. Bypassing(w, E, x, n, m + 1, y2, bq)'
      BY <1>2, <1>3, <1>5, <2>1, <2>5, <2>6, <2>7 DEF Bypassing, SpanOK
    <2>9. RInv(E, x, w, at, d, u, lab, h, n, m + 1, y2, bq)'
      BY <1>1, <1>20, <1>21, <2>3, <2>8 DEF RInv
    <2> QED BY <2>9
  <1> QED BY <1>22, <1>23
-----------------------------------------------------------------------------
(* What neither the writer nor the splitter touches.                       *)
LEMMA AlignerSame ==
    ASSUME NEW w, NEW at, NEW d, NEW h, NEW n, NEW m, AlignerAt(w, at, d, h, n, m),
           UNCHANGED <<side, aligner, fetched, requests, out>>
    PROVE  AlignerAt(w, at, d, h, n, m)'
  <1>1. \A k : Asked(k)' = Asked(k)
    BY DEF Asked
  <1>2. \A k : Done(k) => Done(k)'
    BY <1>1 DEF Done, OutType, Complete
  <1>3. \A k, l : Sent(k, l) => Sent(k, l)'
    BY <1>1 DEF Sent, OutType, Complete
  <1>4. AlignerType /\ AlignerType'
    BY DEF AlignerAt, AlignerType
  <1>5. CASE Waiting(at, d, h, n)
    <2>1. Waiting(at, d, h, n)'
      BY <1>2, <1>5 DEF Waiting
    <2> QED BY <1>4, <2>1 DEF AlignerAt
  <1>6. CASE Passing(at, d, h, n, m)
    <2>1. Passing(at, d, h, n, m)'
      BY <1>3, <1>6 DEF Passing
    <2> QED BY <1>4, <2>1 DEF AlignerAt
  <1>7. CASE Reading(w, at, d, h, n, m)
    <2>1. Sent(n, m)' /\ d # 0 /\ After(at, d, n + 1) /\ at[d].idx = n + 1 /\ fetched' \in Nat
      BY <1>3, <1>7 DEF Reading
    <2>2. LET f == at[d].from
              t == at[d].to
              p == at[d].from + m * WordBytes IN
          \/ Unbroken(w, f, t, p, d, h)' \/ Block0(w, f, t, p, d, h)' \/ Aligned(w, f, t, p, d, h)'
          \/ Merge(w, f, t, p, d, h)' \/ Block1(w, f, t, p, d, h)' \/ ExtraWord(w, f, t, p, d, h)'
      BY <1>7 DEF Reading, Unbroken, Block0, Aligned, Merge, Block1, ExtraWord
    <2>3. Reading(w, at, d, h, n, m)'
      BY <2>1, <2>2 DEF Reading
    <2> QED BY <1>4, <2>3 DEF AlignerAt
  <1> QED BY <1>5, <1>6, <1>7 DEF AlignerAt

LEMMA BypassingSame ==
    ASSUME NEW w, NEW E, NEW x, NEW n, NEW m, NEW y, NEW bq, Bypassing(w, E, x, n, m, y, bq),
           UNCHANGED <<side, aligner, isBypass, bypass, requests, accepted>>
    PROVE  Bypassing(w, E, x, n, m, y, bq)'
  <1>1. Picked(n)' = Picked(n)
    BY DEF Picked
  <1>2. \A i : SpanOK(w, bq[i])' = SpanOK(w, bq[i])
    BY DEF SpanOK
  <1>3. CASE side = "tx"
    BY <1>1, <1>2, <1>3 DEF Bypassing
  <1>4. CASE side # "tx"
    BY <1>4 DEF Bypassing
  <1> QED BY <1>3, <1>4

(* There are as many requests as reads at least.                           *)
LEMMA HasRequests ==
    ASSUME NEW w, NEW at, NEW d, NEW h, NEW n, NEW m, AlignerAt(w, at, d, h, n, m)
    PROVE  OutType
  BY DEF AlignerAt, Waiting, Passing, Reading, Done, Sent

(* A read begins and ends in what is announced.                            *)
LEMMA SpanFacts ==
    ASSUME MemoryConstants, ChosenOK, Stable, OutType, NEW w, w = Wrap, NEW at, Listed(w, at), NEW j \in 1 .. Len(at)
    PROVE  \E f \in Nat, t \in Nat :
              /\ f = at[j].from /\ t = at[j].to /\ f < t /\ t <= announced /\ t < BufferSize /\ t # w
              /\ t - f < LengthRange /\ at[j] \in Span
  <1>1. at[j] \in Span /\ SpanOK(w, at[j]) /\ at[j].to <= announced /\ at[j].to # w
    BY ElementOfSeq DEF Listed
  <1>2. PICK i : i \in 1 .. Len(requests) /\ i = at[j].idx /\ at[j].from = requests[i].from /\ at[j].to = at[j].from + requests[i].length
    BY <1>1 DEF SpanOK
  <1>3. PICK c \in Nat \ {0} : c = requests[i].length /\ c < LengthRange
    BY <1>2, RequestIs, ConstantFacts
  <1>4. PICK f \in Nat, t \in Nat : f = at[j].from /\ t = at[j].to
    BY <1>1 DEF Span
  <1>5. PICK l, a, b : l = LengthRange /\ a = announced /\ b = BufferSize /\ l \in Nat /\ a \in Nat /\ b \in Nat /\ a < b
    BY ConstantFacts DEF Stable
  <1>6. t = f + c /\ c < l /\ t <= a /\ t # w
    BY <1>1, <1>2, <1>3, <1>4, <1>5
  <1>7. f < t /\ t < b /\ t - f < l
    BY <1>5, <1>6
  <1> QED BY <1>1, <1>4, <1>5, <1>6, <1>7

(* The splitter turns to the next read: whether and where it crosses the   *)
(* end of the buffer.                                                      *)
LEMMA SplitAt ==
    ASSUME MemoryConstants, ChosenOK, NEW w, w = Wrap, NEW f \in Nat, NEW t \in Nat, f < t, t < BufferSize, t # w,
           t - f < LengthRange
    PROVE  /\ Overflows(Part(f, t)) <=> Cross(w, f, t)
           /\ Part(f, t) \in Cmds /\ Part(f, t).saddr = Address(f) /\ Part(f, t).bbt = t - f
           /\ (BufferSize - Address(f)) % LengthRange \in Nat
           /\ Cross(w, f, t) => /\ (BufferSize - Address(f)) % LengthRange = w - f
                                /\ BaseOf(Address(f)) = Address(w) /\ ((t - f) - (w - f)) % LengthRange = t - w
  <1>1. PICK b \in Nat \ {0}, l \in Nat \ {0} : b = BufferSize /\ l = LengthRange /\ b % l = 0
    BY ConstantFacts
  <1>2. PICK a \in Int : a = Address(f) /\ BaseOf(a) = Base /\ f \in 0 .. b - 1
    <2>1. f \in 0 .. b - 1
      BY <1>1
    <2>2. BaseOf(Address(f)) = Base /\ Base \in Int /\ Address(f) - Base \in 0 .. BufferSize - 1
      BY <1>1, <2>1, AddressIs, ChosenFacts
    <2>3. Address(f) \in Int
      BY <1>1, <2>1, AddressIs, ChosenFacts
    <2> QED BY <2>1, <2>2, <2>3
  <1>3. Overflows(Part(f, t)) <=> Cross(w, f, t)
    BY OverflowIs DEF Part, Cross, Crosses
  <1>4. Part(f, t) \in Cmds /\ Part(f, t).saddr = Address(f) /\ Part(f, t).bbt = t - f
    <2>1. f < BufferSize
      BY <1>1
    <2> QED BY <2>1, PartFacts
  <1>5. (BufferSize - Address(f)) % LengthRange \in Nat
    <2>1. PICK e : e = b - a /\ e \in Int /\ l \in Nat \ {0}
      BY <1>1, <1>2
    <2>2. e % l \in 0 .. l - 1
      BY ONLY <2>1, ModFacts
    <2>3. e % l \in Nat
      BY <2>2
    <2> QED BY <1>1, <1>2, <2>1, <2>3
  <1>6. ASSUME Cross(w, f, t)
        PROVE  /\ (BufferSize - Address(f)) % LengthRange = w - f
               /\ BaseOf(Address(f)) = Address(w) /\ ((t - f) - (w - f)) % LengthRange = t - w
    <2>1. PICK v \in Nat : v = w /\ f < v /\ v < t
      BY <1>6, ChosenFacts DEF Cross
    <2>2. PICK g \in Nat, s \in Nat : g = Base /\ s = start /\ v = b - s
      BY <1>1, <2>1, ChosenFacts DEF Wrap
    <2>3. a = g + s + f
      BY <1>1, <1>2, <2>1, <2>2, AddressIs
    <2>4. v \in 0 .. BufferSize - 1
      BY <1>1, <2>1
    <2>5. Address(v) = Base + (v - Wrap)
      BY <2>1, <2>4, AddressIs
    <2>6. Address(w) = BaseOf(Address(f))
      BY <1>2, <2>1, <2>2, <2>5
    <2>7. PICK q \in Int : b = l * q
      <3>1. PICK a2 : a2 = b /\ a2 \in Int /\ l \in Nat \ {0}
        BY <1>1
      <3>2. a2 = l * (a2 \div l) + (a2 % l) /\ a2 \div l \in Int
        BY ONLY <3>1, ModFacts
      <3>3. PICK q \in Int : q = a2 \div l
        BY <3>2
      <3>4. b = l * q
        BY <1>1, <3>1, <3>2, <3>3
      <3> QED BY <3>4
    <2>8. PICK k \in Nat : k = session /\ g = k * b
      BY <1>1, <2>2, ChosenFacts DEF Base
    <2>9. PICK z \in Int : g = l * z
      <3>1. k * (l * q) = l * (k * q) /\ k * q \in Int
        OBVIOUS
      <3> QED BY <2>7, <2>8, <3>1
    <2>10. l * (-z) = -(l * z) /\ -z \in Int
      OBVIOUS
    <2>11. b - a = l * (-z) + (v - f)
      BY <2>2, <2>3, <2>9, <2>10
    <2>12. v - f \in 0 .. l - 1 /\ t - v \in 0 .. l - 1 /\ b - a \in Int /\ (t - f) - (v - f) = l * 0 + (t - v)
      BY <1>1, <1>2, <2>1
    <2>13. (b - a) % l = v - f
      BY <2>10, <2>11, <2>12, ModIs
    <2>14. ((t - f) - (v - f)) % l = t - v
      <3>1. PICK e, r : e = (t - f) - (v - f) /\ r = t - v
        OBVIOUS
      <3>2. e \in Int /\ r \in 0 .. l - 1 /\ e = l * 0 + r /\ 0 \in Int /\ l \in Nat \ {0}
        BY <1>1, <2>1, <2>12, <3>1
      <3>3. e % l = r
        BY ONLY <3>2, ModIs
      <3> QED BY <3>1, <3>3
    <2> QED BY <1>1, <1>2, <2>1, <2>6, <2>13, <2>14
  <1> QED BY <1>3, <1>4, <1>5, <1>6
(* The label of a part that the splitter gives to the Data Mover.          *)
HasLabel(w, at, j, f, t) ==
    \E e \in LabelsOf(w, at) :
       /\ e.from = f /\ e.to = (IF Cross(w, f, t) THEN w ELSE t) /\ LFrom[e] = 2 * j
       /\ LTo[e] = (IF Cross(w, f, t) THEN 2 * j + 1 ELSE 2 * j + 2)

LEMMA LabelIs ==
    ASSUME NEW w, NEW at, NEW j \in Nat, j \in 1 .. Len(at), NEW f \in Nat, NEW t \in Nat, f = at[j].from, t = at[j].to,
           w \in Nat
    PROVE  /\ HasLabel(w, at, j, f, t)
           /\ Cross(w, f, t) => \E e \in LabelsOf(w, at) :
                 e.from = w /\ e.to = t /\ LFrom[e] = 2 * j + 1 /\ LTo[e] = 2 * j + 2
  <1>1. PICK a \in Nat, b \in Nat, c \in Nat : a = 2 * j /\ b = 2 * j + 1 /\ c = 2 * j + 2
    OBVIOUS
  <1>2. HasLabel(w, at, j, f, t)
    <2>1. CASE Cross(w, f, t)
      <3>1. PICK e : e = [read |-> j, id |-> a, next |-> b, from |-> f, to |-> w]
        OBVIOUS
      <3>2. e \in Labels /\ e.read = j /\ e.id = a /\ e.next = b /\ e.from = f /\ e.to = w
        BY <3>1 DEF Labels
      <3>3. e \in LabelsOf(w, at) /\ LFrom[e] = a /\ LTo[e] = b
        BY <1>1, <2>1, <3>2 DEF LabelsOf, LFrom, LTo
      <3> QED BY <1>1, <2>1, <3>2, <3>3 DEF HasLabel
    <2>2. CASE ~Cross(w, f, t)
      <3>1. PICK e : e = [read |-> j, id |-> a, next |-> c, from |-> f, to |-> t]
        OBVIOUS
      <3>2. e \in Labels /\ e.read = j /\ e.id = a /\ e.next = c /\ e.from = f /\ e.to = t
        BY <3>1 DEF Labels
      <3>3. e \in LabelsOf(w, at) /\ LFrom[e] = a /\ LTo[e] = c
        BY <1>1, <2>2, <3>2 DEF LabelsOf, LFrom, LTo
      <3> QED BY <1>1, <2>2, <3>2, <3>3 DEF HasLabel
    <2> QED BY <2>1, <2>2
  <1>3. ASSUME Cross(w, f, t)
        PROVE  \E e \in LabelsOf(w, at) : e.from = w /\ e.to = t /\ LFrom[e] = 2 * j + 1 /\ LTo[e] = 2 * j + 2
    <2>1. PICK e : e = [read |-> j, id |-> b, next |-> c, from |-> w, to |-> t]
      OBVIOUS
    <2>2. e \in Labels /\ e.read = j /\ e.id = b /\ e.next = c /\ e.from = w /\ e.to = t
      BY <2>1 DEF Labels
    <2>3. e \in LabelsOf(w, at) /\ LFrom[e] = b /\ LTo[e] = c
      BY <1>1, <1>3, <2>2 DEF LabelsOf, LFrom, LTo
    <2> QED BY <1>1, <2>2, <2>3
  <1> QED BY <1>2, <1>3

(* The Data Mover is given one command more.                               *)
LEMMA ReadsGrow ==
    ASSUME MemoryConstants, ChosenOK, NEW w, NEW at, NEW u, NEW lab, NEW h, Reads(w, at, u, lab, h), UNCHANGED chosen,
           NEW e \in LabelsOf(w, at), e.from < BufferSize,
           moverReads' = Append(moverReads, Part(e.from, e.to)),
           NEW mid \in Nat, mid = (IF splitter.second THEN 2 * u + 1 ELSE 2 * u + 2), LFrom[e] = mid,
           NEW hi \in Nat, LTo[e] = hi, mid < hi,
           NEW u2, hi = (IF splitter'.second THEN 2 * u2 + 1 ELSE 2 * u2 + 2)
    PROVE  Reads(w, at, u2, Append(lab, e), h)'
  <1>1. /\ lab \in Seq(LabelsOf(w, at)) /\ moverReads \in Seq(Cmds) /\ Len(moverReads) = Len(lab)
        /\ \A i \in 1 .. Len(lab) : moverReads[i] = Part(lab[i].from, lab[i].to)
        /\ Chain(lab, LFrom, LTo, h, mid)
    BY DEF Reads
  <1>2. e.from \in Nat /\ e.to \in Nat
    BY DEF LabelsOf, Labels
  <1>3. PICK p \in Cmds : p = Part(e.from, e.to)
    BY <1>2, PartFacts
  <1>4. /\ moverReads' \in Seq(Cmds) /\ Len(moverReads') = Len(moverReads) + 1
        /\ \A i \in 1 .. Len(moverReads) : moverReads'[i] = moverReads[i]
        /\ moverReads'[Len(moverReads) + 1] = p
    BY <1>1, <1>3, AppendFacts
  <1>5. /\ Append(lab, e) \in Seq(LabelsOf(w, at)) /\ Len(Append(lab, e)) = Len(lab) + 1
        /\ \A i \in 1 .. Len(lab) : Append(lab, e)[i] = lab[i]
        /\ Append(lab, e)[Len(lab) + 1] = e
    BY <1>1, AppendFacts
  <1>6. PICK l \in Nat : l = Len(lab)
    BY <1>1, LenProperties
  <1>7. \A i \in 1 .. l + 1 : moverReads'[i] = Part(Append(lab, e)[i].from, Append(lab, e)[i].to)
    <2>1. ASSUME NEW i \in 1 .. l PROVE moverReads'[i] = Part(Append(lab, e)[i].from, Append(lab, e)[i].to)
      BY <1>1, <1>4, <1>5, <1>6
    <2>2. moverReads'[l + 1] = Part(Append(lab, e)[l + 1].from, Append(lab, e)[l + 1].to)
      BY <1>1, <1>3, <1>4, <1>5, <1>6
    <2>3. \A i \in 1 .. l + 1 : i \in 1 .. l \/ i = l + 1
      BY <1>6
    <2> QED BY <2>1, <2>2, <2>3
  <1>8. Chain(Append(lab, e), LFrom, LTo, h, hi)
    BY <1>1, ChainAppend
  <1>9. \A a, b : Part(a, b)' = Part(a, b)
    BY Frozen
  <1>10. \A i \in 1 .. Len(Append(lab, e)) : moverReads'[i] = Part(Append(lab, e)[i].from, Append(lab, e)[i].to)'
    BY <1>5, <1>6, <1>7, <1>9
  <1> QED BY <1>1, <1>4, <1>5, <1>8, <1>10 DEF Reads
(* What the splitter leaves alone.                                         *)
SplitterFrame == UNCHANGED <<chosen, writing, gating, memory, bypass, fetched, isBypass, aligner, requests, out>>

(* What the splitter does not disturb.                                     *)
LEMMA SplitterRest ==
    ASSUME NEW E, NEW x, NEW w, NEW at, NEW d, NEW u, NEW lab, NEW h, NEW n, NEW m, NEW y, NEW bq,
           RInv(E, x, w, at, d, u, lab, h, n, m, y, bq), SplitterFrame,
           NEW u2, NEW lab2, Split(w, at, d, u2)', Reads(w, at, u2, lab2, h)'
    PROVE  RInv(E, x, w, at, d, u2, lab2, h, n, m, y, bq)'
  <1>1. UNCHANGED <<chosen, side, announced, accepted, requests, aligner, fetched, out, isBypass, bypass>>
    BY DEF SplitterFrame, writing, gating, chosen
  <1>2. Wrap' = Wrap
    BY <1>1, Frozen
  <1>3. w = Wrap /\ Listed(w, at) /\ AlignerAt(w, at, d, h, n, m) /\ Bypassing(w, E, x, n, m, y, bq)
    BY DEF RInv
  <1>4. Listed(w, at)' /\ AlignerAt(w, at, d, h, n, m)' /\ Bypassing(w, E, x, n, m, y, bq)'
    BY <1>1, <1>3, ListedSame, AlignerSame, BypassingSame
  <1> QED BY <1>2, <1>3, <1>4 DEF RInv

(* The first command of a read ...                                         *)
LEMMA RSplitFirst ==
    ASSUME MemoryConstants, ChosenOK, Stable,
           NEW E, NEW x, NEW w, NEW at, NEW d, NEW u, NEW lab, NEW h, NEW n, NEW m, NEW y, NEW bq,
           RInv(E, x, w, at, d, u, lab, h, n, m, y, bq), SplitterStep, ~splitter.second
    PROVE  \E u2, lab2 : RInv(E, x, w, at, d, u2, lab2, h, n, m, y, bq)'
  <1>1. PICK cmd, first, b : /\ cmd = Head(readCmds) /\ first = (BufferSize - cmd.saddr) % LengthRange
                             /\ b = Overflows(cmd) /\ b \in BOOLEAN
    BY DEF Overflows, Bit
  <1>2. /\ SplitterFrame /\ readCmds # <<>> /\ readCmds' = Tail(readCmds)
        /\ splitter' = [second |-> b, cmd |-> cmd, first |-> first]
        /\ moverReads' = Append(moverReads, IF b THEN Command(cmd.saddr, first) ELSE cmd)
        /\ breakdowns' = Append(breakdowns, [double |-> b, offset |-> first % WordBytes])
    BY <1>1 DEF SplitterStep, SplitterFrame
  <1>3. w = Wrap /\ Listed(w, at) /\ Split(w, at, d, u) /\ Reads(w, at, u, lab, h) /\ OutType
    BY HasRequests DEF RInv
  <1>4. /\ d \in Nat /\ u \in Nat /\ readCmds \in Seq(Cmds)
        /\ breakdowns \in Seq([double : BOOLEAN, offset : Lanes])
        /\ u = d + Len(breakdowns) /\ Len(at) = u + Len(readCmds)
        /\ \A i \in 1 .. Len(readCmds) : readCmds[i] = Part(at[u + i].from, at[u + i].to)
        /\ \A i \in 1 .. Len(breakdowns) :
              /\ breakdowns[i].double <=> Cross(w, at[d + i].from, at[d + i].to)
              /\ Cross(w, at[d + i].from, at[d + i].to) =>
                    breakdowns[i].offset = (w - at[d + i].from) % WordBytes
        /\ ~splitter.second
    BY <1>3 DEF Split
  <1>5. /\ Head(readCmds) = readCmds[1] /\ Tail(readCmds) \in Seq(Cmds) /\ Len(Tail(readCmds)) = Len(readCmds) - 1
        /\ \A i \in 1 .. Len(readCmds) - 1 : Tail(readCmds)[i] = readCmds[i + 1]
        /\ Len(readCmds) \in Nat \ {0}
    BY <1>2, <1>4, TailFacts
  <1>6. PICK j, r : /\ j = u + 1 /\ r = Len(readCmds) /\ Len(at) = u + r /\ j \in 1 .. Len(at)
                    /\ j \in Nat /\ r \in Nat \ {0}
    <2>1. PICK r \in Nat \ {0} : r = Len(readCmds)
      BY <1>5
    <2>2. PICK j \in Nat : j = u + 1
      BY <1>4
    <2>3. Len(at) = u + r /\ j \in 1 .. u + r
      BY <1>4, <2>1, <2>2
    <2> QED BY <2>1, <2>2, <2>3
  <1>7. PICK f \in Nat, t \in Nat :
           /\ f = at[j].from /\ t = at[j].to /\ f < t /\ t <= announced /\ t < BufferSize /\ t # w
           /\ t - f < LengthRange /\ at[j] \in Span
    BY <1>3, <1>6, SpanFacts
  <1>8. cmd = Part(f, t)
    <2>1. 1 \in 1 .. Len(readCmds)
      BY <1>5
    <2> QED BY <1>1, <1>4, <1>5, <1>6, <1>7, <2>1
  <1>9. /\ (b <=> Cross(w, f, t)) /\ cmd \in Cmds /\ cmd.saddr = Address(f) /\ cmd.bbt = t - f
        /\ first \in Nat
        /\ Cross(w, f, t) => first = w - f
    <2>1. /\ Overflows(Part(f, t)) <=> Cross(w, f, t)
          /\ Part(f, t) \in Cmds /\ Part(f, t).saddr = Address(f) /\ Part(f, t).bbt = t - f
          /\ (BufferSize - Address(f)) % LengthRange \in Nat
          /\ Cross(w, f, t) => (BufferSize - Address(f)) % LengthRange = w - f
      BY <1>3, <1>7, SplitAt
    <2> QED BY <1>1, <1>8, <2>1
  <1>10. w \in Nat
    BY <1>3, ChosenFacts
  <1>11. PICK e \in LabelsOf(w, at) :
            /\ e.from = f /\ e.to = (IF Cross(w, f, t) THEN w ELSE t) /\ LFrom[e] = 2 * j
            /\ LTo[e] = (IF Cross(w, f, t) THEN 2 * j + 1 ELSE 2 * j + 2)
    <2>1. PICK f2, t2 : f2 = f /\ t2 = t
      OBVIOUS
    <2>2. /\ j \in Nat /\ j \in 1 .. Len(at) /\ f2 \in Nat /\ t2 \in Nat /\ f2 = at[j].from /\ t2 = at[j].to
          /\ w \in Nat
      BY <1>6, <1>7, <1>10, <2>1
    <2>3. HasLabel(w, at, j, f2, t2)
      BY ONLY <2>2, LabelIs, Zenon
    <2> QED BY <2>1, <2>3 DEF HasLabel
  <1>12. PICK hi \in Nat, mid \in Nat : /\ hi = (IF Cross(w, f, t) THEN 2 * j + 1 ELSE 2 * j + 2) /\ mid = 2 * j /\ mid < hi
                                        /\ mid = 2 * u + 2
    BY <1>4, <1>6
  <1>13. Reads(w, at, j, Append(lab, e), h)'
    <2>0. f < BufferSize
      <3>1. PICK b2 \in Nat : b2 = BufferSize
        BY ConstantFacts
      <3>2. t < b2
        BY <1>7, <3>1
      <3> QED BY <1>7, <3>1, <3>2
    <2>1. e.from < BufferSize /\ LFrom[e] = mid /\ LTo[e] = hi
      BY <1>11, <1>12, <2>0
    <2>2. moverReads' = Append(moverReads, Part(e.from, e.to))
      BY <1>2, <1>8, <1>9, <1>11 DEF Part
    <2>3. mid = (IF splitter.second THEN 2 * u + 1 ELSE 2 * u + 2)
      BY <1>4, <1>12
    <2>4. hi = (IF splitter'.second THEN 2 * j + 1 ELSE 2 * j + 2)
      BY <1>2, <1>9, <1>12
    <2>5. UNCHANGED chosen
      BY <1>2 DEF SplitterFrame
    <2> QED BY <1>3, <1>12, <2>1, <2>2, <2>3, <2>4, <2>5, ReadsGrow
  <1>14. Split(w, at, d, j)'
    <2>1. PICK o \in Lanes : o = first % WordBytes
      <3>1. first \in Int /\ WordBytes \in Nat \ {0}
        BY <1>9, ConstantFacts
      <3>2. first % WordBytes \in 0 .. WordBytes - 1
        BY <3>1, ModFacts
      <3> QED BY <3>2 DEF Lanes
    <2>2. PICK q : q = [double |-> b, offset |-> o]
      OBVIOUS
    <2>3. q \in [double : BOOLEAN, offset : Lanes] /\ (q.double <=> Cross(w, f, t)) /\ (Cross(w, f, t) => q.offset = (w - f) % WordBytes)
      BY <1>1, <1>9, <2>1, <2>2
    <2>4. /\ breakdowns' \in Seq([double : BOOLEAN, offset : Lanes]) /\ Len(breakdowns') = Len(breakdowns) + 1
          /\ \A i \in 1 .. Len(breakdowns) : breakdowns'[i] = breakdowns[i]
          /\ breakdowns'[Len(breakdowns) + 1] = q
      BY <1>2, <1>4, <2>1, <2>2, <2>3, AppendFacts
    <2>5. PICK k \in Nat : k = Len(breakdowns) /\ u = d + k
      BY <1>4, LenProperties
    <2>6. ASSUME NEW i \in 1 .. k + 1
          PROVE  /\ breakdowns'[i].double <=> Cross(w, at[d + i].from, at[d + i].to)
                 /\ Cross(w, at[d + i].from, at[d + i].to) =>
                       breakdowns'[i].offset = (w - at[d + i].from) % WordBytes
      <3>1. CASE i \in 1 .. k
        BY <1>4, <2>4, <2>5, <3>1
      <3>2. CASE i = k + 1
        <4>1. d + i = j
          BY <1>4, <1>6, <2>5, <3>2
        <4>2. breakdowns'[i] = q
          BY <2>4, <2>5, <3>2
        <4> QED BY <1>7, <2>3, <4>1, <4>2
      <3> QED BY <2>5, <3>1, <3>2
    <2>7. readCmds' \in Seq(Cmds) /\ Len(readCmds') = r - 1 /\ j = d + (k + 1) /\ Len(at) = j + (r - 1)
      BY <1>2, <1>4, <1>5, <1>6, <2>5
    <2>8. ASSUME NEW i \in 1 .. r - 1
          PROVE  readCmds'[i] = Part(at[j + i].from, at[j + i].to)
      <3>1. PICK i2 \in 1 .. r : i2 = i + 1 /\ u + i2 = j + i
        BY <1>4, <1>6
      <3>2. readCmds'[i] = readCmds[i2]
        BY <1>2, <1>5, <1>6, <3>1
      <3>3. readCmds[i2] = Part(at[u + i2].from, at[u + i2].to)
        BY <1>4, <1>6, <3>1
      <3> QED BY <3>1, <3>2, <3>3
    <2>9. splitter' \in [second : BOOLEAN, cmd : Cmds, first : Int]
      BY <1>1, <1>2, <1>9
    <2>10. splitter'.second => /\ j # 0 /\ Cross(w, at[j].from, at[j].to)
                               /\ splitter'.cmd = Part(at[j].from, at[j].to) /\ splitter'.first = w - at[j].from
      BY <1>2, <1>6, <1>7, <1>8, <1>9
    <2>11. Cmds' = Cmds /\ \A p, s : Part(p, s)' = Part(p, s)
      BY <1>2, Frozen DEF SplitterFrame, Cmds
    <2>12. Len(breakdowns') = k + 1
      BY <2>4, <2>5
    <2> QED BY <1>4, <1>6, <2>4, <2>6, <2>7, <2>8, <2>9, <2>10, <2>11, <2>12 DEF Split
  <1>15. RInv(E, x, w, at, d, j, Append(lab, e), h, n, m, y, bq)'
    BY <1>2, <1>13, <1>14, SplitterRest
  <1> QED BY <1>15

(* ... and the second.                                                     *)
LEMMA RSplitSecond ==
    ASSUME MemoryConstants, ChosenOK, Stable,
           NEW E, NEW x, NEW w, NEW at, NEW d, NEW u, NEW lab, NEW h, NEW n, NEW m, NEW y, NEW bq,
           RInv(E, x, w, at, d, u, lab, h, n, m, y, bq), SplitterStep, splitter.second
    PROVE  \E u2, lab2 : RInv(E, x, w, at, d, u2, lab2, h, n, m, y, bq)'
  <1>1. PICK cmd : cmd = splitter.cmd
    OBVIOUS
  <1>2. /\ SplitterFrame /\ UNCHANGED <<readCmds, breakdowns>> /\ splitter' = [splitter EXCEPT !.second = FALSE]
        /\ moverReads' = Append(moverReads, Command(BaseOf(cmd.saddr), (cmd.bbt - splitter.first) % LengthRange))
    BY <1>1 DEF SplitterStep, SplitterFrame
  <1>3. w = Wrap /\ Listed(w, at) /\ Split(w, at, d, u) /\ Reads(w, at, u, lab, h) /\ OutType
    BY HasRequests DEF RInv
  <1>4. /\ u \in Nat /\ u # 0 /\ u \in 1 .. Len(at) /\ Cross(w, at[u].from, at[u].to)
        /\ cmd = Part(at[u].from, at[u].to) /\ splitter.first = w - at[u].from
        /\ splitter \in [second : BOOLEAN, cmd : Cmds, first : Int]
    <2>1. /\ u \in Nat /\ u # 0 /\ Cross(w, at[u].from, at[u].to) /\ Len(at) = u + Len(readCmds) /\ readCmds \in Seq(Cmds)
          /\ splitter.cmd = Part(at[u].from, at[u].to) /\ splitter.first = w - at[u].from
          /\ splitter \in [second : BOOLEAN, cmd : Cmds, first : Int]
      BY <1>3 DEF Split
    <2>2. PICK r \in Nat : r = Len(readCmds)
      BY <2>1, LenProperties
    <2> QED BY <1>1, <2>1, <2>2
  <1>5. PICK f \in Nat, t \in Nat :
           /\ f = at[u].from /\ t = at[u].to /\ f < t /\ t <= announced /\ t < BufferSize /\ t # w
           /\ t - f < LengthRange /\ at[u] \in Span
    BY <1>3, <1>4, SpanFacts
  <1>6. w \in Nat /\ Cross(w, f, t)
    BY <1>3, <1>4, <1>5, ChosenFacts
  <1>7. /\ cmd.saddr = Address(f) /\ cmd.bbt = t - f
        /\ BaseOf(Address(f)) = Address(w) /\ ((t - f) - (w - f)) % LengthRange = t - w
    <2>1. /\ Part(f, t).saddr = Address(f) /\ Part(f, t).bbt = t - f
          /\ Cross(w, f, t) => BaseOf(Address(f)) = Address(w) /\ ((t - f) - (w - f)) % LengthRange = t - w
      BY <1>3, <1>5, SplitAt
    <2> QED BY <1>4, <1>5, <1>6, <2>1
  <1>8. moverReads' = Append(moverReads, Part(w, t))
    <2>1. cmd.bbt - splitter.first = (t - f) - (w - f)
      BY <1>4, <1>5, <1>7
    <2> QED BY <1>2, <1>7, <2>1 DEF Part
  <1>9. PICK e \in LabelsOf(w, at) : e.from = w /\ e.to = t /\ LFrom[e] = 2 * u + 1 /\ LTo[e] = 2 * u + 2
    BY <1>4, <1>5, <1>6, LabelIs
  <1>10. PICK mid \in Nat, hi \in Nat : mid = 2 * u + 1 /\ hi = 2 * u + 2 /\ mid < hi
    BY <1>4
  <1>11. splitter' \in [second : BOOLEAN, cmd : Cmds, first : Int] /\ ~splitter'.second
    BY <1>2, <1>4
  <1>12. Reads(w, at, u, Append(lab, e), h)'
    <2>1. e.from < BufferSize /\ LFrom[e] = mid /\ LTo[e] = hi /\ moverReads' = Append(moverReads, Part(e.from, e.to))
      <3>1. PICK b \in Nat, v \in Nat : b = BufferSize /\ v = w
        BY <1>6, ConstantFacts
      <3>2. v < t /\ t < b
        BY <1>5, <1>6, <3>1 DEF Cross
      <3>3. w < BufferSize
        BY <3>1, <3>2
      <3> QED BY <1>8, <1>9, <1>10, <3>3
    <2>2. mid = (IF splitter.second THEN 2 * u + 1 ELSE 2 * u + 2) /\ hi = (IF splitter'.second THEN 2 * u + 1 ELSE 2 * u + 2)
      BY <1>10, <1>11
    <2>3. UNCHANGED chosen
      BY <1>2 DEF SplitterFrame
    <2> QED BY <1>3, <1>10, <2>1, <2>2, <2>3, ReadsGrow
  <1>13. Split(w, at, d, u)'
    <2>1. \A p, s : Part(p, s)' = Part(p, s)
      BY <1>2, Frozen DEF SplitterFrame
    <2> QED BY <1>2, <1>3, <1>11, <2>1 DEF Split
  <1>14. RInv(E, x, w, at, d, u, Append(lab, e), h, n, m, y, bq)'
    BY <1>2, <1>12, <1>13, SplitterRest
  <1> QED BY <1>14
-----------------------------------------------------------------------------
(* What the writer and the gate do.                                        *)
LEMMA RSame ==
    ASSUME NEW E, NEW x, NEW w, NEW at, NEW d, NEW u, NEW lab, NEW h, NEW n, NEW m, NEW y, NEW bq,
           RInv(E, x, w, at, d, u, lab, h, n, m, y, bq), UNCHANGED <<chosen, accepted, bypass, reading>>,
           announced \in Nat, announced' \in Nat, announced <= announced'
    PROVE  RInv(E, x, w, at, d, u, lab, h, n, m, y, bq)'
  <1>1. UNCHANGED <<chosen, side, accepted, requests, aligner, fetched, out, isBypass, bypass, readCmds, breakdowns,
                    splitter, moverReads>>
    BY DEF reading, chosen
  <1>2. Wrap' = Wrap
    BY <1>1, Frozen
  <1>3. /\ w = Wrap /\ Listed(w, at) /\ Split(w, at, d, u) /\ Reads(w, at, u, lab, h)
        /\ AlignerAt(w, at, d, h, n, m) /\ Bypassing(w, E, x, n, m, y, bq)
    BY DEF RInv
  <1>4. /\ Split(w, at, d, u)' /\ Reads(w, at, u, lab, h)'
        /\ AlignerAt(w, at, d, h, n, m)' /\ Bypassing(w, E, x, n, m, y, bq)'
    BY <1>1, <1>3, SplitSame, ReadsSame, AlignerSame, BypassingSame
  <1>5. Listed(w, at)'
    <2>1. /\ at \in Seq(Span) /\ Sorted(at)
          /\ \A k \in 1 .. Len(requests) : requests[k].memory => \E i \in 1 .. Len(at) : at[i].idx = k
      BY <1>3 DEF Listed
    <2>2. ASSUME NEW i \in 1 .. Len(at)
          PROVE  /\ SpanOK(w, at[i])' /\ requests'[at[i].idx].memory
                 /\ at[i].to <= announced' /\ at[i].to # w
      <3>1. SpanOK(w, at[i]) /\ requests[at[i].idx].memory /\ at[i].to <= announced /\ at[i].to # w
        BY <1>3 DEF Listed
      <3>2. PICK t \in Nat : t = at[i].to
        <4>1. at[i] \in Span
          BY <2>1, ElementOfSeq
        <4> QED BY <4>1 DEF Span
      <3>3. t <= announced'
        BY <3>1, <3>2
      <3> QED BY <1>1, <3>1, <3>2, <3>3 DEF SpanOK
    <2> QED BY <1>1, <2>1, <2>2 DEF Listed
  <1> QED BY <1>2, <1>3, <1>4, <1>5 DEF RInv

(* A word goes into the bypass.                                            *)
LEMMA RDataBroadcast ==
    ASSUME MemoryConstants, ChosenOK, NEW E, NEW x, NEW w, NEW at, NEW d, NEW u, NEW lab, NEW h, NEW n, NEW m, NEW y, NEW bq,
           RInv(E, x, w, at, d, u, lab, h, n, m, y, bq), DataBroadcast,
           NEW x2 \in Nat, Head(input) \in GoodWords(E, accepted), Lo[Head(input)] = x, Hi[Head(input)] = x2
    PROVE  RInv(E, x2, w, at, d, u, lab, h, n, m, y, bq)'
  <1>1. /\ UNCHANGED <<chosen, side, announced, accepted, requests, aligner, fetched, out, isBypass, readCmds, breakdowns,
                       splitter, moverReads>>
        /\ side = "tx" => bypass' = Append(bypass, Head(input))
    BY DEF DataBroadcast, reading, chosen, gating
  <1>2. Wrap' = Wrap
    BY <1>1, Frozen
  <1>3. /\ w = Wrap /\ Listed(w, at) /\ Split(w, at, d, u) /\ Reads(w, at, u, lab, h)
        /\ AlignerAt(w, at, d, h, n, m) /\ Bypassing(w, E, x, n, m, y, bq)
    BY DEF RInv
  <1>4. /\ Listed(w, at)' /\ Split(w, at, d, u)' /\ Reads(w, at, u, lab, h)' /\ AlignerAt(w, at, d, h, n, m)'
    BY <1>1, <1>3, ListedSame, SplitSame, ReadsSame, AlignerSame
  <1>5. Picked(n)' = Picked(n)
    BY <1>1 DEF Picked
  <1>6. CASE side = "tx"
    <2>1. bypass \in Seq(GoodWords(E, accepted)) /\ Chain(bypass, Lo, Hi, y, x)
      BY <1>3, <1>6 DEF Bypassing
    <2>2. PICK v \in GoodWords(E, accepted) : v = Head(input)
      OBVIOUS
    <2>3. x < x2
      <3>1. v \in Pieces
        BY <2>2 DEF GoodWords
      <3>2. Lo[v] < Hi[v]
        BY <3>1, PieceIs
      <3> QED BY <2>2, <3>2
    <2>4. Append(bypass, v) \in Seq(GoodWords(E, accepted))
      BY <2>1, AppendFacts
    <2>5. Lo[v] = x /\ Hi[v] = x2
      BY <2>2
    <2>6. Chain(Append(bypass, v), Lo, Hi, y, x2)
      BY <2>1, <2>3, <2>5, ChainAppend
    <2>7. bypass' \in Seq(GoodWords(E, accepted')) /\ Chain(bypass', Lo, Hi, y, x2)
      BY <1>1, <1>6, <2>2, <2>4, <2>6
    <2>8. Bypassing(w, E, x2, n, m, y, bq)'
      BY <1>1, <1>3, <1>5, <1>6, <2>7 DEF Bypassing, SpanOK
    <2> QED BY <1>2, <1>3, <1>4, <2>8 DEF RInv
  <1>7. CASE side # "tx"
    <2>1. Bypassing(w, E, x2, n, m, y, bq)'
      BY <1>1, <1>3, <1>7 DEF Bypassing
    <2> QED BY <1>2, <1>3, <1>4, <2>1 DEF RInv
  <1> QED BY <1>6, <1>7

(* A request more: where the aligner is is where it was.                   *)
LEMMA AlignerGrow ==
    ASSUME NEW r \in Requests, requests' = Append(requests, r), UNCHANGED <<side, aligner, fetched, out>>,
           NEW w, NEW at \in Seq(Span), NEW d \in Nat, NEW h, NEW n, NEW m, AlignerAt(w, at, d, h, n, m),
           NEW at2, at2 = at \/ \E s \in Span : at2 = Append(at, s) /\ s.idx = Len(requests) + 1
    PROVE  AlignerAt(w, at2, d, h, n, m)'
  <1>1. OutType
    BY HasRequests
  <1>2. /\ OutType' /\ Len(requests') = Len(requests) + 1 /\ Len(requests) \in Nat
        /\ requests'[Len(requests) + 1] = r
        /\ \A k \in 1 .. Len(requests) : requests'[k] = requests[k]
        /\ \A k : Done(k) => Done(k)'
        /\ \A k, l : Sent(k, l) => Sent(k, l)'
    BY <1>1, RequestsGrow
  <1>3. PICK a \in Nat, z \in Nat : a = Len(at) /\ z = Len(requests)
    BY <1>2, LenProperties
  <1>4. /\ \A i \in 1 .. a : at2[i] = at[i]
        /\ Len(at2) \in Nat /\ a <= Len(at2)
        /\ \A i \in 1 .. Len(at2) : i \in 1 .. a \/ at2[i].idx = z + 1
    <2>1. CASE at2 = at
      BY <1>3, <2>1
    <2>2. CASE \E s \in Span : at2 = Append(at, s) /\ s.idx = Len(requests) + 1
      <3>1. PICK s \in Span : at2 = Append(at, s) /\ s.idx = Len(requests) + 1
        BY <2>2
      <3>2. /\ Len(at2) = a + 1 /\ (\A i \in 1 .. a : at2[i] = at[i]) /\ at2[a + 1] = s
        BY <1>3, <3>1, AppendFacts
      <3> QED BY <1>3, <3>1, <3>2
    <2> QED BY <2>1, <2>2
  <1>5. ASSUME NEW k \in Nat, k <= z, After(at, d, k) PROVE After(at2, d, k)
    <2>1. d <= a /\ \A i \in 1 .. a : at[i].idx <= k <=> i <= d
      BY <1>3, <1>5 DEF After
    <2>2. d <= Len(at2)
      BY <1>3, <1>4, <2>1
    <2>3. ASSUME NEW i \in 1 .. Len(at2) PROVE at2[i].idx <= k <=> i <= d
      <3>1. CASE i \in 1 .. a
        BY <1>4, <2>1, <3>1
      <3>2. CASE i \notin 1 .. a
        <4>1. at2[i].idx = z + 1 /\ ~(z + 1 <= k)
          BY <1>3, <1>4, <1>5, <3>2
        <4>2. ~(i <= d)
          BY <1>3, <2>1, <3>2
        <4> QED BY <4>1, <4>2
      <3> QED BY <3>1, <3>2
    <2> QED BY <2>2, <2>3 DEF After
  <1>6. AlignerType /\ AlignerType'
    BY DEF AlignerAt, AlignerType
  <1>7. CASE Waiting(at, d, h, n)
    <2>1. /\ aligner.state \in {"READ_BYPASS", "READ_ACCESS"} /\ Done(n)
          /\ h = 2 * d + 2 /\ fetched = 0 /\ After(at, d, n)
          /\ aligner.state = "READ_BYPASS" => side = "tx"
          /\ (aligner.state = "READ_ACCESS" /\ side = "tx") => n + 1 <= Len(requests) /\ requests[n + 1].memory
      BY <1>7 DEF Waiting
    <2>2. n \in Nat /\ n <= z /\ Done(n)'
      BY <1>2, <1>3, <2>1 DEF Done
    <2>3. After(at2, d, n)
      BY <1>5, <2>1, <2>2
    <2>4. n + 1 <= Len(requests) => n + 1 <= Len(requests') /\ requests'[n + 1] = requests[n + 1]
      BY <1>2, <1>3, <2>2
    <2>5. (aligner.state = "READ_ACCESS" /\ side = "tx") => n + 1 <= Len(requests') /\ requests'[n + 1].memory
      BY <2>1, <2>4
    <2>6. Waiting(at2, d, h, n)'
      BY <2>1, <2>2, <2>3, <2>5 DEF Waiting
    <2> QED BY <1>6, <2>6 DEF AlignerAt
  <1>8. CASE Passing(at, d, h, n, m)
    <2>1. /\ aligner.state = "NO_USE_DDR" /\ side = "tx" /\ Sent(n, m)
          /\ h = 2 * d + 2 /\ fetched = 0 /\ After(at, d, n) /\ ~requests[n + 1].memory
      BY <1>8 DEF Passing
    <2>2. n \in Nat /\ n + 1 \in 1 .. z /\ n <= z /\ Sent(n, m)'
      <3>1. n \in Nat /\ n + 1 <= Len(requests)
        BY <2>1 DEF Sent
      <3> QED BY <1>2, <1>3, <2>1, <3>1
    <2>3. After(at2, d, n)
      BY <1>5, <2>1, <2>2
    <2>4. ~requests'[n + 1].memory
      BY <1>2, <1>3, <2>1, <2>2
    <2>5. Passing(at2, d, h, n, m)'
      BY <2>1, <2>2, <2>3, <2>4 DEF Passing
    <2> QED BY <1>6, <2>5 DEF AlignerAt
  <1>9. CASE Reading(w, at, d, h, n, m)
    <2>1. Sent(n, m) /\ d # 0 /\ After(at, d, n + 1) /\ at[d].idx = n + 1 /\ fetched \in Nat
      BY <1>9 DEF Reading
    <2>2. n \in Nat /\ n + 1 \in Nat /\ n + 1 <= z /\ Sent(n, m)'
      <3>1. n \in Nat /\ n + 1 <= Len(requests)
        BY <2>1 DEF Sent
      <3> QED BY <1>2, <1>3, <2>1, <3>1
    <2>3. After(at2, d, n + 1)
      <3>1. PICK k \in Nat : k = n + 1
        BY <2>2
      <3>2. After(at2, d, k)
        BY <1>5, <2>1, <2>2, <3>1
      <3> QED BY <3>1, <3>2
    <2>4. at2[d] = at[d]
      <3>1. d \in 1 .. a
        BY <1>3, <2>1 DEF After
      <3> QED BY <1>4, <3>1
    <2>5. LET f == at2[d].from
              t == at2[d].to
              p == at2[d].from + m * WordBytes IN
          \/ Unbroken(w, f, t, p, d, h)' \/ Block0(w, f, t, p, d, h)' \/ Aligned(w, f, t, p, d, h)'
          \/ Merge(w, f, t, p, d, h)' \/ Block1(w, f, t, p, d, h)' \/ ExtraWord(w, f, t, p, d, h)'
      BY <1>9, <2>4 DEF Reading, Unbroken, Block0, Aligned, Merge, Block1, ExtraWord
    <2>6. Reading(w, at2, d, h, n, m)'
      BY <2>1, <2>2, <2>3, <2>4, <2>5 DEF Reading
    <2> QED BY <1>6, <2>6 DEF AlignerAt
  <1> QED BY <1>7, <1>8, <1>9 DEF AlignerAt
(* The frame of a request on the reader's side.                            *)
LEMMA SpanGrow ==
    ASSUME NEW r \in Requests, requests' = Append(requests, r), UNCHANGED out, OutType, NEW w, NEW e, SpanOK(w, e)
    PROVE  SpanOK(w, e)' /\ requests'[e.idx] = requests[e.idx] /\ e.idx <= Len(requests)
  <1>1. /\ Len(requests') = Len(requests) + 1 /\ Len(requests) \in Nat
        /\ \A k \in 1 .. Len(requests) : requests'[k] = requests[k]
    BY RequestsGrow
  <1>2. PICK i \in 1 .. Len(requests) : i = e.idx
    BY DEF SpanOK
  <1>3. i \in 1 .. Len(requests') /\ requests'[i] = requests[i] /\ i <= Len(requests)
    BY <1>1
  <1> QED BY <1>2, <1>3 DEF SpanOK

(* On the tx side the words for the writer are asked for at once.          *)
LEMMA BypassRequest ==
    ASSUME MemoryConstants, NEW r \in Requests, requests' = Append(requests, r), ~r.memory, UNCHANGED <<out, announced>>,
           OutType, NEW w, NEW at, Listed(w, at)
    PROVE  Listed(w, at)'
  <1>1. /\ Len(requests') = Len(requests) + 1 /\ Len(requests) \in Nat
        /\ requests'[Len(requests) + 1] = r
        /\ \A k \in 1 .. Len(requests) : requests'[k] = requests[k]
    BY RequestsGrow
  <1>2. /\ at \in Seq(Span) /\ Sorted(at)
        /\ \A i \in 1 .. Len(at) : /\ SpanOK(w, at[i]) /\ requests[at[i].idx].memory
                                   /\ at[i].to <= announced /\ at[i].to # w
        /\ \A k \in 1 .. Len(requests) : requests[k].memory => \E i \in 1 .. Len(at) : at[i].idx = k
    BY DEF Listed
  <1>3. ASSUME NEW i \in 1 .. Len(at)
        PROVE  /\ SpanOK(w, at[i])' /\ requests'[at[i].idx].memory
               /\ at[i].to <= announced' /\ at[i].to # w
    BY <1>2, SpanGrow
  <1>4. ASSUME NEW k \in 1 .. Len(requests'), requests'[k].memory PROVE \E i \in 1 .. Len(at) : at[i].idx = k
    <2>1. k # Len(requests) + 1
      BY <1>1, <1>4
    <2>2. k \in 1 .. Len(requests)
      BY <1>1, <2>1
    <2>3. requests[k].memory
      BY <1>1, <1>4, <2>2
    <2> QED BY <1>2, <2>2, <2>3
  <1> QED BY <1>2, <1>3, <1>4 DEF Listed

(* A read that is asked for comes last.                                    *)
LEMMA ReadRequest ==
    ASSUME MemoryConstants, NEW r \in Requests, requests' = Append(requests, r), r.memory, UNCHANGED <<out, announced>>,
           OutType, NEW w, NEW at, Listed(w, at), NEW s \in Span, s.idx = Len(requests) + 1, s.from = r.from,
           s.to = r.from + r.length, s.to <= announced, s.to # w
    PROVE  Listed(w, Append(at, s))'
  <1>1. /\ Len(requests') = Len(requests) + 1 /\ Len(requests) \in Nat
        /\ requests'[Len(requests) + 1] = r
        /\ \A k \in 1 .. Len(requests) : requests'[k] = requests[k]
    BY RequestsGrow
  <1>2. /\ at \in Seq(Span) /\ Sorted(at)
        /\ \A i \in 1 .. Len(at) : /\ SpanOK(w, at[i]) /\ requests[at[i].idx].memory
                                   /\ at[i].to <= announced /\ at[i].to # w
        /\ \A k \in 1 .. Len(requests) : requests[k].memory => \E i \in 1 .. Len(at) : at[i].idx = k
    BY DEF Listed
  <1>3. PICK q : q = Append(at, s)
    OBVIOUS
  <1>4. PICK a \in Nat, z \in Nat : a = Len(at) /\ z = Len(requests)
    BY <1>1, <1>2, LenProperties
  <1>5. q \in Seq(Span) /\ Len(q) = a + 1 /\ (\A i \in 1 .. a : q[i] = at[i]) /\ q[a + 1] = s
    BY <1>2, <1>3, <1>4, AppendFacts
  <1>6. SpanOK(w, s)' /\ requests'[s.idx].memory /\ s.idx = z + 1
    BY <1>1, <1>4 DEF SpanOK
  <1>7. ASSUME NEW i \in 1 .. a
        PROVE  /\ SpanOK(w, at[i])' /\ requests'[at[i].idx].memory
               /\ at[i].to <= announced' /\ at[i].to # w /\ at[i].idx <= z
    BY <1>2, <1>4, SpanGrow
  <1>8. \A i \in 1 .. a + 1 : /\ SpanOK(w, q[i])' /\ requests'[q[i].idx].memory
                              /\ q[i].to <= announced' /\ q[i].to # w
    <2>1. \A i \in 1 .. a + 1 : i \in 1 .. a \/ i = a + 1
      BY <1>4
    <2>2. /\ SpanOK(w, q[a + 1])' /\ requests'[q[a + 1].idx].memory
          /\ q[a + 1].to <= announced' /\ q[a + 1].to # w
      BY <1>5, <1>6
    <2>3. ASSUME NEW i \in 1 .. a
          PROVE  /\ SpanOK(w, q[i])' /\ requests'[q[i].idx].memory
                 /\ q[i].to <= announced' /\ q[i].to # w
      BY <1>5, <1>7
    <2> QED BY <2>1, <2>2, <2>3
  <1>9. ASSUME NEW i \in 1 .. a + 1, NEW j \in 1 .. a + 1, i < j PROVE q[i].idx < q[j].idx
    <2>1. i \in 1 .. a
      BY <1>4, <1>9
    <2>2. CASE j \in 1 .. a
      BY <1>2, <1>4, <1>5, <1>9, <2>1, <2>2 DEF Sorted
    <2>3. CASE j = a + 1
      <3>1. PICK k \in Nat : k = at[i].idx
        <4>1. at[i] \in Span
          BY <1>2, <1>4, <2>1, ElementOfSeq
        <4> QED BY <4>1 DEF Span
      <3>2. k <= z /\ q[i] = at[i] /\ q[j].idx = z + 1
        BY <1>5, <1>6, <1>7, <2>1, <2>3, <3>1
      <3> QED BY <1>4, <3>1, <3>2
    <2> QED BY <1>4, <2>2, <2>3
  <1>10. ASSUME NEW k \in 1 .. Len(requests'), requests'[k].memory PROVE \E i \in 1 .. a + 1 : q[i].idx = k
    <2>1. CASE k = z + 1
      BY <1>4, <1>5, <1>6, <2>1
    <2>2. CASE k # z + 1
      <3>1. k \in 1 .. Len(requests)
        BY <1>1, <1>4, <2>2
      <3>2. requests[k].memory
        BY <1>1, <1>10, <3>1
      <3>3. PICK i \in 1 .. a : at[i].idx = k
        BY <1>2, <1>4, <3>1, <3>2
      <3>4. i \in 1 .. a + 1 /\ q[i] = at[i]
        BY <1>4, <1>5
      <3> QED BY <3>3, <3>4
    <2> QED BY <2>1, <2>2
  <1>11. Sorted(q)
    BY <1>5, <1>9 DEF Sorted
  <1>12. Listed(w, q)'
    BY <1>5, <1>8, <1>10, <1>11 DEF Listed
  <1> QED BY <1>3, <1>12
(* A read more is behind those that are split.                             *)
LEMMA SplitGrow ==
    ASSUME NEW w, NEW at \in Seq(Span), NEW d, NEW u, Split(w, at, d, u), UNCHANGED <<chosen, breakdowns, splitter>>,
           NEW s \in Span, NEW q \in Cmds, q = Part(s.from, s.to), readCmds' = Append(readCmds, q)
    PROVE  Split(w, Append(at, s), d, u)'
  <1>1. /\ d \in Nat /\ u \in Nat
        /\ readCmds \in Seq(Cmds) /\ breakdowns \in Seq([double : BOOLEAN, offset : Lanes])
        /\ u = d + Len(breakdowns) /\ Len(at) = u + Len(readCmds)
        /\ \A i \in 1 .. Len(breakdowns) :
              /\ breakdowns[i].double <=> Cross(w, at[d + i].from, at[d + i].to)
              /\ Cross(w, at[d + i].from, at[d + i].to) =>
                    breakdowns[i].offset = (w - at[d + i].from) % WordBytes
        /\ \A i \in 1 .. Len(readCmds) : readCmds[i] = Part(at[u + i].from, at[u + i].to)
        /\ splitter \in [second : BOOLEAN, cmd : Cmds, first : Int]
        /\ splitter.second => /\ u # 0 /\ Cross(w, at[u].from, at[u].to)
                              /\ splitter.cmd = Part(at[u].from, at[u].to) /\ splitter.first = w - at[u].from
    BY DEF Split
  <1>2. PICK a2 : a2 = Append(at, s)
    OBVIOUS
  <1>3. PICK a \in Nat, b \in Nat, c \in Nat : a = Len(at) /\ b = Len(breakdowns) /\ c = Len(readCmds) /\ u = d + b /\ a = u + c
    BY <1>1, LenProperties
  <1>4. Len(a2) = a + 1 /\ (\A i \in 1 .. a : a2[i] = at[i]) /\ a2[a + 1] = s
    <2>1. Len(a2) = Len(at) + 1 /\ (\A i \in 1 .. Len(at) : a2[i] = at[i]) /\ a2[Len(at) + 1] = s
      BY <1>2, AppendFacts
    <2>2. Len(at) = a
      BY <1>3
    <2> QED BY <2>1, <2>2
  <1>5. /\ readCmds' \in Seq(Cmds) /\ Len(readCmds') = c + 1
        /\ \A i \in 1 .. c : readCmds'[i] = readCmds[i]
        /\ readCmds'[c + 1] = q
    BY <1>1, <1>3, AppendFacts
  <1>6. ASSUME NEW i \in 1 .. b PROVE a2[d + i] = at[d + i]
    <2>1. d + i \in 1 .. a
      BY <1>1, <1>3
    <2> QED BY <1>4, <2>1
  <1>7. ASSUME NEW i \in 1 .. c + 1 PROVE readCmds'[i] = Part(a2[u + i].from, a2[u + i].to)
    <2>1. CASE i \in 1 .. c
      <3>1. u + i \in 1 .. a
        BY <1>1, <1>3, <2>1
      <3>2. a2[u + i] = at[u + i]
        BY <1>4, <3>1
      <3> QED BY <1>1, <1>3, <1>5, <2>1, <3>2
    <2>2. CASE i = c + 1
      <3>1. u + i = a + 1
        BY <1>1, <1>3, <2>2
      <3> QED BY <1>4, <1>5, <2>2, <3>1
    <2> QED BY <1>3, <2>1, <2>2
  <1>8. u # 0 => a2[u] = at[u]
    <2>1. u # 0 => u \in 1 .. a
      BY <1>1, <1>3
    <2> QED BY <1>4, <2>1
  <1>9. \A e, f : Part(e, f)' = Part(e, f)
    BY Frozen
  <1>10. \A i \in 1 .. b :
            /\ breakdowns[i].double <=> Cross(w, a2[d + i].from, a2[d + i].to)
            /\ Cross(w, a2[d + i].from, a2[d + i].to) => breakdowns[i].offset = (w - a2[d + i].from) % WordBytes
    BY <1>1, <1>3, <1>6
  <1>11. splitter.second => /\ u # 0 /\ Cross(w, a2[u].from, a2[u].to)
                            /\ splitter.cmd = Part(a2[u].from, a2[u].to) /\ splitter.first = w - a2[u].from
    BY <1>1, <1>8
  <1>12. Len(a2) = u + (c + 1)
    BY <1>1, <1>3, <1>4
  <1>13. Split(w, a2, d, u)'
    BY <1>1, <1>3, <1>5, <1>7, <1>9, <1>10, <1>11, <1>12 DEF Split
  <1> QED BY <1>2, <1>13

LEMMA ReadsLonger ==
    ASSUME NEW w, NEW at \in Seq(Span), NEW u, NEW lab, NEW h, Reads(w, at, u, lab, h), UNCHANGED <<chosen, moverReads, splitter>>,
           NEW s \in Span
    PROVE  Reads(w, Append(at, s), u, lab, h)'
  <1>1. PICK a2 : a2 = Append(at, s)
    OBVIOUS
  <1>2. PICK a \in Nat : a = Len(at)
    BY LenProperties
  <1>3. Len(a2) = a + 1 /\ (\A i \in 1 .. a : a2[i] = at[i])
    BY <1>1, <1>2, AppendFacts
  <1>4. LabelsOf(w, at) \subseteq LabelsOf(w, a2)
    <2>1. ASSUME NEW e \in LabelsOf(w, at) PROVE e \in LabelsOf(w, a2)
      <3>1. e \in Labels /\ e.read \in 1 .. a
        BY <1>2 DEF LabelsOf
      <3>2. e.read \in 1 .. Len(a2) /\ a2[e.read] = at[e.read]
        BY <1>2, <1>3, <3>1
      <3> QED BY <3>1, <3>2 DEF LabelsOf
    <2> QED BY <2>1
  <1>5. Reads(w, at, u, lab, h)'
    BY ReadsSame
  <1>6. lab \in Seq(LabelsOf(w, a2))
    BY <1>4, SeqMonotone DEF Reads
  <1>7. Reads(w, a2, u, lab, h)'
    BY <1>5, <1>6 DEF Reads
  <1> QED BY <1>1, <1>7

(* The steps of the reading side for a read and for a segment that come    *)
(* in.                                                                     *)
LEMMA RReadIn ==
    ASSUME MemoryConstants, ChosenOK, Stable,
           NEW E, NEW x, NEW w, NEW at, NEW d, NEW u, NEW lab, NEW h, NEW n, NEW m, NEW y, NEW bq,
           RInv(E, x, w, at, d, u, lab, h, n, m, y, bq),
           NEW from \in 0 .. MaxBytes - 1, NEW length \in Lengths, ReadIn(from, length)
    PROVE  \E at2 : RInv(E, x, w, at2, d, u, lab, h, n, m, y, bq)'
  <1>1. /\ w = Wrap /\ Listed(w, at) /\ Split(w, at, d, u) /\ Reads(w, at, u, lab, h)
        /\ AlignerAt(w, at, d, h, n, m) /\ Bypassing(w, E, x, n, m, y, bq) /\ OutType
    BY HasRequests DEF RInv
  <1>2. /\ UNCHANGED <<chosen, side, announced, accepted, aligner, fetched, out, bypass, breakdowns, splitter, moverReads>>
        /\ isBypass' = IF side = "tx" THEN Append(isBypass, FALSE) ELSE isBypass
        /\ from + length <= announced /\ MayFit(from, length)
    BY DEF ReadIn, chosen, writing, gating
  <1>3. PICK f \in Nat, c \in Nat \ {0}, t \in Nat : f = from /\ c = length /\ t = f + c /\ f < t /\ t - f = c
    <2>1. MaxBytes \in Nat /\ length \in Nat \ {0}
      BY ConstantFacts DEF MemoryConstants, ConstantsOK
    <2>2. from \in Nat
      BY <2>1
    <2>3. PICK f \in Nat, c \in Nat \ {0} : f = from /\ c = length
      BY <2>1, <2>2
    <2>4. PICK t \in Nat : t = f + c
      OBVIOUS
    <2> QED BY <2>3, <2>4
  <1>4. t <= announced /\ t < BufferSize /\ t # w
    <2>1. PICK a \in Nat, b \in Nat : a = announced /\ b = BufferSize /\ a < b
      BY ConstantFacts DEF Stable
    <2>2. t <= a /\ t < b
      BY <1>2, <1>3, <2>1
    <2>3. MayFit(f, t - f)
      BY <1>2, <1>3
    <2>4. t # Wrap
      BY <1>3, <2>1, <2>2, <2>3, FitIs
    <2> QED BY <1>1, <2>1, <2>2, <2>4
  <1>5. PICK q \in Cmds : q = Part(f, t) /\ readCmds' = Append(readCmds, q)
    <2>1. f < BufferSize
      <3>1. PICK b \in Nat : b = BufferSize
        BY ConstantFacts
      <3> QED BY <1>3, <1>4, <3>1
    <2>2. Part(f, t) \in Cmds
      BY <2>1, PartFacts
    <2>3. Part(f, t) = Command(Address(from), length)
      BY <1>3 DEF Part
    <2> QED BY <2>2, <2>3 DEF ReadIn
  <1>6. PICK r \in Requests : /\ r.from = f /\ r.length = c /\ r.memory = TRUE /\ requests' = Append(requests, r)
    <2>1. [from |-> f, length |-> c, memory |-> TRUE] \in Requests
      BY <1>3 DEF Requests
    <2> QED BY <1>3, <2>1 DEF ReadIn
  <1>7. /\ OutType' /\ Len(requests') = Len(requests) + 1 /\ Len(requests) \in Nat
        /\ requests'[Len(requests) + 1] = r
        /\ \A k \in 1 .. Len(requests) : requests'[k] = requests[k]
    BY <1>1, <1>2, <1>6, RequestsGrow
  <1>8. PICK s \in Span : s.idx = Len(requests) + 1 /\ s.from = f /\ s.to = t
    <2>1. PICK z \in Nat : z = Len(requests) + 1
      BY <1>7
    <2>2. [idx |-> z, from |-> f, to |-> t] \in Span
      BY DEF Span
    <2> QED BY <2>1, <2>2
  <1>9. at \in Seq(Span) /\ d \in Nat
    BY <1>1 DEF Listed, Split
  <1>10. Listed(w, Append(at, s))'
    BY <1>1, <1>2, <1>3, <1>4, <1>6, <1>8, ReadRequest
  <1>11. Split(w, Append(at, s), d, u)'
    BY <1>1, <1>2, <1>5, <1>8, <1>9, SplitGrow
  <1>12. Reads(w, Append(at, s), u, lab, h)'
    BY <1>1, <1>2, <1>9, ReadsLonger
  <1>13. AlignerAt(w, Append(at, s), d, h, n, m)'
    <2>1. PICK a2 : a2 = Append(at, s)
      OBVIOUS
    <2>2. a2 = at \/ \E e \in Span : a2 = Append(at, e) /\ e.idx = Len(requests) + 1
      BY <1>8, <2>1
    <2>3. AlignerAt(w, a2, d, h, n, m)'
      BY <1>1, <1>2, <1>6, <1>9, <2>2, AlignerGrow
    <2> QED BY <2>1, <2>3
  <1>14. Wrap' = Wrap
    BY <1>2, Frozen
  <1>15. Bypassing(w, E, x, n, m, y, bq)'
    <2>1. CASE side # "tx"
      <3>1. \A k \in 1 .. Len(requests) : requests[k].memory
        BY <1>1, <2>1 DEF Bypassing
      <3>2. ASSUME NEW k \in 1 .. Len(requests') PROVE requests'[k].memory
        <4>1. k \in 1 .. Len(requests) \/ k = Len(requests) + 1
          BY <1>7
        <4> QED BY <1>6, <1>7, <3>1, <4>1
      <3> QED BY <1>2, <2>1, <3>2 DEF Bypassing
    <2>2. CASE side = "tx"
      <3>1. /\ isBypass \in Seq(BOOLEAN) /\ Len(requests) = Picked(n) + Len(isBypass)
            /\ \A i \in 1 .. Len(isBypass) : isBypass[i] <=> ~requests[Picked(n) + i].memory
            /\ bypass \in Seq(GoodWords(E, accepted)) /\ Chain(bypass, Lo, Hi, y, x)
            /\ bq \in Seq(Span) /\ Sorted(bq)
            /\ \A i \in 1 .. Len(bq) : /\ SpanOK(w, bq[i]) /\ Segment(E, bq[i].from, bq[i].to)
                                       /\ n < bq[i].idx /\ ~requests[bq[i].idx].memory
            /\ \A k \in n + 1 .. Len(requests) : ~requests[k].memory => \E i \in 1 .. Len(bq) : bq[i].idx = k
            /\ Chain(bq, BFrom, BTo, IF aligner.state = "NO_USE_DDR" THEN y - m * WordBytes ELSE y, accepted)
        BY <1>1, <2>2 DEF Bypassing
      <3>2. n \in Nat
        BY <1>1 DEF AlignerAt, Waiting, Passing, Reading, Done, Sent
      <3>3. PICK p \in Nat, l \in Nat, z \in Nat : p = Picked(n) /\ l = Len(isBypass) /\ z = Len(requests) /\ z = p + l
        <4>1. Picked(n) \in Nat /\ Len(isBypass) \in Nat /\ Len(requests) \in Nat
          BY <1>7, <3>1, <3>2, LenProperties DEF Picked
        <4> QED BY <3>1, <4>1
      <3>4. /\ isBypass' \in Seq(BOOLEAN) /\ Len(isBypass') = l + 1
            /\ \A i \in 1 .. l : isBypass'[i] = isBypass[i]
            /\ isBypass'[l + 1] = FALSE
        BY <1>2, <2>2, <3>1, <3>3, AppendFacts
      <3>5. ASSUME NEW i \in 1 .. l + 1 PROVE isBypass'[i] <=> ~requests'[p + i].memory
        <4>1. CASE i \in 1 .. l
          <5>1. p + i \in 1 .. z
            BY <3>3, <4>1
          <5>2. isBypass[i] <=> ~requests[p + i].memory
            BY <3>1, <3>3, <4>1
          <5>3. requests'[p + i] = requests[p + i] /\ isBypass'[i] = isBypass[i]
            BY <1>7, <3>3, <3>4, <4>1, <5>1
          <5> QED BY <5>2, <5>3
        <4>2. CASE i = l + 1
          <5>1. p + i = z + 1
            BY <3>3, <4>2
          <5>2. requests'[p + i].memory = TRUE
            BY <1>6, <1>7, <3>3, <5>1
          <5> QED BY <3>4, <4>2, <5>2
        <4> QED BY <3>3, <4>1, <4>2
      <3>6. ASSUME NEW i \in 1 .. Len(bq) PROVE SpanOK(w, bq[i])' /\ ~requests'[bq[i].idx].memory
        BY <1>1, <1>2, <1>6, <3>1, SpanGrow
      <3>7. ASSUME NEW k \in n + 1 .. Len(requests'), ~requests'[k].memory PROVE \E i \in 1 .. Len(bq) : bq[i].idx = k
        <4>1. k # z + 1
          BY <1>6, <1>7, <3>3, <3>7
        <4>2. k \in n + 1 .. Len(requests) /\ k \in 1 .. Len(requests)
          BY <1>7, <3>2, <3>3, <4>1
        <4>3. ~requests[k].memory
          BY <1>7, <3>7, <4>2
        <4> QED BY <3>1, <4>2, <4>3
      <3>8. Picked(n)' = p
        BY <1>2, <3>3 DEF Picked
      <3>9. Len(requests') = p + (l + 1)
        BY <1>7, <3>3
      <3> QED BY <1>2, <2>2, <3>1, <3>4, <3>5, <3>6, <3>7, <3>8, <3>9 DEF Bypassing
    <2> QED BY <2>1, <2>2
  <1>16. RInv(E, x, w, Append(at, s), d, u, lab, h, n, m, y, bq)'
    BY <1>1, <1>10, <1>11, <1>12, <1>13, <1>14, <1>15 DEF RInv
  <1> QED BY <1>16
LEMMA RSegmentIn ==
    ASSUME MemoryConstants, ChosenOK, NEW E, Cuts(E),
           NEW x, NEW w, NEW at, NEW d, NEW u, NEW lab, NEW h, NEW n, NEW m, NEW y, NEW bq,
           RInv(E, x, w, at, d, u, lab, h, n, m, y, bq), NEW length \in Lengths, SegmentIn(length),
           NEW p \in Nat, NEW q \in Nat, p = accepted, q = p + length, NEW F, F = E \cup {q}, accepted' = q,
           Segment(F, p, q)
    PROVE  \E bq2 : RInv(F, x, w, at, d, u, lab, h, n, m, y, bq2)'
  <1>1. /\ w = Wrap /\ Listed(w, at) /\ Split(w, at, d, u) /\ Reads(w, at, u, lab, h)
        /\ AlignerAt(w, at, d, h, n, m) /\ Bypassing(w, E, x, n, m, y, bq) /\ OutType
    BY HasRequests DEF RInv
  <1>2. /\ UNCHANGED <<chosen, side, announced, aligner, fetched, out, bypass, readCmds, breakdowns, splitter, moverReads>>
        /\ side = "tx" => /\ isBypass' = Append(isBypass, TRUE)
                          /\ requests' = Append(requests, [from |-> accepted, length |-> length, memory |-> FALSE])
        /\ side # "tx" => UNCHANGED <<isBypass, requests>>
    BY DEF SegmentIn, chosen
  <1>3. Wrap' = Wrap
    BY <1>2, Frozen
  <1>4. Split(w, at, d, u)' /\ Reads(w, at, u, lab, h)'
    BY <1>1, <1>2, SplitSame, ReadsSame
  <1>5. CASE side # "tx"
    <2>1. Listed(w, at)' /\ AlignerAt(w, at, d, h, n, m)'
      BY <1>1, <1>2, <1>5, ListedSame, AlignerSame
    <2>2. Bypassing(w, F, x, n, m, y, bq)'
      BY <1>1, <1>2, <1>5 DEF Bypassing
    <2>3. RInv(F, x, w, at, d, u, lab, h, n, m, y, bq)'
      BY <1>1, <1>3, <1>4, <2>1, <2>2 DEF RInv
    <2> QED BY <2>3
  <1>6. CASE side = "tx"
    <2>1. PICK r \in Requests : /\ r.from = p /\ r.length = length /\ r.memory = FALSE /\ requests' = Append(requests, r)
      <3>1. [from |-> p, length |-> length, memory |-> FALSE] \in Requests
        BY DEF Requests
      <3> QED BY <1>2, <1>6, <3>1
    <2>2. /\ OutType' /\ Len(requests') = Len(requests) + 1 /\ Len(requests) \in Nat
          /\ requests'[Len(requests) + 1] = r
          /\ \A k \in 1 .. Len(requests) : requests'[k] = requests[k]
      BY <1>1, <1>2, <2>1, RequestsGrow
    <2>3. at \in Seq(Span) /\ d \in Nat
      BY <1>1 DEF Listed, Split
    <2>4. Listed(w, at)'
      BY <1>1, <1>2, <2>1, BypassRequest
    <2>5. AlignerAt(w, at, d, h, n, m)'
      <3>1. PICK a2 : a2 = at
        OBVIOUS
      <3>2. a2 = at \/ \E e \in Span : a2 = Append(at, e) /\ e.idx = Len(requests) + 1
        BY <3>1
      <3>3. AlignerAt(w, a2, d, h, n, m)'
        BY <1>1, <1>2, <2>1, <2>3, <3>2, AlignerGrow
      <3> QED BY <3>1, <3>3
    <2>6. /\ isBypass \in Seq(BOOLEAN) /\ Len(requests) = Picked(n) + Len(isBypass)
          /\ \A i \in 1 .. Len(isBypass) : isBypass[i] <=> ~requests[Picked(n) + i].memory
          /\ bypass \in Seq(GoodWords(E, accepted)) /\ Chain(bypass, Lo, Hi, y, x)
          /\ bq \in Seq(Span) /\ Sorted(bq)
          /\ \A i \in 1 .. Len(bq) : /\ SpanOK(w, bq[i]) /\ Segment(E, bq[i].from, bq[i].to)
                                     /\ n < bq[i].idx /\ ~requests[bq[i].idx].memory
          /\ \A k \in n + 1 .. Len(requests) : ~requests[k].memory => \E i \in 1 .. Len(bq) : bq[i].idx = k
          /\ Chain(bq, BFrom, BTo, IF aligner.state = "NO_USE_DDR" THEN y - m * WordBytes ELSE y, accepted)
      BY <1>1, <1>6 DEF Bypassing
    <2>7. n \in Nat /\ n <= Len(requests)
      <3>1. n \in Nat /\ (n <= Len(requests) \/ n + 1 <= Len(requests))
        BY <1>1 DEF AlignerAt, Waiting, Passing, Reading, Done, Sent
      <3> QED BY <2>2, <3>1
    <2>8. PICK a \in Nat, l \in Nat, z \in Nat, b \in Nat :
             a = Picked(n) /\ l = Len(isBypass) /\ z = Len(requests) /\ z = a + l /\ b = Len(bq)
      <3>1. Picked(n) \in Nat /\ Len(isBypass) \in Nat /\ Len(requests) \in Nat /\ Len(bq) \in Nat
        BY <2>2, <2>6, <2>7, LenProperties DEF Picked
      <3> QED BY <2>6, <3>1
    <2>9. /\ isBypass' \in Seq(BOOLEAN) /\ Len(isBypass') = l + 1
          /\ \A i \in 1 .. l : isBypass'[i] = isBypass[i]
          /\ isBypass'[l + 1] = TRUE
      <3>1. /\ isBypass' \in Seq(BOOLEAN) /\ Len(isBypass') = Len(isBypass) + 1
            /\ \A i \in 1 .. Len(isBypass) : isBypass'[i] = isBypass[i]
            /\ isBypass'[Len(isBypass) + 1] = TRUE
        <4>1. PICK v \in BOOLEAN : v = TRUE
          OBVIOUS
        <4>1a. PICK s : s = isBypass
          OBVIOUS
        <4>2. s \in Seq(BOOLEAN) /\ isBypass' = Append(s, v)
          BY <1>2, <1>6, <2>6, <4>1, <4>1a
        <4>3. /\ Append(s, v) \in Seq(BOOLEAN) /\ Len(Append(s, v)) = Len(s) + 1
              /\ \A i \in 1 .. Len(s) : Append(s, v)[i] = s[i]
              /\ Append(s, v)[Len(s) + 1] = v
          BY <4>2, AppendFacts
        <4> QED BY <4>1a, <4>1, <4>2, <4>3
      <3> QED BY <2>8, <3>1
    <2>10. ASSUME NEW i \in 1 .. l + 1 PROVE isBypass'[i] <=> ~requests'[a + i].memory
      <3>1. CASE i \in 1 .. l
        <4>1. a + i \in 1 .. z
          BY <2>8, <3>1
        <4>2. isBypass[i] <=> ~requests[a + i].memory
          BY <2>6, <2>8, <3>1
        <4>3. requests'[a + i] = requests[a + i] /\ isBypass'[i] = isBypass[i]
          BY <2>2, <2>8, <2>9, <3>1, <4>1
        <4> QED BY <4>2, <4>3
      <3>2. CASE i = l + 1
        <4>1. a + i = z + 1
          BY <2>8, <3>2
        <4>2. requests'[a + i].memory = FALSE
          BY <2>1, <2>2, <2>8, <4>1
        <4> QED BY <2>9, <3>2, <4>2
      <3> QED BY <2>8, <3>1, <3>2
    <2>11. PICK e \in Span : e.idx = z + 1 /\ e.from = p /\ e.to = q
      <3>1. [idx |-> z + 1, from |-> p, to |-> q] \in Span
        BY <2>8 DEF Span
      <3> QED BY <3>1
    <2>12. PICK b2 : b2 = Append(bq, e)
      OBVIOUS
    <2>13. b2 \in Seq(Span) /\ Len(b2) = b + 1 /\ (\A i \in 1 .. b : b2[i] = bq[i]) /\ b2[b + 1] = e
      <3>1. b2 \in Seq(Span) /\ Len(b2) = Len(bq) + 1 /\ (\A i \in 1 .. Len(bq) : b2[i] = bq[i]) /\ b2[Len(bq) + 1] = e
        BY <2>6, <2>12, AppendFacts
      <3> QED BY <2>8, <3>1
    <2>14. \A i \in 1 .. b : bq[i].idx \in Nat /\ bq[i].idx <= z
      <3>1. ASSUME NEW i \in 1 .. b PROVE bq[i].idx \in Nat /\ bq[i].idx <= z
        <4>1. SpanOK(w, bq[i])
          BY <2>6, <2>8
        <4>2. PICK j \in 1 .. z : j = bq[i].idx
          BY <2>8, <4>1 DEF SpanOK
        <4> QED BY <2>8, <4>2
      <3> QED BY <3>1
    <2>15. Sorted(b2)
      <3>1. ASSUME NEW i \in 1 .. b + 1, NEW j \in 1 .. b + 1, i < j PROVE b2[i].idx < b2[j].idx
        <4>1. i \in 1 .. b
          BY <2>8, <3>1
        <4>2. CASE j \in 1 .. b
          BY <2>6, <2>8, <2>13, <3>1, <4>1, <4>2 DEF Sorted
        <4>3. CASE j = b + 1
          <5>1. PICK k \in Nat : k = bq[i].idx /\ k <= z
            BY <2>14, <4>1
          <5>2. b2[i].idx = k /\ b2[j].idx = z + 1
            BY <2>11, <2>13, <4>1, <4>3, <5>1
          <5> QED BY <2>8, <5>1, <5>2
        <4> QED BY <2>8, <4>2, <4>3
      <3> QED BY <2>13, <3>1 DEF Sorted
    <2>16. /\ E \in SUBSET Nat /\ F \in SUBSET Nat /\ E \subseteq 0 .. p /\ p < q
           /\ GoodWords(E, p) \subseteq GoodWords(F, q) /\ \A i, j : Segment(E, i, j) => Segment(F, i, j)
      <3>1. E \in SUBSET Nat /\ E \subseteq 0 .. p
        BY BufferBelow DEF Cuts
      <3>2. p < q
        BY DEF Segment
      <3>3. F \in SUBSET Nat
        BY <3>1
      <3> QED BY <3>1, <3>2, <3>3, CutsGrow
    <2>17. ASSUME NEW i \in 1 .. b + 1
           PROVE  /\ SpanOK(w, b2[i])' /\ Segment(F, b2[i].from, b2[i].to)
                  /\ n < b2[i].idx /\ ~requests'[b2[i].idx].memory
      <3>1. CASE i \in 1 .. b
        <4>1. b2[i] = bq[i] /\ SpanOK(w, bq[i]) /\ Segment(E, bq[i].from, bq[i].to) /\ n < bq[i].idx /\ ~requests[bq[i].idx].memory
          BY <2>6, <2>8, <2>13, <3>1
        <4>2. SpanOK(w, bq[i])' /\ requests'[bq[i].idx] = requests[bq[i].idx]
          BY <1>1, <1>2, <2>1, <4>1, SpanGrow
        <4> QED BY <2>16, <4>1, <4>2
      <3>2. CASE i = b + 1
        <4>1. b2[i] = e
          BY <2>13, <3>2
        <4>2. z + 1 \in 1 .. Len(requests') /\ requests'[z + 1] = r /\ n < z + 1
          BY <2>2, <2>7, <2>8
        <4>3. SpanOK(w, e)'
          BY <2>1, <2>11, <4>2 DEF SpanOK
        <4> QED BY <2>1, <2>11, <4>1, <4>2, <4>3
      <3> QED BY <2>8, <3>1, <3>2
    <2>18. ASSUME NEW k \in n + 1 .. Len(requests'), ~requests'[k].memory PROVE \E i \in 1 .. b + 1 : b2[i].idx = k
      <3>1. CASE k = z + 1
        <4>1. b + 1 \in 1 .. b + 1 /\ b2[b + 1].idx = k
          BY <2>8, <2>11, <2>13, <3>1
        <4> QED BY <4>1
      <3>2. CASE k # z + 1
        <4>1. k \in n + 1 .. Len(requests) /\ k \in 1 .. Len(requests)
          BY <2>2, <2>7, <2>8, <3>2
        <4>2. ~requests[k].memory
          BY <2>2, <2>18, <4>1
        <4>3. PICK i \in 1 .. b : bq[i].idx = k
          BY <2>6, <2>8, <4>1, <4>2
        <4>4. i \in Nat /\ 1 <= i /\ i <= b /\ b \in Nat
          BY <2>8, <4>3
        <4>5. i \in 1 .. b + 1
          BY <4>4
        <4>6. b2[i] = bq[i]
          BY <2>13, <4>3
        <4> QED BY <4>3, <4>5, <4>6
      <3> QED BY <3>1, <3>2
    <2>19. Chain(b2, BFrom, BTo, IF aligner.state = "NO_USE_DDR" THEN y - m * WordBytes ELSE y, q)
      <3>1. BFrom[e] = p /\ BTo[e] = q
        BY <2>11 DEF BFrom, BTo
      <3>2. PICK v : v = IF aligner.state = "NO_USE_DDR" THEN y - m * WordBytes ELSE y
        OBVIOUS
      <3>3. Chain(bq, BFrom, BTo, v, p)
        BY <2>6, <3>2
      <3>4. Chain(Append(bq, e), BFrom, BTo, v, q)
        BY <2>6, <2>16, <3>1, <3>3, ChainAppend
      <3> QED BY <2>12, <3>2, <3>4
    <2>20. bypass \in Seq(GoodWords(F, q))
      <3>1. PICK S, T : S = GoodWords(E, p) /\ T = GoodWords(F, q)
        OBVIOUS
      <3>2. bypass \in Seq(S) /\ S \subseteq T
        BY <2>6, <2>16, <3>1
      <3>3. PICK v : v = bypass
        OBVIOUS
      <3>4. v \in Seq(T)
        BY <3>2, <3>3, SeqMonotone
      <3> QED BY <3>1, <3>3, <3>4
    <2>21. Picked(n)' = a /\ Len(requests') = a + (l + 1)
      BY <1>2, <2>2, <2>8 DEF Picked
    <2>22. Bypassing(w, F, x, n, m, y, b2)'
      BY <1>2, <1>6, <2>6, <2>9, <2>10, <2>13, <2>15, <2>17, <2>18, <2>19, <2>20, <2>21 DEF Bypassing
    <2>23. RInv(F, x, w, at, d, u, lab, h, n, m, y, b2)'
      BY <1>1, <1>3, <1>4, <2>4, <2>5, <2>22 DEF RInv
    <2> QED BY <2>23
  <1> QED BY <1>5, <1>6
-----------------------------------------------------------------------------
(* The inductive invariant: what the writer's side and the reader's side   *)
(* are at, for the same cuts of the stream and the same way of the words   *)
(* through DataBroadcast.                                                  *)
WriteSide(E, x) == \E t, o, c, s, k, g, e, z : WInv(E, x, t, o, c, s, k, g, e, z)
ReadSide(E, x) == \E w, at, d, u, lab, h, n, m, y, bq : RInv(E, x, w, at, d, u, lab, h, n, m, y, bq)
WayBack == \E E, x : WriteSide(E, x) /\ ReadSide(E, x)

(* At the beginning nothing is asked for.                                  *)
LEMMA RInit ==
    ASSUME MemoryConstants, Init
    PROVE  ReadSide({0}, 0)
  <1>1. /\ ChosenOK /\ accepted = 0 /\ announced = 0 /\ requests = <<>> /\ out = <<>> /\ readCmds = <<>> /\ fetched = 0
        /\ splitter = [second |-> FALSE, cmd |-> Command(0, 0), first |-> 0] /\ moverReads = <<>> /\ breakdowns = <<>>
        /\ bypass = <<>> /\ isBypass = <<>> /\ aligner = [state |-> FirstState, offset |-> 0, prev |-> Empty]
    BY DEF Init, ChosenOK
  <1>2. \A S, lo, hi, from, to : <<>> \in Seq(S) /\ Len(<<>>) = 0
    BY EmptySeq
  <1>3. PICK w : w = Wrap
    OBVIOUS
  <1>4. Listed(w, <<>>)
    <2>1. Sorted(<<>>)
      BY <1>2 DEF Sorted
    <2> QED BY <1>1, <1>2, <2>1 DEF Listed
  <1>5. Split(w, <<>>, 0, 0)
    <2>1. splitter \in [second : BOOLEAN, cmd : Cmds, first : Int] /\ ~splitter.second
      BY <1>1 DEF Command, Cmds
    <2> QED BY <1>1, <1>2, <2>1 DEF Split
  <1>6. Reads(w, <<>>, 0, <<>>, 2)
    <2>1. ~splitter.second /\ 2 * 0 + 2 = 2
      BY <1>1
    <2>2. Chain(<<>>, LFrom, LTo, 2, 2)
      BY ChainEmpty
    <2> QED BY <1>1, <1>2, <2>1, <2>2 DEF Reads
  <1>7. AlignerAt(w, <<>>, 0, 2, 0, 0)
    <2>1. aligner.state = IF side = "tx" THEN "READ_BYPASS" ELSE "READ_ACCESS"
      BY <1>1 DEF FirstState
    <2>2. AlignerType
      <3>1. 0 \in Lanes
        BY ConstantFacts DEF Lanes
      <3>2. Empty \in Data
        BY DEF Empty, Data
      <3>3. aligner.state \in AlignerStates
        BY <2>1 DEF AlignerStates
      <3> QED BY <1>1, <3>1, <3>2, <3>3 DEF AlignerType
    <2>3. Done(0)
      BY <1>1, <1>2 DEF Done, OutType, Complete
    <2>4. After(<<>>, 0, 0)
      BY <1>2 DEF After
    <2>5. Waiting(<<>>, 0, 2, 0)
      BY <1>1, <2>1, <2>3, <2>4 DEF Waiting
    <2> QED BY <2>2, <2>5 DEF AlignerAt
  <1>8. Bypassing(w, {0}, 0, 0, 0, 0, <<>>)
    <2>1. CASE side # "tx"
      BY <1>1, <1>2, <2>1 DEF Bypassing
    <2>2. CASE side = "tx"
      <3>1. aligner.state = "READ_BYPASS" /\ Picked(0) = 0
        BY <1>1, <2>2 DEF FirstState, Picked
      <3>2. Sorted(<<>>)
        BY <1>2 DEF Sorted
      <3>3. \A from, to : Chain(<<>>, from, to, 0, 0)
        BY ChainEmpty
      <3> QED BY <1>1, <1>2, <2>2, <3>1, <3>2, <3>3 DEF Bypassing
    <2> QED BY <2>1, <2>2
  <1>9. RInv({0}, 0, w, <<>>, 0, 0, <<>>, 2, 0, 0, 0, <<>>)
    BY <1>3, <1>4, <1>5, <1>6, <1>7, <1>8 DEF RInv
  <1> QED BY <1>9 DEF ReadSide

(* What the reader needs of the writing side: what is announced is in the  *)
(* memory.                                                                 *)
LEMMA WriteSideFacts ==
    ASSUME MemoryConstants, NEW E, NEW x, WriteSide(E, x)
    PROVE  ChosenOK /\ Cuts(E) /\ Stable /\ announced \in Nat
  <1>1. PICK t, o, c, s, k, g, e, z : WInv(E, x, t, o, c, s, k, g, e, z)
    BY DEF WriteSide
  <1>2. ChosenOK /\ Cuts(E)
    BY <1>1 DEF WInv
  <1>3. \A n \in 0 .. announced - 1 : memory[Address(n)] = n
    BY <1>1, AnnouncedWritten
  <1>4. announced \in Nat /\ announced < BufferSize
    <2>1. announced \in Nat /\ accepted \in Nat /\ accepted < BufferSize /\ announced <= accepted
      BY <1>2 DEF Cuts
    <2> QED BY <2>1, ConstantFacts
  <1> QED BY <1>2, <1>3, <1>4 DEF Stable

(* A side that is not concerned stays as it is.                            *)
LEMMA WriteSideSame ==
    ASSUME NEW E, NEW x, WriteSide(E, x), UNCHANGED <<chosen, writing, gating, memory>>
    PROVE  WriteSide(E, x)'
  <1>1. PICK t, o, c, s, k, g, e, z : WInv(E, x, t, o, c, s, k, g, e, z)
    BY DEF WriteSide
  <1>2. WInv(E, x, t, o, c, s, k, g, e, z)'
    BY <1>1, WSame
  <1> QED BY <1>2 DEF WriteSide

LEMMA ReadSideSame ==
    ASSUME NEW E, NEW x, ReadSide(E, x), UNCHANGED <<chosen, accepted, bypass, reading>>,
           announced \in Nat, announced' \in Nat, announced <= announced'
    PROVE  ReadSide(E, x)'
  <1>1. PICK w, at, d, u, lab, h, n, m, y, bq : RInv(E, x, w, at, d, u, lab, h, n, m, y, bq)
    BY DEF ReadSide
  <1>2. RInv(E, x, w, at, d, u, lab, h, n, m, y, bq)'
    BY <1>1, RSame
  <1> QED BY <1>2 DEF ReadSide

(* The steps of the writer, of the Data Mover and of the gate.             *)
LEMMA StepWriter ==
    ASSUME MemoryConstants, NEW E, NEW x, WriteSide(E, x), ReadSide(E, x), WriterStep
    PROVE  WriteSide(E, x)' /\ ReadSide(E, x)'
  <1>1. PICK t, o, c, s, k, g, e, z : WInv(E, x, t, o, c, s, k, g, e, z)
    BY DEF WriteSide
  <1>2. WriterFrame /\ (WaitCommand \/ ForwardAll \/ ForwardFirst \/ ForwardSecond \/ ForwardExtra)
    BY DEF WriterStep, WriterFrame
  <1>3. \E t2, o2, c2 : WInv(E, x, t2, o2, c2, s, k, g, e, z)'
    <2>1. CASE WaitCommand
      BY <1>1, <1>2, <2>1, WWaitCommand
    <2>2. CASE ForwardAll
      BY <1>1, <1>2, <2>2, WForwardAll
    <2>3. CASE ForwardFirst
      BY <1>1, <1>2, <2>3, WForwardFirst
    <2>4. CASE ForwardSecond
      BY <1>1, <1>2, <2>4, WForwardSecond
    <2>5. CASE ForwardExtra
      BY <1>1, <1>2, <2>5, WForwardExtra
    <2> QED BY <1>2, <2>1, <2>2, <2>3, <2>4, <2>5
  <1>4. WriteSide(E, x)'
    BY <1>3 DEF WriteSide
  <1>5. UNCHANGED <<chosen, accepted, bypass, reading, announced>>
    BY <1>2 DEF WriterFrame, gating
  <1>6. announced \in Nat
    BY WriteSideFacts
  <1>7. announced' \in Nat /\ announced <= announced'
    BY <1>5, <1>6
  <1>8. ReadSide(E, x)'
    BY <1>5, <1>6, <1>7, ReadSideSame
  <1> QED BY <1>4, <1>8

LEMMA StepMover ==
    ASSUME MemoryConstants, NEW E, NEW x, WriteSide(E, x), ReadSide(E, x), MoverWrite
    PROVE  WriteSide(E, x)' /\ ReadSide(E, x)'
  <1>1. PICK t, o, c, s, k, g, e, z : WInv(E, x, t, o, c, s, k, g, e, z)
    BY DEF WriteSide
  <1>2. \E s2, k2, z2 : WInv(E, x, t, o, c, s2, k2, g, e, z2)'
    BY <1>1, WMoverWrite
  <1>3. WriteSide(E, x)'
    BY <1>2 DEF WriteSide
  <1>4. UNCHANGED <<chosen, accepted, bypass, reading, announced>>
    BY DEF MoverWrite, gating
  <1>5. announced \in Nat
    BY WriteSideFacts
  <1>6. announced' \in Nat /\ announced <= announced'
    BY <1>4, <1>5
  <1>7. ReadSide(E, x)'
    BY <1>4, <1>5, <1>6, ReadSideSame
  <1> QED BY <1>3, <1>7

LEMMA StepGate ==
    ASSUME MemoryConstants, NEW E, NEW x, WriteSide(E, x), ReadSide(E, x),
           txAppStatusHandler \/ rxEngAppNotificationDelayer
    PROVE  WriteSide(E, x)' /\ ReadSide(E, x)'
  <1>1. PICK t, o, c, s, k, g, e, z : WInv(E, x, t, o, c, s, k, g, e, z)
    BY DEF WriteSide
  <1>2. \E g2, e2, z2 : WInv(E, x, t, o, c, s, k, g2, e2, z2)' /\ announced' \in E /\ announced <= announced'
    BY <1>1, WGateTx, WGateRx
  <1>3. WriteSide(E, x)' /\ announced' \in E /\ announced <= announced'
    BY <1>2 DEF WriteSide
  <1>4. UNCHANGED <<chosen, accepted, bypass, reading>>
    BY DEF txAppStatusHandler, rxEngAppNotificationDelayer, GateFrame
  <1>5. announced \in Nat /\ E \in SUBSET Nat
    BY WriteSideFacts, BufferBelow
  <1>6. announced' \in Nat
    BY <1>3, <1>5
  <1>7. ReadSide(E, x)'
    BY <1>3, <1>4, <1>5, <1>6, ReadSideSame
  <1> QED BY <1>3, <1>7

(* The steps of the splitter and of the aligner.                           *)
LEMMA StepSplitter ==
    ASSUME MemoryConstants, NEW E, NEW x, WriteSide(E, x), ReadSide(E, x), SplitterStep
    PROVE  WriteSide(E, x)' /\ ReadSide(E, x)'
  <1>1. PICK w, at, d, u, lab, h, n, m, y, bq : RInv(E, x, w, at, d, u, lab, h, n, m, y, bq)
    BY DEF ReadSide
  <1>2. ChosenOK /\ Stable
    BY WriteSideFacts
  <1>3. \E u2, lab2 : RInv(E, x, w, at, d, u2, lab2, h, n, m, y, bq)'
    <2>1. CASE splitter.second
      BY <1>1, <1>2, <2>1, RSplitSecond
    <2>2. CASE ~splitter.second
      BY <1>1, <1>2, <2>2, RSplitFirst
    <2> QED BY <2>1, <2>2
  <1>4. ReadSide(E, x)'
    BY <1>3 DEF ReadSide
  <1>5. UNCHANGED <<chosen, writing, gating, memory>>
    BY DEF SplitterStep
  <1>6. WriteSide(E, x)'
    BY <1>5, WriteSideSame
  <1> QED BY <1>4, <1>6

LEMMA StepAligner ==
    ASSUME MemoryConstants, NEW E, NEW x, WriteSide(E, x), ReadSide(E, x), AlignerStep
    PROVE  WriteSide(E, x)' /\ ReadSide(E, x)'
  <1>1. PICK w, at, d, u, lab, h, n, m, y, bq : RInv(E, x, w, at, d, u, lab, h, n, m, y, bq)
    BY DEF ReadSide
  <1>2. ChosenOK /\ Stable /\ Cuts(E)
    BY WriteSideFacts
  <1>3. /\ AlignerFrame
        /\ \/ ReadAccess \/ PassWord \/ FirstBlock \/ FirstMerge \/ SecondBlock \/ ExtraData
           \/ ReadBypass \/ NoUseDdr
    BY DEF AlignerStep, AlignerFrame
  <1>4. ReadSide(E, x)'
    <2>1. CASE ReadAccess
      <3>1. RInv(E, x, w, at, d + 1, u, lab, h, n, 0, y, bq)'
        BY <1>1, <1>2, <1>3, <2>1, RReadAccess
      <3> QED BY <3>1 DEF ReadSide
    <2>2. CASE PassWord
      <3>1. \E lab2, h2, n2, m2 : RInv(E, x, w, at, d, u, lab2, h2, n2, m2, y, bq)'
        BY <1>1, <1>2, <1>3, <2>2, RPassWord
      <3> QED BY <3>1 DEF ReadSide
    <2>3. CASE FirstBlock
      <3>1. \E lab2, h2, n2, m2 : RInv(E, x, w, at, d, u, lab2, h2, n2, m2, y, bq)'
        BY <1>1, <1>2, <1>3, <2>3, RFirstBlock
      <3> QED BY <3>1 DEF ReadSide
    <2>4. CASE FirstMerge \/ SecondBlock
      <3>1. \E lab2, h2, n2, m2 : RInv(E, x, w, at, d, u, lab2, h2, n2, m2, y, bq)'
        BY <1>1, <1>2, <1>3, <2>4, RMergeWord
      <3> QED BY <3>1 DEF ReadSide
    <2>5. CASE ExtraData
      <3>1. \E lab2, h2, n2, m2 : RInv(E, x, w, at, d, u, lab2, h2, n2, m2, y, bq)'
        BY <1>1, <1>2, <1>3, <2>5, RExtraData
      <3> QED BY <3>1 DEF ReadSide
    <2>6. CASE ReadBypass
      <3>1. RInv(E, x, w, at, d, u, lab, h, n, 0, y, bq)'
        BY <1>1, <1>2, <1>3, <2>6, RReadBypass
      <3> QED BY <3>1 DEF ReadSide
    <2>7. CASE NoUseDdr
      <3>1. \E n2, m2, y2, bq2 : RInv(E, x, w, at, d, u, lab, h, n2, m2, y2, bq2)'
        BY <1>1, <1>2, <1>3, <2>7, RNoUseDdr
      <3> QED BY <3>1 DEF ReadSide
    <2> QED BY <1>3, <2>1, <2>2, <2>3, <2>4, <2>5, <2>6, <2>7
  <1>5. WriteSide(E, x)'
    BY <1>3, WriteSideSame DEF AlignerFrame
  <1> QED BY <1>4, <1>5

(* What comes in.                                                          *)
LEMMA StepBroadcast ==
    ASSUME MemoryConstants, NEW E, NEW x, WriteSide(E, x), ReadSide(E, x), DataBroadcast
    PROVE  WayBack'
  <1>1. PICK t, o, c, s, k, g, e, z : WInv(E, x, t, o, c, s, k, g, e, z)
    BY DEF WriteSide
  <1>2. PICK w, at, d, u, lab, h, n, m, y, bq : RInv(E, x, w, at, d, u, lab, h, n, m, y, bq)
    BY DEF ReadSide
  <1>3. PICK x2 \in Nat : /\ Head(input) \in GoodWords(E, accepted) /\ Lo[Head(input)] = x /\ Hi[Head(input)] = x2
                          /\ WInv(E, x2, t, o, c, s, k, g, e, z)'
    BY <1>1, WDataBroadcast
  <1>4. ChosenOK
    BY WriteSideFacts
  <1>5. RInv(E, x2, w, at, d, u, lab, h, n, m, y, bq)'
    BY <1>2, <1>3, <1>4, RDataBroadcast
  <1>6. WriteSide(E, x2)' /\ ReadSide(E, x2)'
    BY <1>3, <1>5 DEF WriteSide, ReadSide
  <1> QED BY <1>6 DEF WayBack

LEMMA StepSegmentIn ==
    ASSUME MemoryConstants, NEW E, NEW x, WriteSide(E, x), ReadSide(E, x), NEW length \in Lengths, SegmentIn(length)
    PROVE  WayBack'
  <1>1. PICK t, o, c, s, k, g, e, z : WInv(E, x, t, o, c, s, k, g, e, z)
    BY DEF WriteSide
  <1>2. PICK w, at, d, u, lab, h, n, m, y, bq : RInv(E, x, w, at, d, u, lab, h, n, m, y, bq)
    BY DEF ReadSide
  <1>3. PICK p, q, F :
              /\ p \in Nat /\ q \in Nat /\ p = accepted /\ q = p + length /\ F = E \cup {q} /\ accepted' = q
              /\ Segment(F, p, q) /\ WInv(F, x, t, o, c, s, k, g, e, z)'
    BY <1>1, WSegmentIn
  <1>4. ChosenOK /\ Cuts(E)
    BY WriteSideFacts
  <1>5. \E bq2 : RInv(F, x, w, at, d, u, lab, h, n, m, y, bq2)'
    BY <1>2, <1>3, <1>4, RSegmentIn
  <1>6. WriteSide(F, x)' /\ ReadSide(F, x)'
    BY <1>3, <1>5 DEF WriteSide, ReadSide
  <1> QED BY <1>6 DEF WayBack

LEMMA StepReadIn ==
    ASSUME MemoryConstants, NEW E, NEW x, WriteSide(E, x), ReadSide(E, x),
           NEW from \in 0 .. MaxBytes - 1, NEW length \in Lengths, ReadIn(from, length)
    PROVE  WriteSide(E, x)' /\ ReadSide(E, x)'
  <1>1. PICK w, at, d, u, lab, h, n, m, y, bq : RInv(E, x, w, at, d, u, lab, h, n, m, y, bq)
    BY DEF ReadSide
  <1>2. ChosenOK /\ Stable
    BY WriteSideFacts
  <1>3. \E at2 : RInv(E, x, w, at2, d, u, lab, h, n, m, y, bq)'
    BY <1>1, <1>2, RReadIn
  <1>4. ReadSide(E, x)'
    BY <1>3 DEF ReadSide
  <1>5. UNCHANGED <<chosen, writing, gating, memory>>
    BY DEF ReadIn
  <1>6. WriteSide(E, x)'
    BY <1>5, WriteSideSame
  <1> QED BY <1>4, <1>6

(* Each step keeps both sides.                                             *)
LEMMA WayBackNext ==
    ASSUME MemoryConstants, WayBack, [Next]_vars
    PROVE  WayBack'
  <1>1. PICK E, x : WriteSide(E, x) /\ ReadSide(E, x)
    BY DEF WayBack
  <1>2. CASE DataBroadcast
    BY <1>1, <1>2, StepBroadcast
  <1>3. CASE WriterStep
    BY <1>1, <1>3, StepWriter DEF WayBack
  <1>4. CASE txAppStatusHandler \/ rxEngAppNotificationDelayer
    BY <1>1, <1>4, StepGate DEF WayBack
  <1>5. CASE SplitterStep
    BY <1>1, <1>5, StepSplitter DEF WayBack
  <1>6. CASE AlignerStep
    BY <1>1, <1>6, StepAligner DEF WayBack
  <1>7. CASE MoverWrite
    BY <1>1, <1>7, StepMover DEF WayBack
  <1>8. CASE Environment
    <2>1. ASSUME NEW length \in Lengths, SegmentIn(length) PROVE WayBack'
      BY <1>1, <2>1, StepSegmentIn
    <2>2. ASSUME NEW from \in 0 .. MaxBytes - 1, NEW length \in Lengths, ReadIn(from, length) PROVE WayBack'
      <3>1. WriteSide(E, x)' /\ ReadSide(E, x)'
        BY <1>1, <2>2, StepReadIn
      <3> QED BY <3>1 DEF WayBack
    <2> QED BY <1>8, <2>1, <2>2 DEF Environment
  <1>9. CASE UNCHANGED vars
    <2>1. UNCHANGED <<chosen, writing, gating, memory, accepted, bypass, reading, announced>>
      BY <1>9 DEF vars, writing, gating
    <2>2. WriteSide(E, x)'
      BY <1>1, <2>1, WriteSideSame
    <2>3. announced \in Nat
      BY <1>1, WriteSideFacts
    <2>4. announced' \in Nat /\ announced <= announced'
      BY <2>1, <2>3
    <2>5. ReadSide(E, x)'
      BY <1>1, <2>1, <2>3, <2>4, ReadSideSame
    <2> QED BY <2>2, <2>5 DEF WayBack
  <1>10. \/ DataBroadcast \/ WriterStep \/ (txAppStatusHandler \/ rxEngAppNotificationDelayer)
         \/ SplitterStep \/ AlignerStep \/ MoverWrite \/ Environment \/ UNCHANGED vars
    BY
    DEF Next, System, tx_Data_to_Memory, Rx_Data_to_Memory, tx_ReadMemAccessBreakdown, app_ReadMemAccessBreakdown,
           tx_MemDataRead_aligner, app_MemDataRead_aligner
  <1> QED BY <1>2, <1>3, <1>4, <1>5, <1>6, <1>7, <1>8, <1>9, <1>10

(* The invariant implies the property.                                     *)
LEMMA WayBackReads ==
    ASSUME MemoryConstants, WayBack
    PROVE  ReadsWhatWasWritten
  <1>1. PICK E, x, w, at, d, u, lab, h, n, m, y, bq : RInv(E, x, w, at, d, u, lab, h, n, m, y, bq)
    BY DEF WayBack, ReadSide
  <1>2. Done(n) \/ Sent(n, m)
    BY <1>1 DEF RInv, AlignerAt, Waiting, Passing, Reading
  <1> QED BY <1>2, DoneReads, SentReads

-----------------------------------------------------------------------------
(* The strengthened invariant: at each moment the stream can be cut at the *)
(* ends of the segments so that every FIFO, the two shifting processes and *)
(* the gate of MemoryAccess hold their pieces of it.                       *)
THEOREM WayBackAlways == MemoryConstants => (Spec => []WayBack)
  <1> SUFFICES ASSUME MemoryConstants
               PROVE  Spec => []WayBack
    OBVIOUS
  <1>1. Init => WayBack
    <2> SUFFICES ASSUME Init PROVE WayBack
      OBVIOUS
    <2>1. WriteSide({0}, 0)
      BY WInit DEF WriteSide
    <2>2. ReadSide({0}, 0)
      BY RInit
    <2> QED BY <2>1, <2>2 DEF WayBack
  <1>2. WayBack /\ [Next]_vars => WayBack'
    BY WayBackNext
  <1> QED BY <1>1, <1>2, PTL DEF Spec

(* Whatever the buffer, the word, the lengths and the place where the      *)
(* stream begins: what the aligners give out are the words of the segments *)
(* that were asked for, in order, if no segment ends where the buffer does *)
(* and no session has an odd ID (memory_access.cpp).                       *)
THEOREM ReadsWhatWasWrittenAlways == MemoryConstants => (Spec => []ReadsWhatWasWritten)
  <1> SUFFICES ASSUME MemoryConstants
               PROVE  Spec => []ReadsWhatWasWritten
    OBVIOUS
  <1>1. WayBack => ReadsWhatWasWritten
    BY WayBackReads
  <1> QED BY <1>1, WayBackAlways, PTL

(* txAppStatusHandler and rxEngAppNotificationDelayer announce a segment   *)
(* only when all of it is in the memory: each announced byte is at its     *)
(* address, even if its segment was written in two parts.                  *)
AnnouncedIsInMemory == \A n \in 0 .. announced - 1 : memory[Address(n)] = n

THEOREM AnnouncedIsInMemoryAlways == MemoryConstants => (Spec => []AnnouncedIsInMemory)
  <1> SUFFICES ASSUME MemoryConstants
               PROVE  Spec => []AnnouncedIsInMemory
    OBVIOUS
  <1>1. WayBack => AnnouncedIsInMemory
    <2> SUFFICES ASSUME WayBack PROVE AnnouncedIsInMemory
      OBVIOUS
    <2>1. PICK E, x : WriteSide(E, x)
      BY DEF WayBack
    <2>2. Stable
      BY <2>1, WriteSideFacts
    <2> QED BY <2>2 DEF Stable, AnnouncedIsInMemory
  <1> QED BY <1>1, WayBackAlways, PTL
=============================================================================
