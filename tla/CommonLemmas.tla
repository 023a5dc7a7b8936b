----------------------------- MODULE CommonLemmas -----------------------------
(***************************************************************************)
(* What the proofs need to know about FIFOs, which the modules write as    *)
(* sequences, and about positions in a ring, which they write with %.      *)
(***************************************************************************)
EXTENDS Integers, Sequences, SequenceTheorems, WellFoundedInduction, TLAPS

(* What appending to or taking from a FIFO of elements of S gives.         *)
LEMMA AppendFacts ==
    ASSUME NEW S, NEW f \in Seq(S), NEW e \in S
    PROVE  /\ Append(f, e) \in Seq(S)
           /\ Append(f, e) # <<>>
           /\ Len(Append(f, e)) = Len(f) + 1
           /\ \A i \in 1 .. Len(f) : Append(f, e)[i] = f[i]
           /\ Append(f, e)[Len(f) + 1] = e
  BY AppendProperties

LEMMA TailFacts ==
    ASSUME NEW S, NEW f \in Seq(S), f # <<>>
    PROVE  /\ Head(f) \in S /\ Head(f) = f[1]
           /\ Tail(f) \in Seq(S)
           /\ Len(Tail(f)) = Len(f) - 1
           /\ \A i \in 1 .. Len(f) - 1 : Tail(f)[i] = f[i + 1]
           /\ Len(f) \in Nat \ {0}
           /\ Len(f) = 1 => Tail(f) = <<>>
  <1>1. Len(f) \in Nat \ {0}
    BY EmptySeq
  <1>2. Tail(f) \in Seq(S) /\ Len(Tail(f)) = Len(f) - 1
    BY HeadTailProperties
  <1>3. Len(f) = 1 => Tail(f) = <<>>
    <2>1. \A g \in Seq(S) : g # <<>> => Len(g) # 0
      BY EmptySeq
    <2>2. Len(f) = 1 => Len(Tail(f)) = 0
      BY <1>2
    <2> QED BY <1>2, <2>1, <2>2, Zenon
  <1> QED BY <1>1, <1>2, <1>3, HeadTailProperties

(* A FIFO that continues another.                                          *)
LEMMA ConcatFacts ==
    ASSUME NEW S, NEW s \in Seq(S), NEW t \in Seq(S)
    PROVE  /\ s \o t \in Seq(S) /\ Len(s \o t) = Len(s) + Len(t)
           /\ \A e \in S : s \o Append(t, e) = Append(s \o t, e)
           /\ t # <<>> => <<Head(t)>> \o Tail(t) = t /\ Append(s, Head(t)) \o Tail(t) = s \o t
  <1>1. s \o t \in Seq(S) /\ Len(s \o t) = Len(s) + Len(t)
    BY ConcatProperties
  <1>2. ASSUME NEW e \in S PROVE s \o Append(t, e) = Append(s \o t, e)
    <2>1. <<e>> \in Seq(S) /\ Append(t, e) = t \o <<e>> /\ Append(s \o t, e) = (s \o t) \o <<e>>
      BY <1>1, AppendIsConcat
    <2> QED BY <2>1, ConcatAssociative
  <1>3. ASSUME NEW u \in Seq(S), u # <<>> PROVE <<Head(u)>> \o Tail(u) = u
    <2>1. /\ Head(u) \in S /\ Head(u) = u[1] /\ Tail(u) \in Seq(S) /\ Len(Tail(u)) = Len(u) - 1
          /\ \A i \in 1 .. Len(u) - 1 : Tail(u)[i] = u[i + 1]
          /\ Len(u) \in Nat \ {0}
      BY <1>3, TailFacts
    <2> DEFINE a == <<Head(u)>>
               b == Tail(u)
    <2>2. a \in Seq(S) /\ Len(a) = 1 /\ a[1] = u[1] /\ b \in Seq(S) /\ Len(b) = Len(u) - 1
      BY <2>1
    <2> HIDE DEF a
    <2>3. /\ a \o b \in Seq(S) /\ Len(a \o b) = Len(u)
          /\ \A i \in 1 .. Len(u) : (a \o b)[i] = IF i <= 1 THEN a[i] ELSE b[i - 1]
      <3>1. Len(a) + Len(b) = Len(u)
        BY <2>1, <2>2
      <3> HIDE DEF b
      <3>2. /\ a \o b \in Seq(S) /\ Len(a \o b) = Len(a) + Len(b)
            /\ \A i \in 1 .. Len(a) + Len(b) : (a \o b)[i] = IF i <= Len(a) THEN a[i] ELSE b[i - Len(a)]
        BY <2>2, ConcatProperties
      <3> QED BY <3>1, <3>2, <2>2
    <2>4. \A i \in 1 .. Len(u) : (a \o b)[i] = u[i]
      BY <2>1, <2>2, <2>3
    <2> HIDE DEF b
    <2>5. a \o b = u
      BY <2>3, <2>4, SeqEqual
    <2> QED BY <2>5 DEF a, b
  <1>4. ASSUME t # <<>> PROVE Append(s, Head(t)) \o Tail(t) = s \o t
    <2>1. Head(t) \in S /\ Tail(t) \in Seq(S) /\ <<Head(t)>> \in Seq(S)
      BY <1>4, TailFacts
    <2>2. Append(s, Head(t)) = s \o <<Head(t)>>
      BY <2>1, AppendIsConcat
    <2>3. (s \o <<Head(t)>>) \o Tail(t) = s \o (<<Head(t)>> \o Tail(t))
      BY <2>1, ConcatAssociative
    <2> QED BY <2>2, <2>3, <1>3, <1>4
  <1> QED BY <1>1, <1>2, <1>3, <1>4

LEMMA ConcatTail ==
    ASSUME NEW S, NEW s \in Seq(S), NEW t \in Seq(S), s # <<>>
    PROVE  Head(s \o t) = Head(s) /\ Tail(s \o t) = Tail(s) \o t
  <1>1. /\ Head(s) = s[1] /\ Tail(s) \in Seq(S) /\ Len(Tail(s)) = Len(s) - 1
        /\ \A i \in 1 .. Len(s) - 1 : Tail(s)[i] = s[i + 1]
        /\ Len(s) \in Nat \ {0} /\ Len(t) \in Nat
    BY TailFacts, LenProperties
  <1>2. /\ s \o t \in Seq(S) /\ Len(s \o t) = Len(s) + Len(t)
        /\ \A i \in 1 .. Len(s) + Len(t) : (s \o t)[i] = IF i <= Len(s) THEN s[i] ELSE t[i - Len(s)]
    BY ConcatProperties
  <1>3. s \o t # <<>>
    <2>1. Len(s \o t) # 0
      BY <1>1, <1>2
    <2> QED BY <2>1
  <1>4. /\ Head(s \o t) = (s \o t)[1] /\ Tail(s \o t) \in Seq(S) /\ Len(Tail(s \o t)) = Len(s) + Len(t) - 1
        /\ \A i \in 1 .. Len(s) + Len(t) - 1 : Tail(s \o t)[i] = (s \o t)[i + 1]
    BY <1>1, <1>2, <1>3, TailFacts
  <1> DEFINE b == Tail(s)
             d == Tail(s \o t)
  <1> HIDE DEF b, d
  <1>5. /\ b \o t \in Seq(S) /\ Len(b \o t) = Len(b) + Len(t)
        /\ \A i \in 1 .. Len(b) + Len(t) : (b \o t)[i] = IF i <= Len(b) THEN b[i] ELSE t[i - Len(b)]
    BY <1>1, ConcatProperties DEF b
  <1>6. Len(b) = Len(s) - 1 /\ d \in Seq(S) /\ Len(d) = Len(b \o t) /\ Len(d) \in Nat
    BY <1>1, <1>4, <1>5 DEF b, d
  <1>7. ASSUME NEW i \in 1 .. Len(d) PROVE d[i] = (b \o t)[i]
    <2>1. d[i] = (s \o t)[i + 1] /\ i + 1 \in 1 .. Len(s) + Len(t)
      BY <1>1, <1>4, <1>5, <1>6 DEF d
    <2>2. CASE i <= Len(s) - 1
      BY <2>1, <2>2, <1>1, <1>2, <1>5, <1>6 DEF b
    <2>3. CASE ~(i <= Len(s) - 1)
      <3>1. PICK k \in Int : k = i - Len(b)
        <4>1. i \in Int /\ Len(b) \in Int
          BY <1>1, <1>6
        <4> QED BY <4>1
      <3>2. k = i + 1 - Len(s) /\ ~(i + 1 <= Len(s)) /\ ~(i <= Len(b)) /\ i \in 1 .. Len(b) + Len(t)
        BY <3>1, <2>3, <1>1, <1>5, <1>6
      <3>3. (s \o t)[i + 1] = t[k]
        BY <3>2, <2>1, <1>2
      <3>4. (b \o t)[i] = t[k]
        BY <3>1, <3>2, <1>5
      <3> QED BY <3>3, <3>4, <2>1
    <2> QED BY <2>2, <2>3
  <1>8. d = b \o t
    BY <1>5, <1>6, <1>7, SeqEqual
  <1> QED BY <1>1, <1>2, <1>4, <1>8 DEF b, d

LEMMA ConsFacts ==
    ASSUME NEW S, NEW e \in S, NEW t \in Seq(S)
    PROVE  /\ <<e>> \o t \in Seq(S) /\ <<e>> \o t # <<>>
           /\ Head(<<e>> \o t) = e /\ Tail(<<e>> \o t) = t
  <1> DEFINE one == <<e>>
  <1>1. one \in Seq(S) /\ one # <<>> /\ Head(one) = e /\ Len(one) = 1
    OBVIOUS
  <1> HIDE DEF one
  <1>2. Tail(one) = <<>> /\ <<>> \o t = t /\ Len(t) \in Nat
    BY <1>1, TailFacts, ConcatEmptySeq, LenProperties
  <1>3. one \o t \in Seq(S) /\ Len(one \o t) = 1 + Len(t) /\ Head(one \o t) = Head(one) /\ Tail(one \o t) = Tail(one) \o t
    <2>1. one \o t \in Seq(S) /\ Len(one \o t) = Len(one) + Len(t)
      BY <1>1, ConcatProperties
    <2>2. Head(one \o t) = Head(one) /\ Tail(one \o t) = Tail(one) \o t
      BY <1>1, ConcatTail
    <2> QED BY <1>1, <2>1, <2>2
  <1>4. one \o t # <<>>
    BY <1>2, <1>3
  <1> QED BY <1>1, <1>2, <1>3, <1>4 DEF one
-----------------------------------------------------------------------------
(* The quotient and the remainder are the only ones.                       *)
LEMMA ModFacts ==
    ASSUME NEW W \in Nat \ {0}, NEW a \in Int
    PROVE  /\ a % W \in 0 .. W - 1
           /\ a = W * (a \div W) + (a % W) /\ a \div W \in Int
  OBVIOUS

LEMMA ModUnique ==
    ASSUME NEW W \in Nat \ {0}, NEW j \in Int, NEW k \in Int, NEW r \in 0 .. W - 1, NEW s \in 0 .. W - 1,
           W * j + r = W * k + s
    PROVE  j = k /\ r = s
  <1>1. W * (j - k) = s - r
    OBVIOUS
  <1>2. ASSUME j - k >= 1 PROVE FALSE
    <2>1. W * (j - k) >= W * 1
      BY <1>2
    <2> QED BY <1>1, <2>1
  <1>3. ASSUME k - j >= 1 PROVE FALSE
    <2>1. W * (k - j) >= W * 1
      BY <1>3
    <2> QED BY <1>1, <2>1
  <1>4. j = k
    BY <1>2, <1>3
  <1> QED BY <1>4

LEMMA ModIs ==
    ASSUME NEW W \in Nat \ {0}, NEW a \in Int, NEW k \in Int, NEW r \in 0 .. W - 1, a = W * k + r
    PROVE  a % W = r /\ a \div W = k
  BY ModFacts, ModUnique

LEMMA ModShift ==
    ASSUME NEW W \in Nat \ {0}, NEW a \in Int, NEW k \in Int
    PROVE  (a + W * k) % W = a % W
  <1>1. a + W * k = W * ((a \div W) + k) + (a % W)
    <2>1. W * ((a \div W) + k) = W * (a \div W) + W * k
      BY ModFacts
    <2> QED BY <2>1, ModFacts
  <1>2. (a \div W) + k \in Int /\ a % W \in 0 .. W - 1
    BY ModFacts
  <1>3. PICK q \in Int, r \in 0 .. W - 1 : q = (a \div W) + k /\ r = a % W
    BY <1>2
  <1>4. a + W * k \in Int /\ a + W * k = W * q + r
    BY <1>1, <1>3
  <1>5. (a + W * k) % W = r
    BY <1>4, ModIs
  <1> QED BY <1>3, <1>5

(* A number of which only the remainder is kept is found again from a      *)
(* later one that is less than W ahead of it.                              *)
LEMMA ModDistance ==
    ASSUME NEW W \in Nat \ {0}, NEW a \in Int, NEW b \in Int, a <= b, b - a < W
    PROVE  /\ (b - (a % W)) % W = b - a
           /\ ((b % W) - (a % W)) % W = b - a
           /\ ((a % W) - (b % W) - 1) % W = W - 1 - (b - a)
  <1>1. PICK i \in Int, r \in 0 .. W - 1 : a = W * i + r /\ r = a % W
    BY ModFacts
  <1>2. PICK j \in Int, s \in 0 .. W - 1 : b = W * j + s /\ s = b % W
    BY ModFacts
  <1>3. b - r = W * i + (b - a)
    BY <1>1
  <1>4. s - r = W * (i - j) + (b - a)
    BY <1>1, <1>2
  <1>5. r - s - 1 = W * (j - i - 1) + (W - 1 - (b - a))
    <2>1. PICK x \in Int, y \in Int, z \in Int : x = W * i /\ y = W * j /\ z = W * (j - i - 1)
      OBVIOUS
    <2>2. z = y - x - W
      BY <2>1
    <2>3. a = x + r /\ b = y + s
      BY <1>1, <1>2, <2>1
    <2>4. r - s - 1 = z + (W - 1 - (b - a))
      BY <2>2, <2>3
    <2> QED BY <2>1, <2>4
  <1>6. b - a \in 0 .. W - 1 /\ W - 1 - (b - a) \in 0 .. W - 1
    OBVIOUS
  <1>7. (b - r) % W = b - a
    <2>1. b - r \in Int
      OBVIOUS
    <2> QED BY <1>3, <1>6, <2>1, ModIs
  <1>8. (s - r) % W = b - a
    BY <1>4, <1>6, ModIs
  <1>9. (r - s - 1) % W = W - 1 - (b - a)
    BY <1>5, <1>6, ModIs
  <1> QED BY <1>1, <1>2, <1>7, <1>8, <1>9

LEMMA ModFound ==
    ASSUME NEW W \in Nat \ {0}, NEW m \in 0 .. W - 1, NEW b \in Int
    PROVE  LET a == b - ((b - m) % W)
           IN  a \in Int /\ a <= b /\ b - a < W /\ a % W = m
  <1>0. PICK c \in Int : c = b - m
    OBVIOUS
  <1>1. PICK j \in Int, s \in 0 .. W - 1 : c = W * j + s /\ s = c % W
    BY ModFacts
  <1>2. b - s = W * j + m /\ b - s \in Int
    <2>1. PICK y \in Int : y = W * j
      OBVIOUS
    <2>2. c = y + s
      BY <1>1, <2>1
    <2>3. b - s = y + m
      BY <1>0, <2>2
    <2> QED BY <2>1, <2>3
  <1>3. (b - s) % W = m
    BY <1>2, ModIs
  <1> QED BY <1>0, <1>1, <1>3

LEMMA ModEqual ==
    ASSUME NEW W \in Nat \ {0}, NEW a \in Int, NEW b \in Int, a <= b, b - a < W, a % W = b % W
    PROVE  a = b
  <1>1. PICK i \in Int, r \in 0 .. W - 1 : a = W * i + r /\ r = a % W
    BY ModFacts
  <1>2. PICK j \in Int, s \in 0 .. W - 1 : b = W * j + s /\ s = b % W
    BY ModFacts
  <1>3. r = s
    BY <1>1, <1>2
  <1>4. b = W * i + (b - a + r)
    BY <1>1
  <1>5. PICK d \in 0 .. W - 1 : d = b - a
    OBVIOUS
  <1>6. b = W * i + (d + r) /\ b = W * j + r
    BY <1>2, <1>3, <1>4, <1>5
  <1>7. W * (j - i) = d
    BY <1>6
  <1>8. j - i \in Int /\ d = W * 0 + d /\ d = W * (j - i) + 0
    BY <1>7
  <1>9. d = 0
    BY <1>8, ModUnique
  <1> QED BY <1>5, <1>9

LEMMA ModPlus ==
    ASSUME NEW W \in Nat \ {0}, NEW a \in Int, NEW b \in Int
    PROVE  ((a % W) + b) % W = (a + b) % W
  <1>1. PICK i \in Int, r \in 0 .. W - 1 : a = W * i + r /\ r = a % W
    BY ModFacts
  <1>2. r + b \in Int /\ a + b = (r + b) + W * i
    BY <1>1
  <1>3. ((r + b) + W * i) % W = (r + b) % W
    BY <1>2, ModShift
  <1> QED BY <1>1, <1>2, <1>3
-----------------------------------------------------------------------------
(* Induction over a set of numbers.                                         *)
LEMMA LeastNat ==
    ASSUME NEW T \in SUBSET Nat, T # {}
    PROVE  \E x \in T : \A y \in T : x <= y
  <1> DEFINE R == {ss \in Nat \X Nat : ss[1] < ss[2]}
  <1>1. IsWellFoundedOn(R, Nat)
    BY NatLessThanWellFounded DEF OpToRel
  <1> HIDE DEF R
  <1>2. PICK x \in T : \A y \in T : ~ (<<y, x>> \in R)
    BY <1>1, WFMin
  <1>3. ASSUME NEW y \in T, y < x PROVE FALSE
    <2>1. <<y, x>> \in R
      BY <1>3 DEF R
    <2> QED BY <1>2, <2>1
  <1> QED BY <1>2, <1>3

LEMMA NatSetInduction ==
    ASSUME NEW T, 0 \in T, \A n \in Nat : n \in T => n + 1 \in T
    PROVE  Nat \subseteq T
  <1>1. SUFFICES ASSUME {n \in Nat : n \notin T} # {} PROVE FALSE
    OBVIOUS
  <1>2. PICK x \in {n \in Nat : n \notin T} : \A y \in {n \in Nat : n \notin T} : x <= y
    BY <1>1, LeastNat
  <1>3. x # 0 /\ x - 1 \in Nat
    BY <1>2
  <1>4. x - 1 \in T
    BY <1>2, <1>3
  <1> QED BY <1>2, <1>3, <1>4
=============================================================================
