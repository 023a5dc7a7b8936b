------------------------- MODULE SessionLookupProofs -------------------------
(***************************************************************************)
(* Theorems about SessionLookup, for any number of session IDs, any set of *)
(* connections and FIFOs of any depth: no ID is lost or given out twice,   *)
(* the CAM and the reverse table agree, a late hit is harmless and the     *)
(* reverse table implements SessionDirectory.                              *)
(***************************************************************************)
EXTENDS SessionLookup, CommonLemmas, FiniteSetTheorems

UpdatesOf(ops) == [op : ops, tuple : Tuples, sessionID : Sessions]
Updates == UpdatesOf({"INSERT", "DELETE"})
Queries == [tuple : Tuples, allowCreation : BOOLEAN, source : Sources]
Hits    == [sessionID : Sessions \cup {None}, hit : BOOLEAN]

(* The FIFOs and tables hold what belongs there.                           *)
IdTypes ==
    /\ counter \in 0 .. MaxSessions /\ used \in Int
    /\ freeList \in Seq(Sessions) /\ finFifo \in Seq(Sessions)
HandlerTypes ==
    /\ fsm \in {"LUP_REQ", "LUP_RSP", "UPD_RSP"} /\ query \in Queries \cup {None}
    /\ camLookup \in Seq(Tuples) /\ camHit \in Seq(Hits)
UpdateTypes ==
    /\ insertReq \in Seq(UpdatesOf({"INSERT"})) /\ insertRsp \in Seq(UpdatesOf({"INSERT"}))
    /\ revInsert \in Seq(UpdatesOf({"INSERT"})) /\ deleteReq \in Seq(UpdatesOf({"DELETE"}))
    /\ camUpdate \in Seq(Updates) /\ camDone \in Seq(Updates)
TableTypes ==
    /\ reverseTable \in [Sessions -> Tuples \cup {None}]
    /\ tupleValid \in [Sessions -> BOOLEAN]
    /\ \A s \in Sessions : tupleValid[s] => reverseTable[s] \in Tuples
    /\ cam \in [Tuples -> Sessions \cup {None}]
ClientTypes ==
    /\ lookups \in [Sources -> Seq(Queries)] /\ replies \in [Sources -> Seq(Hits)]
    /\ releaseReq \in Seq(Sessions) /\ releasePort \in Seq(Tuples \cup {None})
    /\ revReq \in Seq(Sessions) /\ revRsp \in Seq(Tuples \cup {None})

TypeOK == IdTypes /\ HandlerTypes /\ UpdateTypes /\ TableTypes /\ ClientTypes

(* The handler has one lookup under way, and the CAM nothing else to look  *)
(* up for it.                                                              *)
OneLookup ==
    /\ fsm # "LUP_REQ" => query \in Queries
    /\ fsm # "LUP_RSP" => camLookup = <<>> /\ camHit = <<>>
    /\ fsm = "LUP_RSP" => \/ Len(camLookup) = 1 /\ camHit = <<>>
                          \/ camLookup = <<>> /\ Len(camHit) = 1
    /\ \A i \in DOMAIN camLookup : camLookup[i] = query.tuple
-----------------------------------------------------------------------------
(* Where a session ID is.  An ID that is being inserted is in one of four  *)
(* places between lookupReplyHandler and its answer.                       *)
Flight == {"insertReq", "camUpdate", "camDone", "insertRsp"}
InUse  == {"camUpdate", "camDone", "insertRsp", "revInsert", "valid", "deleteReq"}
Places == {"new", "freeList", "finFifo"} \cup Flight \cup InUse

Has(fifo, op, s) == \E i \in DOMAIN fifo : fifo[i].op = op /\ fifo[i].sessionID = s
Once(fifo, op) == \A i, j \in DOMAIN fifo :
    fifo[i].op = op /\ fifo[j].op = op /\ fifo[i].sessionID = fifo[j].sessionID => i = j
Distinct(fifo) == \A i, j \in DOMAIN fifo : fifo[i] = fifo[j] => i = j

(* The map where tells the one place each ID is in.  The delete of an ID   *)
(* that was given back may still wait for the CAM, but then no insert of   *)
(* this ID has come past it.                                               *)
Fresh == {s \in Sessions : s >= counter}

IsAt(place, s) ==
    /\ place = "new" <=> s \in Fresh
    /\ place = "freeList" <=> s \in ToSet(freeList)
    /\ place = "finFifo" <=> s \in ToSet(finFifo)
    /\ place = "insertReq" <=> Has(insertReq, "INSERT", s)
    /\ place = "camUpdate" <=> Has(camUpdate, "INSERT", s)
    /\ place = "camDone" <=> Has(camDone, "INSERT", s)
    /\ place = "insertRsp" <=> Has(insertRsp, "INSERT", s)
    /\ place = "revInsert" <=> Has(revInsert, "INSERT", s)
    /\ place = "valid" <=> tupleValid[s]
    /\ place = "deleteReq" <=> Has(deleteReq, "DELETE", s)
    /\ Has(camUpdate, "DELETE", s)
          => place \in {"finFifo", "freeList", "insertReq", "camUpdate"}

Placed(where) == \A s \in Sessions : IsAt(where[s], s)

(* No place holds an ID twice.                                             *)
NoneTwice ==
    /\ Distinct(freeList) /\ Distinct(finFifo)
    /\ Once(insertReq, "INSERT") /\ Once(camUpdate, "INSERT") /\ Once(camDone, "INSERT")
    /\ Once(insertRsp, "INSERT") /\ Once(revInsert, "INSERT")
    /\ Once(deleteReq, "DELETE") /\ Once(camUpdate, "DELETE")

DeletesFirst ==
    \A i, j \in DOMAIN camUpdate :
        /\ camUpdate[i].op = "INSERT" /\ camUpdate[j].op = "DELETE"
        /\ camUpdate[i].sessionID = camUpdate[j].sessionID
        => j < i

(* One insert at most is on its way, for the connection looked up.         *)
Alone(where) ==
    /\ \A s, o \in Sessions : where[s] \in Flight /\ where[o] \in Flight => s = o
    /\ \A s \in Sessions : where[s] \in Flight => fsm = "UPD_RSP"

OfTheLookup ==
    \A r \in ToSet(insertReq) \cup ToSet(camUpdate) \cup ToSet(camDone) \cup ToSet(insertRsp) :
        r.op = "INSERT" => r.tuple = query.tuple

Counted(where) == used = Cardinality({s \in Sessions : where[s] \in InUse})

IdsInv == /\ NoneTwice /\ DeletesFirst /\ OfTheLookup
          /\ \E where \in [Sessions -> Places] :
                Placed(where) /\ Alone(where) /\ Counted(where)
-----------------------------------------------------------------------------
(* What the updates on their way say about the CAM: an insert has yet to   *)
(* be carried out or has been, and a delete has yet to be.                 *)
CamInv ==
    /\ TablesAgree
    /\ \A r \in Deleting : cam[r.tuple] = r.sessionID
    /\ \A r \in ToSet(insertReq) \cup ToSet(camUpdate) : r.op = "INSERT" => cam[r.tuple] = None
    /\ \A r \in ToSet(camDone) \cup ToSet(insertRsp) \cup ToSet(revInsert) :
          r.op = "INSERT" => cam[r.tuple] = r.sessionID

(* A miss is still one when it is acted on, and a hit not another's.       *)
HitInv ==
    \A i \in DOMAIN camHit :
        /\ camHit[i].hit <=> camHit[i].sessionID # None
        /\ ~camHit[i].hit => cam[query.tuple] = None
        /\ camHit[i].hit =>
              /\ \A r \in ToSet(revInsert) :
                    r.sessionID = camHit[i].sessionID => r.tuple = query.tuple
              /\ tupleValid[camHit[i].sessionID]
                    => reverseTable[camHit[i].sessionID] = query.tuple

Sum == used + Len(insertReq) + Len(freeList) + Len(finFifo) = counter

IInv == TypeOK /\ OneLookup /\ Sum /\ IdsInv /\ CamInv /\ HitInv
-----------------------------------------------------------------------------
(* What a FIFO of updates, or of IDs, has in it after a write and a read.  *)
LEMMA WriteUpdate ==
    ASSUME NEW S, NEW f \in Seq(S), NEW r \in S
    PROVE  /\ Append(f, r) \in Seq(S) /\ Len(Append(f, r)) = Len(f) + 1
           /\ ToSet(Append(f, r)) = ToSet(f) \cup {r}
           /\ \A op, s : Has(Append(f, r), op, s)
                           <=> Has(f, op, s) \/ (r.op = op /\ r.sessionID = s)
           /\ \A op : Once(f, op) /\ ~(r.op = op /\ Has(f, op, r.sessionID))
                          => Once(Append(f, r), op)
  <1> DEFINE g == Append(f, r)
  <1>1. /\ g \in Seq(S) /\ Len(g) = Len(f) + 1 /\ Len(f) \in Nat
        /\ DOMAIN g = 1 .. Len(f) + 1 /\ DOMAIN f = 1 .. Len(f)
        /\ \A i \in DOMAIN f : i \in DOMAIN g /\ g[i] = f[i]
        /\ g[Len(f) + 1] = r /\ Len(f) + 1 \in DOMAIN g
        /\ \A i \in DOMAIN g : i \in DOMAIN f \/ i = Len(f) + 1
    BY AppendFacts
  <1> HIDE DEF g
  <1>2. ToSet(g) = ToSet(f) \cup {r}
    BY <1>1 DEF ToSet
  <1>3. ASSUME NEW op, NEW s
        PROVE  Has(g, op, s) <=> Has(f, op, s) \/ (r.op = op /\ r.sessionID = s)
    BY <1>1 DEF Has
  <1>4. ASSUME NEW op, Once(f, op), ~(r.op = op /\ Has(f, op, r.sessionID))
        PROVE  Once(g, op)
    BY <1>1, <1>4 DEF Once, Has
  <1> QED BY <1>1, <1>2, <1>3, <1>4 DEF g

LEMMA ReadUpdate ==
    ASSUME NEW S, NEW f \in Seq(S), f # <<>>
    PROVE  /\ Tail(f) \in Seq(S) /\ Len(Tail(f)) = Len(f) - 1
           /\ Head(f) \in S /\ Head(f) \in ToSet(f)
           /\ ToSet(f) = ToSet(Tail(f)) \cup {Head(f)}
           /\ Has(f, Head(f).op, Head(f).sessionID)
           /\ \A op, s : Has(f, op, s) <=> Has(Tail(f), op, s)
                                   \/ (Head(f).op = op /\ Head(f).sessionID = s)
           /\ \A op : Once(f, op) => Once(Tail(f), op)
           /\ Once(f, Head(f).op) => ~Has(Tail(f), Head(f).op, Head(f).sessionID)
  <1> DEFINE g == Tail(f)  h == Head(f)
  <1>1. /\ g \in Seq(S) /\ Len(g) = Len(f) - 1 /\ Len(f) \in Nat \ {0}
        /\ h \in S /\ h = f[1] /\ 1 \in DOMAIN f
        /\ DOMAIN g = 1 .. Len(f) - 1 /\ DOMAIN f = 1 .. Len(f)
        /\ \A i \in DOMAIN g : i + 1 \in DOMAIN f /\ g[i] = f[i + 1] /\ i + 1 # 1
        /\ \A i, j \in DOMAIN g : i + 1 = j + 1 => i = j
        /\ \A i \in DOMAIN f : i = 1 \/ \E j \in DOMAIN g : i = j + 1
    <2>1. /\ g \in Seq(S) /\ Len(g) = Len(f) - 1 /\ Len(f) \in Nat \ {0} /\ h \in S /\ h = f[1]
          /\ \A i \in 1 .. Len(f) - 1 : g[i] = f[i + 1]
      BY TailFacts
    <2>2. DOMAIN g = 1 .. Len(f) - 1 /\ DOMAIN f = 1 .. Len(f)
      BY <2>1
    <2>3. \A n \in Nat \ {0} :
             /\ 1 \in 1 .. n
             /\ \A i \in 1 .. n - 1 : i + 1 \in 1 .. n /\ i + 1 # 1
             /\ \A i, j \in 1 .. n - 1 : i + 1 = j + 1 => i = j
             /\ \A i \in 1 .. n : i = 1 \/ \E j \in 1 .. n - 1 : i = j + 1
      <3> SUFFICES ASSUME NEW n \in Nat \ {0}, NEW i \in 1 .. n, i # 1
                   PROVE  i - 1 \in 1 .. n - 1 /\ i = (i - 1) + 1
        OBVIOUS
      <3> QED OBVIOUS
    <2> HIDE DEF g, h
    <2> QED BY <2>1, <2>2, <2>3
  <1> HIDE DEF g, h
  <1>2. ToSet(f) = ToSet(g) \cup {h}
    <2>1. ToSet(f) \subseteq ToSet(g) \cup {h}
      BY <1>1 DEF ToSet
    <2> QED BY <1>1, <2>1 DEF ToSet
  <1>3. ASSUME NEW op, NEW s
        PROVE  Has(f, op, s) <=> Has(g, op, s) \/ (h.op = op /\ h.sessionID = s)
    <2>1. Has(f, op, s) => Has(g, op, s) \/ (h.op = op /\ h.sessionID = s)
      BY <1>1 DEF Has
    <2> QED BY <1>1, <2>1 DEF Has
  <1>4. ASSUME NEW op, Once(f, op) PROVE Once(g, op)
    BY <1>1, <1>4 DEF Once
  <1>5. ASSUME Once(f, h.op) PROVE ~Has(g, h.op, h.sessionID)
    BY <1>1, <1>5 DEF Once, Has
  <1> QED BY <1>1, <1>2, <1>3, <1>4, <1>5 DEF g, h

LEMMA WriteID ==
    ASSUME NEW S, NEW f \in Seq(S), NEW s \in S
    PROVE  /\ Append(f, s) \in Seq(S) /\ Len(Append(f, s)) = Len(f) + 1
           /\ ToSet(Append(f, s)) = ToSet(f) \cup {s}
           /\ Distinct(f) /\ s \notin ToSet(f) => Distinct(Append(f, s))
  BY AppendFacts DEF ToSet, Distinct

LEMMA ReadID ==
    ASSUME NEW S, NEW f \in Seq(S), f # <<>>
    PROVE  /\ Tail(f) \in Seq(S) /\ Len(Tail(f)) = Len(f) - 1
           /\ Head(f) \in S
           /\ ToSet(f) = ToSet(Tail(f)) \cup {Head(f)}
           /\ Distinct(f) => Distinct(Tail(f)) /\ Head(f) \notin ToSet(Tail(f))
  <1>1. ToSet(f) = ToSet(Tail(f)) \cup {Head(f)}
    BY ReadUpdate
  <1>2. /\ Tail(f) \in Seq(S) /\ Len(Tail(f)) = Len(f) - 1 /\ Len(f) \in Nat \ {0}
        /\ Head(f) = f[1] /\ Head(f) \in S
        /\ \A i \in 1 .. Len(f) - 1 : Tail(f)[i] = f[i + 1]
    BY TailFacts
  <1>3. ASSUME Distinct(f)
        PROVE  Distinct(Tail(f)) /\ Head(f) \notin ToSet(Tail(f))
    <2>1. \A i \in DOMAIN Tail(f) : i + 1 \in DOMAIN f /\ i + 1 # 1 /\ i \in Nat
      BY <1>2
    <2>2. 1 \in DOMAIN f /\ \A i \in DOMAIN Tail(f) : Tail(f)[i] = f[i + 1]
      BY <1>2
    <2>3. Distinct(Tail(f))
      BY <1>3, <2>1, <2>2 DEF Distinct
    <2>4. \A i \in DOMAIN Tail(f) : Tail(f)[i] # Head(f)
      BY <1>2, <1>3, <2>1, <2>2 DEF Distinct
    <2> QED BY <2>3, <2>4 DEF ToSet
  <1> QED BY <1>1, <1>2, <1>3
-----------------------------------------------------------------------------
(* Moving one ID to another place.                                         *)
LEMMA Move ==
    ASSUME NEW where \in [Sessions -> Places], NEW s \in Sessions, NEW p \in Places,
           NEW w, w = [where EXCEPT ![s] = p]
    PROVE  /\ w \in [Sessions -> Places] /\ w[s] = p
           /\ \A o \in Sessions : o # s => w[o] = where[o]
           /\ (where[s] \in Flight <=> p \in Flight)
                 => \A o \in Sessions : w[o] \in Flight <=> where[o] \in Flight
           /\ (where[s] \in InUse <=> p \in InUse) /\ Counted(where) => Counted(w)
  <1>1. w \in [Sessions -> Places] /\ w[s] = p /\ \A o \in Sessions : o # s => w[o] = where[o]
    OBVIOUS
  <1>2. ASSUME where[s] \in InUse <=> p \in InUse
        PROVE  {o \in Sessions : w[o] \in InUse} = {o \in Sessions : where[o] \in InUse}
    BY <1>1, <1>2, Zenon
  <1> QED BY <1>1, <1>2, Zenon DEF Counted

LEMMA Idle ==
    \A p \in {"new", "freeList", "finFifo"} : p \in Places /\ p \notin Flight /\ p \notin InUse
  BY DEF Places, Flight, InUse

(* An ID that comes into use, or goes out of it, is counted.               *)
LEMMA MoveCounted ==
    ASSUME NEW where \in [Sessions -> Places], NEW s \in Sessions, NEW p \in Places,
           NEW w, w = [where EXCEPT ![s] = p]
    PROVE  LET before == {o \in Sessions : where[o] \in InUse}
               after  == {o \in Sessions : w[o] \in InUse}
           IN  /\ where[s] \notin InUse /\ p \in InUse => Cardinality(after) = Cardinality(before) + 1
               /\ where[s] \in InUse /\ p \notin InUse => Cardinality(after) = Cardinality(before) - 1
               /\ Cardinality(before) \in Nat
  <1> DEFINE before == {o \in Sessions : where[o] \in InUse}
             after == {o \in Sessions : w[o] \in InUse}
  <1>1. w[s] = p /\ \A o \in Sessions : o # s => w[o] = where[o]
    OBVIOUS
  <1>2. IsFiniteSet(Sessions)
    BY MaxSessionsAssumption, FS_Interval DEF Sessions
  <1>3. IsFiniteSet(before) /\ before \in SUBSET Sessions
    BY <1>2, FS_Subset
  <1>4. ASSUME where[s] \notin InUse, p \in InUse PROVE Cardinality(after) = Cardinality(before) + 1
    <2>1. after = before \cup {s} /\ s \notin before
      BY <1>1, <1>4, Zenon
    <2> HIDE DEF before, after
    <2> QED BY <1>3, <2>1, FS_AddElement
  <1>5. ASSUME where[s] \in InUse, p \notin InUse PROVE Cardinality(after) = Cardinality(before) - 1
    <2>1. after = before \ {s} /\ s \in before
      BY <1>1, <1>5, Zenon
    <2> HIDE DEF before, after
    <2> QED BY <1>3, <2>1, FS_RemoveElement
  <1> QED BY <1>3, <1>4, <1>5, FS_CardinalityType

(* While no ID is on its way, neither is an insert.                        *)
LEMMA InFifo ==
    ASSUME NEW ops, NEW f \in Seq(UpdatesOf(ops)), NEW r \in ToSet(f)
    PROVE  /\ r \in UpdatesOf(ops) /\ r.op \in ops /\ r.sessionID \in Sessions /\ r.tuple \in Tuples
           /\ Has(f, r.op, r.sessionID)
  <1>1. r \in UpdatesOf(ops)
    BY DEF ToSet
  <1>2. Has(f, r.op, r.sessionID)
    BY DEF ToSet, Has
  <1> QED BY <1>1, <1>2 DEF UpdatesOf

LEMMA HeadUpdate ==
    ASSUME NEW ops, NEW f \in Seq(UpdatesOf(ops)), f # <<>>
    PROVE  /\ Head(f) \in UpdatesOf(ops) /\ Head(f).op \in ops
           /\ Head(f).sessionID \in Sessions /\ Head(f).tuple \in Tuples
  <1>1. Head(f) \in ToSet(f)
    BY ReadUpdate
  <1> QED BY <1>1, InFifo

LEMMA Grounded ==
    ASSUME TypeOK, NEW where, Placed(where), \A o \in Sessions : where[o] \notin Flight
    PROVE  \A r \in ToSet(insertReq) \cup ToSet(camUpdate) \cup ToSet(camDone) \cup ToSet(insertRsp) :
              r.op # "INSERT"
  <1>1. \A o \in Sessions : /\ ~Has(insertReq, "INSERT", o) /\ ~Has(camUpdate, "INSERT", o)
                           /\ ~Has(camDone, "INSERT", o) /\ ~Has(insertRsp, "INSERT", o)
    BY DEF Placed, IsAt, Flight
  <1>2. /\ \A r \in ToSet(insertReq) : r.sessionID \in Sessions /\ Has(insertReq, r.op, r.sessionID)
        /\ \A r \in ToSet(camUpdate) : r.sessionID \in Sessions /\ Has(camUpdate, r.op, r.sessionID)
        /\ \A r \in ToSet(camDone) : r.sessionID \in Sessions /\ Has(camDone, r.op, r.sessionID)
        /\ \A r \in ToSet(insertRsp) : r.sessionID \in Sessions /\ Has(insertRsp, r.op, r.sessionID)
    BY InFifo DEF TypeOK, UpdateTypes, Updates
  <1> QED BY <1>1, <1>2

(* While one is, every insert on its way is this one's.                    *)
LEMMA FlightIs ==
    ASSUME TypeOK, NEW where, Placed(where), Alone(where), NEW s \in Sessions, where[s] \in Flight
    PROVE  /\ fsm = "UPD_RSP"
           /\ \A r \in ToSet(insertReq) : r.sessionID = s /\ where[s] = "insertReq"
           /\ \A r \in ToSet(camUpdate) : r.op = "INSERT" => r.sessionID = s /\ where[s] = "camUpdate"
           /\ \A r \in ToSet(camDone) : r.op = "INSERT" => r.sessionID = s /\ where[s] = "camDone"
           /\ \A r \in ToSet(insertRsp) : r.sessionID = s /\ where[s] = "insertRsp"
  <1>1. /\ \A r \in ToSet(insertReq) : /\ r.sessionID \in Sessions /\ r.op = "INSERT"
                                       /\ Has(insertReq, r.op, r.sessionID)
        /\ \A r \in ToSet(camUpdate) : r.sessionID \in Sessions /\ Has(camUpdate, r.op, r.sessionID)
        /\ \A r \in ToSet(camDone) : r.sessionID \in Sessions /\ Has(camDone, r.op, r.sessionID)
        /\ \A r \in ToSet(insertRsp) : /\ r.sessionID \in Sessions /\ r.op = "INSERT"
                                       /\ Has(insertRsp, r.op, r.sessionID)
    BY InFifo DEF TypeOK, UpdateTypes, Updates
  <1>2. \A o \in Sessions :
           /\ Has(insertReq, "INSERT", o) <=> where[o] = "insertReq"
           /\ Has(camUpdate, "INSERT", o) <=> where[o] = "camUpdate"
           /\ Has(camDone, "INSERT", o) <=> where[o] = "camDone"
           /\ Has(insertRsp, "INSERT", o) <=> where[o] = "insertRsp"
    BY DEF Placed, IsAt
  <1>3. \A o \in Sessions : where[o] \in Flight => o = s
    BY DEF Alone
  <1> QED BY <1>1, <1>2, <1>3 DEF Alone, Flight

(* Where an update's ID is.                                                *)
LEMMA UpdateIsAt ==
    ASSUME TypeOK, NEW where, Placed(where)
    PROVE  /\ \A r \in Inserting \cup Deleting : r.sessionID \in Sessions /\ r.tuple \in Tuples
           /\ \A r \in Inserting : where[r.sessionID] \in Flight \cup {"revInsert"}
           /\ \A r \in ToSet(camDone) : r.op = "INSERT" => where[r.sessionID] = "camDone"
           /\ \A r \in ToSet(insertRsp) : where[r.sessionID] = "insertRsp"
           /\ \A r \in ToSet(revInsert) : r.op = "INSERT" /\ where[r.sessionID] = "revInsert"
           /\ \A r \in Inserting : where[r.sessionID] = "revInsert" => r \in ToSet(revInsert)
           /\ \A r \in ToSet(deleteReq) : r.op = "DELETE" /\ where[r.sessionID] = "deleteReq"
           /\ \A r \in ToSet(camUpdate) : r.op = "DELETE" => where[r.sessionID]
                                         \in {"finFifo", "freeList", "insertReq", "camUpdate"}
  <1>1. /\ \A r \in ToSet(insertReq) : /\ r.sessionID \in Sessions /\ r.tuple \in Tuples
                                       /\ r.op = "INSERT" /\ Has(insertReq, r.op, r.sessionID)
        /\ \A r \in ToSet(camUpdate) : /\ r.sessionID \in Sessions /\ r.tuple \in Tuples
                                       /\ Has(camUpdate, r.op, r.sessionID)
        /\ \A r \in ToSet(camDone) : /\ r.sessionID \in Sessions /\ r.tuple \in Tuples
                                     /\ Has(camDone, r.op, r.sessionID)
        /\ \A r \in ToSet(insertRsp) : /\ r.sessionID \in Sessions /\ r.tuple \in Tuples
                                       /\ r.op = "INSERT" /\ Has(insertRsp, r.op, r.sessionID)
        /\ \A r \in ToSet(revInsert) : /\ r.sessionID \in Sessions /\ r.tuple \in Tuples
                                       /\ r.op = "INSERT" /\ Has(revInsert, r.op, r.sessionID)
        /\ \A r \in ToSet(deleteReq) : /\ r.sessionID \in Sessions /\ r.tuple \in Tuples
                                       /\ r.op = "DELETE" /\ Has(deleteReq, r.op, r.sessionID)
    BY InFifo DEF TypeOK, UpdateTypes, Updates
  <1>2. \A s \in Sessions :
           /\ Has(insertReq, "INSERT", s) <=> where[s] = "insertReq"
           /\ Has(camUpdate, "INSERT", s) <=> where[s] = "camUpdate"
           /\ Has(camDone, "INSERT", s) <=> where[s] = "camDone"
           /\ Has(insertRsp, "INSERT", s) <=> where[s] = "insertRsp"
           /\ Has(revInsert, "INSERT", s) <=> where[s] = "revInsert"
           /\ Has(deleteReq, "DELETE", s) <=> where[s] = "deleteReq"
           /\ Has(camUpdate, "DELETE", s)
                 => where[s] \in {"finFifo", "freeList", "insertReq", "camUpdate"}
    BY DEF Placed, IsAt
  <1>3. \A r \in Inserting : where[r.sessionID] \in Flight \cup {"revInsert"}
    BY <1>1, <1>2 DEF Inserting, Flight
  <1>4. \A r \in Inserting : where[r.sessionID] = "revInsert" => r \in ToSet(revInsert)
    BY <1>1, <1>2 DEF Inserting
  <1>5. \A r \in Inserting \cup Deleting : r.sessionID \in Sessions /\ r.tuple \in Tuples
    BY <1>1 DEF Inserting, Deleting
  <1> QED BY <1>1, <1>2, <1>3, <1>4, <1>5

(* What a step that leaves a part of the state alone keeps.                *)
LEMMA IdsKept ==
    ASSUME IdsInv, UNCHANGED <<ids, insertReq, camUpdate, camDone, insertRsp, revInsert,
                               tupleValid, deleteReq, used, fsm, query>>
    PROVE  IdsInv'
  <1>1. NoneTwice' /\ DeletesFirst' /\ OfTheLookup'
    BY DEF IdsInv, NoneTwice, DeletesFirst, OfTheLookup, ids
  <1>2. PICK where \in [Sessions -> Places] : Placed(where) /\ Alone(where) /\ Counted(where)
    BY DEF IdsInv
  <1>3. Placed(where)'
    <2>1. Fresh' = Fresh
      BY DEF Fresh, ids
    <2> QED BY <1>2, <2>1 DEF Placed, IsAt, ids
  <1>4. Alone(where)' /\ Counted(where)'
    BY <1>2 DEF Alone, Counted
  <1> QED BY <1>1, <1>2, <1>3, <1>4 DEF IdsInv

LEMMA IdsKeptIdle ==
    ASSUME TypeOK, IdsInv, fsm # "UPD_RSP",
           UNCHANGED <<Fresh, freeList, finFifo, insertReq, camUpdate, camDone, insertRsp,
                       revInsert, tupleValid, deleteReq, used>>
    PROVE  IdsInv'
  <1>1. PICK where \in [Sessions -> Places] : Placed(where) /\ Alone(where) /\ Counted(where)
    BY DEF IdsInv
  <1>2. Placed(where)' /\ Counted(where)' /\ NoneTwice' /\ DeletesFirst'
    BY <1>1 DEF Placed, IsAt, Counted, IdsInv, NoneTwice, DeletesFirst
  <1>3. \A o \in Sessions : where[o] \notin Flight
    BY <1>1 DEF Alone
  <1>4. OfTheLookup'
    BY <1>1, <1>3, Grounded DEF OfTheLookup
  <1> QED BY <1>2, <1>3, <1>4 DEF IdsInv, Alone

LEMMA CamKept ==
    ASSUME CamInv, UNCHANGED <<cam, tupleValid, reverseTable, insertReq, camUpdate, camDone,
                               insertRsp, revInsert, deleteReq>>
    PROVE  CamInv'
  BY DEF CamInv, TablesAgree, Inserting, Deleting, ToSet

LEMMA HitsKept ==
    ASSUME HitInv, UNCHANGED <<camHit, query, cam, revInsert, tupleValid, reverseTable>>
    PROVE  HitInv'
  BY DEF HitInv, ToSet

LEMMA LookupKept ==
    ASSUME OneLookup, UNCHANGED <<fsm, query, camLookup, camHit>>
    PROVE  OneLookup'
  BY DEF OneLookup

LEMMA TypesKept ==
    /\ IdTypes /\ UNCHANGED <<ids, used>> => IdTypes'
    /\ HandlerTypes /\ UNCHANGED handler => HandlerTypes'
    /\ UpdateTypes /\ UNCHANGED <<insertReq, insertRsp, revInsert, deleteReq, camUpdate, camDone>>
          => UpdateTypes'
    /\ TableTypes /\ UNCHANGED <<reverseTable, tupleValid, cam>> => TableTypes'
    /\ ClientTypes /\ UNCHANGED outside => ClientTypes'
  BY DEF IdTypes, HandlerTypes, UpdateTypes, TableTypes, ClientTypes, ids, handler, outside

LEMMA SumKept ==
    ASSUME Sum, UNCHANGED <<used, insertReq, freeList, finFifo, counter>>
    PROVE  Sum'
  BY DEF Sum
-----------------------------------------------------------------------------
LEMMA RecycleStep ==
    ASSUME IInv, RecycleID
    PROVE  IInv'
  <1>0. TypeOK /\ Sum /\ IdsInv /\ NoneTwice
    BY DEF IInv, IdsInv
  <1>1. PICK s \in Sessions : s = Head(finFifo)
    BY ReadID DEF IInv, TypeOK, IdTypes, RecycleID
  <1>2. finFifo # <<>> /\ finFifo' = Tail(finFifo) /\ freeList' = Append(freeList, s)
    BY <1>1 DEF RecycleID
  <1>3. finFifo \in Seq(Sessions) /\ freeList \in Seq(Sessions)
    BY <1>0 DEF TypeOK, IdTypes
  <1>4. /\ freeList' \in Seq(Sessions) /\ Len(freeList') = Len(freeList) + 1
        /\ ToSet(freeList') = ToSet(freeList) \cup {s}
        /\ Distinct(freeList) /\ s \notin ToSet(freeList) => Distinct(freeList)'
    BY <1>2, <1>3, WriteID
  <1>5. /\ finFifo' \in Seq(Sessions) /\ Len(finFifo') = Len(finFifo) - 1
        /\ ToSet(finFifo) = ToSet(finFifo') \cup {s}
        /\ Distinct(finFifo) => Distinct(finFifo)' /\ s \notin ToSet(finFifo')
    BY <1>1, <1>2, <1>3, ReadID
  <1>6. TypeOK'
    BY <1>0, <1>4, <1>5, TypesKept DEF TypeOK, IdTypes, RecycleID, updates, reverse
  <1>7. Sum'
    <2>1. UNCHANGED <<used, insertReq, counter>>
      BY DEF RecycleID, updates
    <2>2. used \in Int /\ Len(insertReq) \in Nat /\ Len(freeList) \in Nat /\ Len(finFifo) \in Nat
          /\ counter \in Int
      BY <1>0, MaxSessionsAssumption DEF TypeOK, IdTypes, UpdateTypes
    <2> QED BY <1>0, <1>4, <1>5, <2>1, <2>2 DEF Sum
  <1>8. IdsInv'
    <2>0. UNCHANGED <<Fresh, insertReq, camUpdate, camDone, insertRsp, revInsert,
                      tupleValid, deleteReq, used, fsm, query>>
      BY DEF RecycleID, Fresh, handler, updates, reverse, outside
    <2>1. PICK where \in [Sessions -> Places] : Placed(where) /\ Alone(where) /\ Counted(where)
      BY <1>0 DEF IdsInv
    <2>2. PICK w : w = [where EXCEPT ![s] = "freeList"]
      OBVIOUS
    <2>3. /\ where[s] = "finFifo" /\ "freeList" \in Places
          /\ where[s] \in Flight <=> "freeList" \in Flight
          /\ where[s] \in InUse <=> "freeList" \in InUse
      BY <1>5, <2>1, Idle DEF Placed, IsAt
    <2>4. /\ w \in [Sessions -> Places] /\ w[s] = "freeList"
          /\ \A o \in Sessions : o # s => w[o] = where[o]
          /\ \A o \in Sessions : w[o] \in Flight <=> where[o] \in Flight
          /\ Counted(w)
      BY <2>1, <2>2, <2>3, Move
    <2>5. NoneTwice'
      BY <1>0, <1>4, <1>5, <2>0, <2>1, <2>3 DEF IdsInv, NoneTwice, Placed, IsAt
    <2>6. Placed(w)'
      <3>1. IsAt("finFifo", s)
        BY <2>1, <2>3 DEF Placed
      <3>2. IsAt("freeList", s)'
        BY <1>0, <1>4, <1>5, <2>0, <3>1 DEF IsAt, NoneTwice
      <3>3. \A o \in Sessions : o # s => IsAt(where[o], o)'
        BY <1>4, <1>5, <2>0, <2>1 DEF Placed, IsAt
      <3> QED BY <2>4, <3>2, <3>3 DEF Placed
    <2>7. DeletesFirst' /\ OfTheLookup' /\ Alone(w)' /\ Counted(w)'
      BY <1>0, <2>0, <2>1, <2>4 DEF IdsInv, DeletesFirst, OfTheLookup, Alone, Counted
    <2> QED BY <2>4, <2>5, <2>6, <2>7 DEF IdsInv
  <1>9. UNCHANGED <<cam, tupleValid, reverseTable, insertReq, camUpdate, camDone, insertRsp,
                    revInsert, deleteReq, camHit, query, fsm, camLookup>>
    BY DEF RecycleID, handler, updates, reverse
  <1> QED BY <1>6, <1>7, <1>8, <1>9, CamKept, HitsKept, LookupKept DEF IInv

LEMMA NewStep ==
    ASSUME IInv, NewID
    PROVE  IInv'
  <1>0. TypeOK /\ Sum /\ IdsInv /\ NoneTwice
    BY DEF IInv, IdsInv
  <1>1. PICK s \in Sessions : s = counter
    BY <1>0, MaxSessionsAssumption DEF TypeOK, IdTypes, NewID, Sessions
  <1>2. freeList' = Append(freeList, s) /\ freeList \in Seq(Sessions) /\ counter' = s + 1
    BY <1>0, <1>1 DEF TypeOK, IdTypes, NewID
  <1>3. /\ freeList' \in Seq(Sessions) /\ Len(freeList') = Len(freeList) + 1
        /\ ToSet(freeList') = ToSet(freeList) \cup {s}
        /\ Distinct(freeList) /\ s \notin ToSet(freeList) => Distinct(freeList)'
    BY <1>2, WriteID
  <1>4. TypeOK'
    <2>1. counter' \in 0 .. MaxSessions
      BY <1>1, <1>2, MaxSessionsAssumption DEF NewID, Sessions
    <2> QED BY <1>0, <1>3, <2>1, TypesKept DEF TypeOK, IdTypes, NewID, updates, reverse
  <1>5. Sum'
    <2>1. UNCHANGED <<used, insertReq, finFifo>>
      BY DEF NewID, updates
    <2>2. used \in Int /\ Len(insertReq) \in Nat /\ Len(freeList) \in Nat /\ Len(finFifo) \in Nat
          /\ counter \in Int
      BY <1>0, MaxSessionsAssumption DEF TypeOK, IdTypes, UpdateTypes
    <2> QED BY <1>0, <1>1, <1>2, <1>3, <2>1, <2>2 DEF Sum
  <1>6. IdsInv'
    <2>0. UNCHANGED <<finFifo, insertReq, camUpdate, camDone, insertRsp, revInsert,
                      tupleValid, deleteReq, used, fsm, query>>
      BY DEF NewID, handler, updates, reverse, outside
    <2>1. PICK where \in [Sessions -> Places] : Placed(where) /\ Alone(where) /\ Counted(where)
      BY <1>0 DEF IdsInv
    <2>2. PICK w : w = [where EXCEPT ![s] = "freeList"]
      OBVIOUS
    <2>3. Fresh' = Fresh \ {s} /\ s \in Fresh
      BY <1>0, <1>1, <1>2 DEF Fresh, Sessions, TypeOK, IdTypes
    <2>4. IsAt("new", s) /\ where[s] = "new"
      BY <2>1, <2>3 DEF Placed, IsAt
    <2>5. /\ "freeList" \in Places
          /\ where[s] \in Flight <=> "freeList" \in Flight
          /\ where[s] \in InUse <=> "freeList" \in InUse
      BY <2>4, Idle
    <2>6. /\ w \in [Sessions -> Places] /\ w[s] = "freeList"
          /\ \A o \in Sessions : o # s => w[o] = where[o]
          /\ \A o \in Sessions : w[o] \in Flight <=> where[o] \in Flight
          /\ Counted(w)
      BY <2>1, <2>2, <2>5, Move
    <2>7. Placed(w)'
      <3>1. IsAt("freeList", s)'
        BY <1>3, <2>0, <2>3, <2>4 DEF IsAt
      <3>2. \A o \in Sessions : o # s => IsAt(where[o], o)'
        BY <1>3, <2>0, <2>1, <2>3 DEF Placed, IsAt
      <3> QED BY <2>6, <3>1, <3>2 DEF Placed
    <2>8. NoneTwice'
      BY <1>0, <1>3, <2>0, <2>4 DEF NoneTwice, IsAt
    <2>9. DeletesFirst' /\ OfTheLookup' /\ Alone(w)' /\ Counted(w)'
      BY <1>0, <2>0, <2>1, <2>6 DEF IdsInv, DeletesFirst, OfTheLookup, Alone, Counted
    <2> QED BY <2>6, <2>7, <2>8, <2>9 DEF IdsInv
  <1>7. UNCHANGED <<cam, tupleValid, reverseTable, insertReq, camUpdate, camDone, insertRsp,
                    revInsert, deleteReq, camHit, query, fsm, camLookup>>
    BY DEF NewID, handler, updates, reverse
  <1> QED BY <1>0, <1>4, <1>5, <1>6, <1>7, CamKept, HitsKept, LookupKept DEF IInv
-----------------------------------------------------------------------------
(* LUP_REQ puts the handler to work on a tuple.                            *)
LEMMA RequestStep ==
    ASSUME IInv, NEW c \in Sources, LookupRequest(c)
    PROVE  IInv'
  <1>0. TypeOK /\ OneLookup /\ Sum /\ IdsInv /\ CamInv
    BY DEF IInv
  <1>1. PICK q \in Queries : q = Head(lookups[c])
    BY <1>0, TailFacts DEF TypeOK, ClientTypes, LookupRequest
  <1>2. /\ lookups' \in [Sources -> Seq(Queries)]
        /\ camLookup = <<>> /\ camHit = <<>> /\ fsm = "LUP_REQ"
    <2>1. Tail(lookups[c]) \in Seq(Queries)
      BY <1>0, TailFacts DEF TypeOK, ClientTypes, LookupRequest
    <2> QED BY <1>0, <2>1 DEF TypeOK, ClientTypes, LookupRequest, OneLookup
  <1>3. /\ query' = q /\ fsm' = "LUP_RSP" /\ camHit' = <<>>
        /\ camLookup' = <<q.tuple>> /\ q.tuple \in Tuples
    BY <1>1, <1>2 DEF LookupRequest, Queries
  <1>4. TypeOK'
    <2>1. HandlerTypes'
      BY <1>3 DEF HandlerTypes
    <2>2. ClientTypes'
      BY <1>0, <1>2 DEF TypeOK, ClientTypes, LookupRequest
    <2> QED BY <1>0, <2>1, <2>2, TypesKept DEF TypeOK, LookupRequest, updates, reverse
  <1>5. OneLookup'
    BY <1>3 DEF OneLookup
  <1>6. UNCHANGED <<Fresh, insertReq, camUpdate, camDone, insertRsp, revInsert, cam, counter,
                    freeList, finFifo, tupleValid, reverseTable, deleteReq, used>>
    BY DEF LookupRequest, Fresh, ids, updates, reverse
  <1>7. IdsInv'
    BY <1>0, <1>2, <1>6, IdsKeptIdle
  <1>8. CamInv' /\ Sum'
    BY <1>0, <1>6, CamKept, SumKept
  <1>9. HitInv'
    BY <1>3 DEF HitInv
  <1> QED BY <1>4, <1>5, <1>7, <1>8, <1>9 DEF IInv

(* A permitted miss sends the next free ID on its way.                     *)
LEMMA CreateStep ==
    ASSUME IInv, CreateSession
    PROVE  IInv'
  <1>0. TypeOK /\ OneLookup /\ Sum /\ IdsInv /\ NoneTwice /\ CamInv /\ HitInv
    BY DEF IInv, IdsInv
  <1>1. freeList # <<>> /\ freeList \in Seq(Sessions) /\ freeList' = Tail(freeList)
    BY <1>0 DEF TypeOK, IdTypes, CreateSession, MayCreate
  <1>2. PICK s \in Sessions : s = Head(freeList)
    BY <1>1, ReadID
  <1>3. /\ freeList' \in Seq(Sessions) /\ Len(freeList') = Len(freeList) - 1
        /\ ToSet(freeList) = ToSet(freeList') \cup {s}
        /\ Distinct(freeList)' /\ s \notin ToSet(freeList')
    BY <1>0, <1>1, <1>2, ReadID DEF NoneTwice
  <1>4. PICK r : r = [op |-> "INSERT", tuple |-> query.tuple, sessionID |-> s]
    OBVIOUS
  <1>5. /\ fsm = "LUP_RSP" /\ fsm' = "UPD_RSP" /\ query' = query /\ query.tuple \in Tuples
        /\ camLookup = <<>> /\ camHit # <<>> /\ Len(camHit) = 1 /\ ~camHit[1].hit
        /\ insertReq' = Append(insertReq, r)
    BY <1>0, <1>2, <1>4, TailFacts
    DEF TypeOK, HandlerTypes, OneLookup, CreateSession, MayCreate, Queries
  <1>6. r \in UpdatesOf({"INSERT"}) /\ r.op = "INSERT" /\ r.tuple = query.tuple /\ r.sessionID = s
    BY <1>4, <1>5 DEF UpdatesOf
  <1>7. /\ insertReq' \in Seq(UpdatesOf({"INSERT"})) /\ Len(insertReq') = Len(insertReq) + 1
        /\ ToSet(insertReq') = ToSet(insertReq) \cup {r}
        /\ \A op, o : Has(insertReq', op, o) <=> Has(insertReq, op, o) \/ (op = "INSERT" /\ o = s)
        /\ ~Has(insertReq, "INSERT", s) => Once(insertReq, "INSERT")'
    <2>1. insertReq \in Seq(UpdatesOf({"INSERT"})) /\ Once(insertReq, "INSERT")
      BY <1>0 DEF TypeOK, UpdateTypes, NoneTwice
    <2> QED BY <1>5, <1>6, <2>1, WriteUpdate
  <1>8. cam[query.tuple] = None /\ camHit' = <<>>
    <2>1. 1 \in DOMAIN camHit /\ Tail(camHit) = <<>>
      BY <1>0, <1>5, TailFacts DEF TypeOK, HandlerTypes
    <2> QED BY <1>0, <1>5, <2>1 DEF HitInv, CreateSession
  <1>9. UNCHANGED <<Fresh, counter, finFifo, camLookup, deleteReq, used, camUpdate, camDone,
                    insertRsp, revInsert, cam, reverseTable, tupleValid, query>>
    BY DEF CreateSession, Fresh, reverse
  <1>10. TypeOK'
    <2>1. IdTypes' /\ HandlerTypes' /\ UpdateTypes'
      BY <1>0, <1>3, <1>5, <1>7, <1>8, <1>9
      DEF TypeOK, IdTypes, HandlerTypes, UpdateTypes
    <2> QED BY <1>0, <1>9, <2>1, TypesKept DEF TypeOK, CreateSession
  <1>11. OneLookup'
    BY <1>0, <1>5, <1>8, <1>9 DEF OneLookup
  <1>12. Sum'
    <2>1. used \in Int /\ Len(insertReq) \in Nat /\ Len(freeList) \in Nat /\ Len(finFifo) \in Nat
          /\ counter \in Int
      BY <1>0, MaxSessionsAssumption DEF TypeOK, IdTypes, UpdateTypes
    <2> QED BY <1>0, <1>3, <1>7, <1>9, <2>1 DEF Sum
  <1>13. IdsInv'
    <2>1. PICK where \in [Sessions -> Places] : Placed(where) /\ Alone(where) /\ Counted(where)
      BY <1>0 DEF IdsInv
    <2>2. PICK w : w = [where EXCEPT ![s] = "insertReq"]
      OBVIOUS
    <2>3. IsAt("freeList", s) /\ where[s] = "freeList"
      BY <1>3, <2>1 DEF Placed, IsAt
    <2>4. \A o \in Sessions : where[o] \notin Flight
      BY <1>5, <2>1 DEF Alone
    <2>5. /\ w \in [Sessions -> Places] /\ Counted(w) /\ w[s] = "insertReq"
          /\ \A o \in Sessions : o # s => w[o] = where[o]
      <3>1. /\ "insertReq" \in Places
            /\ where[s] \in InUse <=> "insertReq" \in InUse
        BY <2>3 DEF InUse, Flight, Places
      <3> QED BY <2>1, <2>2, <3>1, Move
    <2>6. Placed(w)'
      <3>1. IsAt("insertReq", s)'
        BY <1>3, <1>7, <1>9, <2>3 DEF IsAt
      <3>2. \A o \in Sessions : o # s => IsAt(where[o], o)'
        BY <1>3, <1>7, <1>9, <2>1 DEF Placed, IsAt
      <3> QED BY <2>5, <3>1, <3>2 DEF Placed
    <2>7. NoneTwice'
      BY <1>0, <1>3, <1>7, <1>9, <2>3 DEF NoneTwice, IsAt
    <2>8. OfTheLookup'
      BY <1>0, <1>6, <1>7, <1>9, <2>1, <2>4, Grounded DEF OfTheLookup
    <2>9. DeletesFirst' /\ Alone(w)' /\ Counted(w)'
      BY <1>0, <1>5, <1>9, <2>4, <2>5 DEF IdsInv, DeletesFirst, Alone, Counted
    <2> QED BY <2>5, <2>6, <2>7, <2>8, <2>9 DEF IdsInv
  <1>14. CamInv'
    BY <1>0, <1>6, <1>7, <1>8, <1>9 DEF CamInv, TablesAgree, Inserting, Deleting
  <1>15. HitInv'
    BY <1>8 DEF HitInv
  <1> QED BY <1>10, <1>11, <1>12, <1>13, <1>14, <1>15 DEF IInv

LEMMA ForwardStep ==
    ASSUME IInv, ForwardReply
    PROVE  IInv'
  <1>0. TypeOK /\ OneLookup /\ Sum /\ IdsInv /\ CamInv
    BY DEF IInv
  <1>1. /\ fsm = "LUP_RSP" /\ fsm' = "LUP_REQ" /\ query' = None /\ query \in Queries
        /\ camLookup = <<>> /\ camLookup' = <<>> /\ camHit # <<>> /\ camHit \in Seq(Hits)
        /\ camHit' = <<>>
    <2>1. camHit \in Seq(Hits) /\ camHit # <<>> /\ Len(camHit) = 1 /\ camLookup = <<>>
      BY <1>0 DEF TypeOK, HandlerTypes, OneLookup, ForwardReply
    <2> QED BY <1>0, <2>1, TailFacts DEF OneLookup, ForwardReply
  <1>2. UNCHANGED <<ids, Fresh, insertReq, camUpdate, camDone, insertRsp, revInsert, tupleValid,
                    deleteReq, used, cam, reverseTable, freeList, finFifo, counter>>
    BY DEF ForwardReply, ids, updates, reverse, Fresh
  <1>3. TypeOK'
    <2>1. Head(camHit) \in Hits /\ query.source \in Sources
      BY <1>1, TailFacts DEF Queries
    <2>2. ClientTypes'
      BY <1>0, <2>1, AppendFacts DEF TypeOK, ClientTypes, ForwardReply
    <2>3. HandlerTypes'
      BY <1>1 DEF HandlerTypes
    <2> QED BY <1>0, <1>2, <2>2, <2>3, TypesKept DEF TypeOK
  <1>4. OneLookup' /\ HitInv'
    BY <1>1 DEF OneLookup, HitInv
  <1>5. IdsInv'
    BY <1>0, <1>1, <1>2, IdsKeptIdle
  <1> QED BY <1>0, <1>2, <1>3, <1>4, <1>5, CamKept, SumKept DEF IInv

(* The answered insert goes on to the reverse table.                       *)
LEMMA CreatedStep ==
    ASSUME IInv, SessionCreated
    PROVE  IInv'
  <1>0. TypeOK /\ OneLookup /\ Sum /\ IdsInv /\ NoneTwice /\ CamInv
    BY DEF IInv, IdsInv
  <1>1. /\ fsm = "UPD_RSP" /\ fsm' = "LUP_REQ" /\ query \in Queries /\ query' = None
        /\ camLookup = <<>> /\ camHit = <<>> /\ camLookup' = <<>> /\ camHit' = <<>>
        /\ insertRsp # <<>> /\ insertRsp' = Tail(insertRsp)
        /\ insertRsp \in Seq(UpdatesOf({"INSERT"})) /\ revInsert \in Seq(UpdatesOf({"INSERT"}))
    BY <1>0 DEF SessionCreated, OneLookup, TypeOK, UpdateTypes
  <1>2. PICK r \in UpdatesOf({"INSERT"}), s \in Sessions : r = Head(insertRsp) /\ s = r.sessionID
    BY <1>1, HeadUpdate
  <1>3. r.op = "INSERT" /\ r.sessionID = s /\ r.tuple = query.tuple /\ r \in ToSet(insertRsp)
    <2>1. r.op = "INSERT" /\ r.sessionID = s
      BY <1>2 DEF UpdatesOf
    <2> QED BY <1>0, <1>1, <1>2, <2>1, ReadUpdate DEF IdsInv, OfTheLookup
  <1>4. revInsert' = Append(revInsert, r)
    <2>1. [r EXCEPT !.tuple = query.tuple] = r
      BY <1>2, <1>3 DEF UpdatesOf
    <2> QED BY <1>2, <2>1 DEF SessionCreated
  <1>5. /\ insertRsp' \in Seq(UpdatesOf({"INSERT"}))
        /\ ToSet(insertRsp) = ToSet(insertRsp') \cup {r}
        /\ \A o : Has(insertRsp, "INSERT", o) <=> Has(insertRsp', "INSERT", o) \/ o = s
        /\ Once(insertRsp, "INSERT")' /\ ~Has(insertRsp', "INSERT", s)
    BY <1>0, <1>1, <1>2, <1>3, ReadUpdate DEF NoneTwice
  <1>6. /\ revInsert' \in Seq(UpdatesOf({"INSERT"}))
        /\ ToSet(revInsert') = ToSet(revInsert) \cup {r}
        /\ \A o : Has(revInsert', "INSERT", o) <=> Has(revInsert, "INSERT", o) \/ o = s
        /\ ~Has(revInsert, "INSERT", s) => Once(revInsert, "INSERT")'
    BY <1>0, <1>1, <1>3, <1>4, WriteUpdate DEF NoneTwice
  <1>7. UNCHANGED <<ids, Fresh, freeList, finFifo, counter, insertReq, deleteReq, used, camUpdate,
                    camDone, cam, reverseTable, tupleValid>>
    BY DEF SessionCreated, ids, Fresh
  <1>8. TypeOK'
    <2>1. UpdateTypes' /\ HandlerTypes'
      BY <1>0, <1>1, <1>5, <1>6, <1>7 DEF TypeOK, UpdateTypes, HandlerTypes
    <2>2. ClientTypes'
      <3>1. query.source \in Sources /\ [sessionID |-> s, hit |-> TRUE] \in Hits
        BY <1>1, <1>3 DEF Queries, Hits
      <3>2. replies' = [replies EXCEPT ![query.source] =
                           Append(@, [sessionID |-> s, hit |-> TRUE])]
        BY <1>2, Zenon DEF SessionCreated
      <3> QED BY <1>0, <3>1, <3>2, AppendFacts DEF TypeOK, ClientTypes, SessionCreated
    <2> QED BY <1>0, <1>7, <2>1, <2>2, TypesKept DEF TypeOK
  <1>9. OneLookup' /\ HitInv'
    BY <1>1 DEF OneLookup, HitInv
  <1>10. IdsInv'
    <2>1. PICK where \in [Sessions -> Places] : Placed(where) /\ Alone(where) /\ Counted(where)
      BY <1>0 DEF IdsInv
    <2>2. PICK w : w = [where EXCEPT ![s] = "revInsert"]
      OBVIOUS
    <2>3. IsAt("insertRsp", s) /\ where[s] = "insertRsp"
      BY <1>3, <1>5, <2>1 DEF Placed, IsAt
    <2>4. /\ w \in [Sessions -> Places] /\ Counted(w) /\ w[s] = "revInsert"
          /\ \A o \in Sessions : o # s => w[o] = where[o]
      <3>1. /\ "revInsert" \in Places
            /\ where[s] \in InUse <=> "revInsert" \in InUse
        BY <2>3 DEF InUse, Flight, Places
      <3> QED BY <2>1, <2>2, <3>1, Move, Zenon
    <2>5. \A o \in Sessions : w[o] \notin Flight
      BY <1>3, <2>1, <2>3, <2>4 DEF Alone, Flight
    <2>6. Placed(w)'
      <3>1. IsAt("revInsert", s)'
        BY <1>5, <1>6, <1>7, <2>3 DEF IsAt
      <3>2. \A o \in Sessions : o # s => IsAt(where[o], o)'
        BY <1>5, <1>6, <1>7, <2>1 DEF Placed, IsAt
      <3> QED BY <2>4, <3>1, <3>2 DEF Placed
    <2>7. NoneTwice'
      BY <1>0, <1>5, <1>6, <1>7, <2>3 DEF NoneTwice, IsAt
    <2>8. OfTheLookup'
      <3>1. where[s] \in Flight
        BY <2>3 DEF Flight
      <3>2. /\ \A x \in ToSet(insertReq) \cup ToSet(camUpdate) \cup ToSet(camDone) : x.op # "INSERT"
            /\ \A x \in ToSet(insertRsp) : x.sessionID = s
        <4>1. \A x \in ToSet(insertReq) : x.op = "INSERT"
          BY <1>0, InFifo DEF TypeOK, UpdateTypes
        <4> QED BY <1>0, <1>3, <2>1, <2>3, <3>1, <4>1, FlightIs
      <3>3. ToSet(insertRsp') = {}
        <4>1. \A x \in ToSet(insertRsp') : x.op = "INSERT" /\ Has(insertRsp', x.op, x.sessionID)
          BY <1>5, InFifo
        <4> QED BY <1>5, <3>2, <4>1
      <3> QED BY <1>7, <3>2, <3>3 DEF OfTheLookup
    <2>9. DeletesFirst' /\ Alone(w)' /\ Counted(w)'
      BY <1>0, <1>7, <2>4, <2>5 DEF IdsInv, DeletesFirst, Alone, Counted
    <2> QED BY <2>4, <2>6, <2>7, <2>8, <2>9 DEF IdsInv
  <1>11. CamInv'
    <2>1. Inserting' = Inserting /\ Deleting' = Deleting
      BY <1>5, <1>6, <1>7 DEF Inserting, Deleting
    <2> QED BY <1>0, <1>5, <1>6, <1>7, <2>1 DEF CamInv, TablesAgree
  <1> QED BY <1>0, <1>7, <1>8, <1>9, <1>10, <1>11, SumKept DEF IInv
-----------------------------------------------------------------------------
(* The sent insert is behind every delete of its ID.                       *)
LEMMA SendInsertStep ==
    ASSUME IInv, SendInsert
    PROVE  IInv'
  <1>0. TypeOK /\ OneLookup /\ Sum /\ IdsInv /\ NoneTwice /\ CamInv
    BY DEF IInv, IdsInv
  <1>1. /\ insertReq # <<>> /\ insertReq' = Tail(insertReq)
        /\ insertReq \in Seq(UpdatesOf({"INSERT"})) /\ camUpdate \in Seq(Updates)
    BY <1>0 DEF SendInsert, TypeOK, UpdateTypes
  <1>2. PICK r \in UpdatesOf({"INSERT"}), s \in Sessions : r = Head(insertReq) /\ s = r.sessionID
    BY <1>1, HeadUpdate
  <1>3. r.op = "INSERT" /\ r.sessionID = s /\ r \in Updates /\ camUpdate' = Append(camUpdate, r)
    BY <1>2 DEF UpdatesOf, Updates, SendInsert
  <1>4. /\ insertReq' \in Seq(UpdatesOf({"INSERT"})) /\ Len(insertReq') = Len(insertReq) - 1
        /\ ToSet(insertReq) = ToSet(insertReq') \cup {r}
        /\ \A o : Has(insertReq, "INSERT", o) <=> Has(insertReq', "INSERT", o) \/ o = s
        /\ Once(insertReq, "INSERT")' /\ ~Has(insertReq', "INSERT", s)
    BY <1>0, <1>1, <1>2, <1>3, ReadUpdate DEF NoneTwice
  <1>5. /\ camUpdate' \in Seq(Updates)
        /\ ToSet(camUpdate') = ToSet(camUpdate) \cup {r}
        /\ \A o : Has(camUpdate', "INSERT", o) <=> Has(camUpdate, "INSERT", o) \/ o = s
        /\ \A o : Has(camUpdate', "DELETE", o) <=> Has(camUpdate, "DELETE", o)
        /\ ~Has(camUpdate, "INSERT", s) => Once(camUpdate, "INSERT")'
        /\ Once(camUpdate, "DELETE")'
    BY <1>0, <1>1, <1>3, WriteUpdate DEF NoneTwice
  <1>6. UNCHANGED <<ids, Fresh, freeList, finFifo, counter, deleteReq, camDone, insertRsp, cam,
                    revInsert, reverseTable, tupleValid, fsm, query, camLookup, camHit>>
        /\ used' = used + 1
    BY DEF SendInsert, ids, Fresh, handler, reverse
  <1>7. TypeOK'
    <2>1. UpdateTypes' /\ IdTypes'
      BY <1>0, <1>4, <1>5, <1>6 DEF TypeOK, UpdateTypes, IdTypes
    <2> QED BY <1>0, <1>6, <2>1, TypesKept DEF TypeOK, SendInsert
  <1>8. Sum'
    <2>1. used \in Int /\ Len(insertReq) \in Nat /\ Len(freeList) \in Nat /\ Len(finFifo) \in Nat
          /\ counter \in Int
      BY <1>0, MaxSessionsAssumption DEF TypeOK, IdTypes, UpdateTypes
    <2> QED BY <1>0, <1>4, <1>6, <2>1 DEF Sum
  <1>9. IdsInv'
    <2>1. PICK where \in [Sessions -> Places] : Placed(where) /\ Alone(where) /\ Counted(where)
      BY <1>0 DEF IdsInv
    <2>2. PICK w : w = [where EXCEPT ![s] = "camUpdate"]
      OBVIOUS
    <2>3. IsAt("insertReq", s) /\ where[s] = "insertReq"
      BY <1>4, <2>1 DEF Placed, IsAt
    <2>4. "camUpdate" \in Places /\ (where[s] \in Flight <=> "camUpdate" \in Flight)
          /\ "camUpdate" \in InUse /\ where[s] \notin InUse
      BY <2>3 DEF InUse, Flight, Places
    <2>5. /\ w \in [Sessions -> Places] /\ w[s] = "camUpdate"
          /\ \A o \in Sessions : o # s => w[o] = where[o]
          /\ \A o \in Sessions : w[o] \in Flight <=> where[o] \in Flight
      BY <2>1, <2>2, <2>4, Move, Zenon
    <2>6. Counted(w)'
      BY <1>6, <2>1, <2>2, <2>4, MoveCounted DEF Counted
    <2>7. Placed(w)'
      <3>1. IsAt("camUpdate", s)'
        BY <1>4, <1>5, <1>6, <2>3 DEF IsAt
      <3>2. \A o \in Sessions : o # s => IsAt(where[o], o)'
        BY <1>4, <1>5, <1>6, <2>1 DEF Placed, IsAt
      <3> QED BY <2>5, <3>1, <3>2 DEF Placed
    <2>8. NoneTwice'
      BY <1>0, <1>4, <1>5, <1>6, <2>3 DEF NoneTwice, IsAt
    <2>9. OfTheLookup'
      BY <1>0, <1>4, <1>5, <1>6 DEF IdsInv, OfTheLookup
    <2>10. DeletesFirst'
      <3>1. /\ Len(camUpdate) \in Nat /\ DOMAIN camUpdate = 1 .. Len(camUpdate)
            /\ DOMAIN camUpdate' = 1 .. Len(camUpdate) + 1
            /\ \A i \in 1 .. Len(camUpdate) : camUpdate'[i] = camUpdate[i]
            /\ camUpdate'[Len(camUpdate) + 1] = r
        BY <1>1, <1>3, AppendFacts
      <3>2. SUFFICES ASSUME NEW i \in DOMAIN camUpdate', NEW j \in DOMAIN camUpdate',
                            camUpdate'[i].op = "INSERT", camUpdate'[j].op = "DELETE",
                            camUpdate'[i].sessionID = camUpdate'[j].sessionID
                     PROVE  j < i
        BY DEF DeletesFirst
      <3>3. j # Len(camUpdate) + 1
        BY <1>3, <3>1, <3>2
      <3>4. j \in DOMAIN camUpdate /\ (i \in DOMAIN camUpdate \/ j < i)
        BY <3>1, <3>3
      <3> QED BY <1>0, <3>1, <3>2, <3>4 DEF IdsInv, DeletesFirst
    <2>11. Alone(w)'
      BY <1>6, <2>1, <2>5 DEF Alone
    <2> QED BY <2>5, <2>6, <2>7, <2>8, <2>9, <2>10, <2>11 DEF IdsInv
  <1>10. CamInv'
    <2>1. Inserting' = Inserting /\ Deleting' = Deleting
      BY <1>3, <1>4, <1>5, <1>6 DEF Inserting, Deleting
    <2> QED BY <1>0, <1>4, <1>5, <1>6, <2>1 DEF CamInv, TablesAgree
  <1> QED BY <1>0, <1>6, <1>7, <1>8, <1>9, <1>10, LookupKept, HitsKept DEF IInv

(* The sent delete gives its ID back; no insert of this ID is there yet.   *)
LEMMA SendDeleteStep ==
    ASSUME IInv, SendDelete
    PROVE  IInv'
  <1>0. TypeOK /\ OneLookup /\ Sum /\ IdsInv /\ NoneTwice /\ CamInv
    BY DEF IInv, IdsInv
  <1>1. /\ deleteReq # <<>> /\ deleteReq' = Tail(deleteReq)
        /\ deleteReq \in Seq(UpdatesOf({"DELETE"})) /\ camUpdate \in Seq(Updates)
        /\ finFifo \in Seq(Sessions)
    BY <1>0 DEF SendDelete, DeleteStep, TypeOK, UpdateTypes, IdTypes
  <1>2. PICK r \in UpdatesOf({"DELETE"}), s \in Sessions : r = Head(deleteReq) /\ s = r.sessionID
    BY <1>1, HeadUpdate
  <1>3. r.op = "DELETE" /\ r.sessionID = s /\ r \in Updates
        /\ camUpdate' = Append(camUpdate, r) /\ finFifo' = Append(finFifo, s)
    <2>1. r.op = "DELETE" /\ r \in Updates
      BY <1>2 DEF UpdatesOf, Updates
    <2>2. camUpdate' = camUpdate \o <<r>> /\ finFifo' = finFifo \o <<s>>
      BY <1>2 DEF SendDelete, DeleteStep
    <2> QED BY <1>1, <1>2, <2>1, <2>2, AppendIsConcat
  <1>4. /\ deleteReq' \in Seq(UpdatesOf({"DELETE"}))
        /\ ToSet(deleteReq) = ToSet(deleteReq') \cup {r}
        /\ \A o : Has(deleteReq, "DELETE", o) <=> Has(deleteReq', "DELETE", o) \/ o = s
        /\ Once(deleteReq, "DELETE")' /\ ~Has(deleteReq', "DELETE", s)
    BY <1>0, <1>1, <1>2, <1>3, ReadUpdate DEF NoneTwice
  <1>5. /\ camUpdate' \in Seq(Updates)
        /\ ToSet(camUpdate') = ToSet(camUpdate) \cup {r}
        /\ \A o : Has(camUpdate', "DELETE", o) <=> Has(camUpdate, "DELETE", o) \/ o = s
        /\ \A o : Has(camUpdate', "INSERT", o) <=> Has(camUpdate, "INSERT", o)
        /\ ~Has(camUpdate, "DELETE", s) => Once(camUpdate, "DELETE")'
        /\ Once(camUpdate, "INSERT")'
    BY <1>0, <1>1, <1>3, WriteUpdate DEF NoneTwice
  <1>6. /\ finFifo' \in Seq(Sessions) /\ Len(finFifo') = Len(finFifo) + 1
        /\ ToSet(finFifo') = ToSet(finFifo) \cup {s}
        /\ Distinct(finFifo) /\ s \notin ToSet(finFifo) => Distinct(finFifo)'
    BY <1>1, <1>3, WriteID
  <1>7. UNCHANGED <<Fresh, freeList, counter, insertReq, camDone, insertRsp, cam,
                    revInsert, reverseTable, tupleValid, fsm, query, camLookup, camHit>>
        /\ used' = used - 1
    BY DEF SendDelete, DeleteStep, Fresh, handler, reverse
  <1>8. TypeOK'
    <2>1. UpdateTypes' /\ IdTypes'
      BY <1>0, <1>4, <1>5, <1>6, <1>7 DEF TypeOK, UpdateTypes, IdTypes
    <2> QED BY <1>0, <1>7, <2>1, TypesKept DEF TypeOK, SendDelete, DeleteStep
  <1>9. Sum'
    <2>1. used \in Int /\ Len(insertReq) \in Nat /\ Len(freeList) \in Nat /\ Len(finFifo) \in Nat
          /\ counter \in Int
      BY <1>0, MaxSessionsAssumption DEF TypeOK, IdTypes, UpdateTypes
    <2> QED BY <1>0, <1>6, <1>7, <2>1 DEF Sum
  <1>10. IdsInv'
    <2>1. PICK where \in [Sessions -> Places] : Placed(where) /\ Alone(where) /\ Counted(where)
      BY <1>0 DEF IdsInv
    <2>2. PICK w : w = [where EXCEPT ![s] = "finFifo"]
      OBVIOUS
    <2>3. IsAt("deleteReq", s) /\ where[s] = "deleteReq" /\ ~Has(camUpdate, "INSERT", s)
          /\ ~Has(camUpdate, "DELETE", s) /\ s \notin ToSet(finFifo)
      BY <1>4, <2>1 DEF Placed, IsAt
    <2>4. "finFifo" \in Places /\ (where[s] \in Flight <=> "finFifo" \in Flight)
          /\ "finFifo" \notin InUse /\ where[s] \in InUse
      BY <2>3 DEF InUse, Flight, Places
    <2>5. /\ w \in [Sessions -> Places] /\ w[s] = "finFifo"
          /\ \A o \in Sessions : o # s => w[o] = where[o]
          /\ \A o \in Sessions : w[o] \in Flight <=> where[o] \in Flight
      BY <2>1, <2>2, <2>4, Move, Zenon
    <2>6. Counted(w)'
      BY <1>7, <2>1, <2>2, <2>4, MoveCounted DEF Counted
    <2>7. Placed(w)'
      <3>1. IsAt("finFifo", s)'
        BY <1>4, <1>5, <1>6, <1>7, <2>3 DEF IsAt
      <3>2. \A o \in Sessions : o # s => IsAt(where[o], o)'
        BY <1>4, <1>5, <1>6, <1>7, <2>1 DEF Placed, IsAt
      <3> QED BY <2>5, <3>1, <3>2 DEF Placed
    <2>8. NoneTwice'
      BY <1>0, <1>4, <1>5, <1>6, <1>7, <2>3 DEF NoneTwice
    <2>9. OfTheLookup'
      BY <1>0, <1>3, <1>5, <1>7 DEF IdsInv, OfTheLookup
    <2>10. DeletesFirst'
      <3>1. /\ Len(camUpdate) \in Nat /\ DOMAIN camUpdate = 1 .. Len(camUpdate)
            /\ DOMAIN camUpdate' = 1 .. Len(camUpdate) + 1
            /\ \A i \in 1 .. Len(camUpdate) : camUpdate'[i] = camUpdate[i]
            /\ camUpdate'[Len(camUpdate) + 1] = r
        BY <1>1, <1>3, AppendFacts
      <3>2. SUFFICES ASSUME NEW i \in DOMAIN camUpdate', NEW j \in DOMAIN camUpdate',
                            camUpdate'[i].op = "INSERT", camUpdate'[j].op = "DELETE",
                            camUpdate'[i].sessionID = camUpdate'[j].sessionID
                     PROVE  j < i
        BY DEF DeletesFirst
      <3>3. i # Len(camUpdate) + 1
        BY <1>3, <3>1, <3>2
      <3>4. i \in DOMAIN camUpdate
        BY <3>1, <3>3
      <3>5. camUpdate[i].sessionID # s
        BY <2>3, <3>1, <3>2, <3>4 DEF Has
      <3>6. j \in DOMAIN camUpdate
        BY <1>3, <3>1, <3>2, <3>4, <3>5
      <3> QED BY <1>0, <3>1, <3>2, <3>4, <3>6 DEF IdsInv, DeletesFirst
    <2>11. Alone(w)'
      BY <1>7, <2>1, <2>5 DEF Alone
    <2> QED BY <2>5, <2>6, <2>7, <2>8, <2>9, <2>10, <2>11 DEF IdsInv
  <1>11. CamInv'
    <2>1. Inserting' = Inserting /\ Deleting' = Deleting
      BY <1>3, <1>4, <1>5, <1>7 DEF Inserting, Deleting
    <2> QED BY <1>0, <1>3, <1>5, <1>7, <2>1 DEF CamInv, TablesAgree
  <1> QED BY <1>0, <1>7, <1>8, <1>9, <1>10, <1>11, LookupKept, HitsKept DEF IInv

(* The reply to an insert goes to the handler, that to a delete nowhere.   *)
LEMMA UpdateReplyStep ==
    ASSUME IInv, UpdateReplyHandler
    PROVE  IInv'
  <1>0. TypeOK /\ OneLookup /\ Sum /\ IdsInv /\ NoneTwice /\ CamInv
    BY DEF IInv, IdsInv
  <1>1. /\ camDone # <<>> /\ camDone' = Tail(camDone) /\ camDone \in Seq(Updates)
        /\ insertRsp \in Seq(UpdatesOf({"INSERT"}))
    BY <1>0 DEF UpdateReplyHandler, TypeOK, UpdateTypes
  <1>2. PICK r \in Updates, s \in Sessions : r = Head(camDone) /\ s = r.sessionID
    BY <1>1, HeadUpdate DEF Updates
  <1>3. /\ camDone' \in Seq(Updates)
        /\ ToSet(camDone) = ToSet(camDone') \cup {r}
        /\ \A op, o : Has(camDone, op, o) <=> Has(camDone', op, o) \/ (r.op = op /\ s = o)
        /\ Once(camDone, "INSERT")'
        /\ r.op = "INSERT" => ~Has(camDone', "INSERT", s)
    BY <1>0, <1>1, <1>2, ReadUpdate DEF NoneTwice
  <1>4. UNCHANGED <<ids, Fresh, freeList, finFifo, counter, insertReq, deleteReq, used, camUpdate,
                    cam, revInsert, reverseTable, tupleValid, fsm, query, camLookup, camHit>>
    BY DEF UpdateReplyHandler, ids, Fresh, handler, reverse
  <1>5. UNCHANGED outside
    BY DEF UpdateReplyHandler
  <1>6. PICK where \in [Sessions -> Places] : Placed(where) /\ Alone(where) /\ Counted(where)
    BY <1>0 DEF IdsInv
  <1>7. DeletesFirst'
    BY <1>0, <1>4 DEF IdsInv, DeletesFirst
  <1>8. CASE r.op = "INSERT"
    <2>1. insertRsp' = Append(insertRsp, r) /\ r \in UpdatesOf({"INSERT"})
      BY <1>2, <1>8 DEF UpdateReplyHandler, Updates, UpdatesOf
    <2>2. /\ insertRsp' \in Seq(UpdatesOf({"INSERT"}))
          /\ ToSet(insertRsp') = ToSet(insertRsp) \cup {r}
          /\ \A o : Has(insertRsp', "INSERT", o) <=> Has(insertRsp, "INSERT", o) \/ o = s
          /\ ~Has(insertRsp, "INSERT", s) => Once(insertRsp, "INSERT")'
      BY <1>0, <1>1, <1>2, <1>8, <2>1, WriteUpdate DEF NoneTwice
    <2>3. TypeOK'
      <3>1. UpdateTypes'
        BY <1>0, <1>3, <1>4, <2>2 DEF TypeOK, UpdateTypes
      <3> QED BY <1>0, <1>4, <1>5, <3>1, TypesKept DEF TypeOK, handler
    <2>4. IdsInv'
      <3>1. PICK w : w = [where EXCEPT ![s] = "insertRsp"]
        OBVIOUS
      <3>2. IsAt("camDone", s) /\ where[s] = "camDone"
        BY <1>3, <1>6, <1>8 DEF Placed, IsAt
      <3>3. /\ "insertRsp" \in Places
            /\ where[s] \in Flight <=> "insertRsp" \in Flight
            /\ where[s] \in InUse <=> "insertRsp" \in InUse
        BY <3>2 DEF InUse, Flight, Places
      <3>4. /\ w \in [Sessions -> Places] /\ w[s] = "insertRsp" /\ Counted(w)
            /\ \A o \in Sessions : o # s => w[o] = where[o]
            /\ \A o \in Sessions : w[o] \in Flight <=> where[o] \in Flight
        BY <1>6, <3>1, <3>3, Move, Zenon
      <3>5. Placed(w)'
        <4>1. IsAt("insertRsp", s)'
          BY <1>3, <1>4, <1>8, <2>2, <3>2 DEF IsAt
        <4>2. \A o \in Sessions : o # s => IsAt(where[o], o)'
          BY <1>3, <1>4, <1>6, <1>8, <2>2 DEF Placed, IsAt
        <4> QED BY <3>4, <4>1, <4>2 DEF Placed
      <3>6. NoneTwice'
        BY <1>0, <1>3, <1>4, <2>2, <3>2 DEF NoneTwice, IsAt
      <3>7. OfTheLookup'
        BY <1>0, <1>3, <1>4, <2>2 DEF IdsInv, OfTheLookup
      <3>8. Alone(w)' /\ Counted(w)'
        BY <1>4, <1>6, <3>4 DEF Alone, Counted
      <3> QED BY <1>7, <3>4, <3>5, <3>6, <3>7, <3>8 DEF IdsInv
    <2>5. CamInv'
      <3>1. Inserting' = Inserting /\ Deleting' = Deleting
        BY <1>3, <1>4, <2>2 DEF Inserting, Deleting
      <3> QED BY <1>0, <1>3, <1>4, <2>2, <3>1 DEF CamInv, TablesAgree
    <2> QED BY <1>0, <1>4, <2>3, <2>4, <2>5, LookupKept, HitsKept, SumKept DEF IInv
  <1>9. CASE r.op # "INSERT"
    <2>1. insertRsp' = insertRsp
      BY <1>2, <1>9 DEF UpdateReplyHandler
    <2>2. TypeOK'
      <3>1. UpdateTypes'
        BY <1>0, <1>3, <1>4, <2>1 DEF TypeOK, UpdateTypes
      <3> QED BY <1>0, <1>4, <1>5, <3>1, TypesKept DEF TypeOK, handler
    <2>3. IdsInv'
      <3>1. Placed(where)' /\ Alone(where)' /\ Counted(where)'
        BY <1>3, <1>4, <1>6, <1>9, <2>1 DEF Placed, IsAt, Alone, Counted
      <3>2. NoneTwice' /\ OfTheLookup'
        BY <1>0, <1>3, <1>4, <2>1 DEF NoneTwice, IdsInv, OfTheLookup
      <3> QED BY <1>7, <3>1, <3>2 DEF IdsInv
    <2>4. CamInv'
      <3>1. Inserting' = Inserting /\ Deleting' = Deleting
        BY <1>3, <1>4, <1>9, <2>1 DEF Inserting, Deleting
      <3> QED BY <1>0, <1>3, <1>4, <2>1, <3>1 DEF CamInv, TablesAgree
    <2> QED BY <1>0, <1>4, <2>2, <2>3, <2>4, LookupKept, HitsKept, SumKept DEF IInv
  <1> QED BY <1>8, <1>9
-----------------------------------------------------------------------------
(* An inserted session is in use under a tuple the CAM knows it by.        *)
LEMMA ReverseInsertStep ==
    ASSUME IInv, ReverseInsert
    PROVE  IInv'
  <1>0. TypeOK /\ OneLookup /\ Sum /\ IdsInv /\ NoneTwice /\ CamInv /\ HitInv
    BY DEF IInv, IdsInv
  <1>1. /\ revInsert # <<>> /\ revInsert' = Tail(revInsert)
        /\ revInsert \in Seq(UpdatesOf({"INSERT"}))
    BY <1>0 DEF ReverseInsert, TypeOK, UpdateTypes
  <1>2. PICK r \in UpdatesOf({"INSERT"}), s \in Sessions : r = Head(revInsert) /\ s = r.sessionID
    BY <1>1, HeadUpdate
  <1>3. r.op = "INSERT" /\ r.sessionID = s /\ r.tuple \in Tuples
    BY <1>2 DEF UpdatesOf
  <1>4. /\ revInsert' \in Seq(UpdatesOf({"INSERT"}))
        /\ ToSet(revInsert) = ToSet(revInsert') \cup {r}
        /\ \A o : Has(revInsert, "INSERT", o) <=> Has(revInsert', "INSERT", o) \/ o = s
        /\ Once(revInsert, "INSERT")' /\ ~Has(revInsert', "INSERT", s)
    BY <1>0, <1>1, <1>2, <1>3, ReadUpdate DEF NoneTwice
  <1>5. /\ reverseTable' = [reverseTable EXCEPT ![s] = r.tuple]
        /\ tupleValid' = [tupleValid EXCEPT ![s] = TRUE]
    BY <1>2, Zenon DEF ReverseInsert
  <1>6. TableTypes' /\ \A o \in Sessions :
            /\ reverseTable'[o] = IF o = s THEN r.tuple ELSE reverseTable[o]
            /\ tupleValid'[o] <=> o = s \/ tupleValid[o]
    <2>1. cam' = cam
      BY DEF ReverseInsert, updates
    <2> QED BY <1>0, <1>3, <1>5, <2>1 DEF TypeOK, TableTypes
  <1>7. UNCHANGED <<ids, Fresh, freeList, finFifo, counter, insertReq, deleteReq, used, camUpdate,
                    camDone, insertRsp, cam, fsm, query, camLookup, camHit>>
    BY DEF ReverseInsert, ids, Fresh, handler, updates
  <1>8. TypeOK'
    <2>1. UpdateTypes'
      BY <1>0, <1>4, <1>7 DEF TypeOK, UpdateTypes
    <2> QED BY <1>0, <1>6, <1>7, <2>1, TypesKept DEF TypeOK, ReverseInsert
  <1>9. IdsInv'
    <2>1. PICK where \in [Sessions -> Places] : Placed(where) /\ Alone(where) /\ Counted(where)
      BY <1>0 DEF IdsInv
    <2>2. PICK w : w = [where EXCEPT ![s] = "valid"]
      OBVIOUS
    <2>3. IsAt("revInsert", s) /\ where[s] = "revInsert"
      BY <1>4, <2>1 DEF Placed, IsAt
    <2>4. /\ "valid" \in Places
          /\ where[s] \in Flight <=> "valid" \in Flight
          /\ where[s] \in InUse <=> "valid" \in InUse
      BY <2>3 DEF InUse, Flight, Places
    <2>5. /\ w \in [Sessions -> Places] /\ w[s] = "valid" /\ Counted(w)
          /\ \A o \in Sessions : o # s => w[o] = where[o]
          /\ \A o \in Sessions : w[o] \in Flight <=> where[o] \in Flight
      BY <2>1, <2>2, <2>4, Move, Zenon
    <2>6. Placed(w)'
      <3>1. IsAt("valid", s)'
        BY <1>4, <1>6, <1>7, <2>3 DEF IsAt
      <3>2. \A o \in Sessions : o # s => IsAt(where[o], o)'
        BY <1>4, <1>6, <1>7, <2>1 DEF Placed, IsAt
      <3> QED BY <2>5, <3>1, <3>2 DEF Placed
    <2>7. NoneTwice' /\ DeletesFirst' /\ OfTheLookup'
      BY <1>0, <1>4, <1>7 DEF NoneTwice, IdsInv, DeletesFirst, OfTheLookup
    <2>8. Alone(w)' /\ Counted(w)'
      BY <1>7, <2>1, <2>5 DEF Alone, Counted
    <2> QED BY <2>5, <2>6, <2>7, <2>8 DEF IdsInv
  <1>10. CamInv'
    <2>1. cam[r.tuple] = s
      BY <1>0, <1>3, <1>4 DEF CamInv
    <2>2. Inserting = Inserting' \cup {r} /\ Deleting' = Deleting
      BY <1>3, <1>4, <1>7 DEF Inserting, Deleting
    <2>3. ~tupleValid[s]
      <3>1. PICK where \in [Sessions -> Places] : Placed(where)
        BY <1>0 DEF IdsInv
      <3>2. where[s] = "revInsert"
        BY <1>4, <3>1 DEF Placed, IsAt
      <3> QED BY <3>1, <3>2 DEF Placed, IsAt
    <2>4. TablesAgree'
      <3>1. \A o \in Sessions : tupleValid'[o] => cam'[reverseTable'[o]] = o
        BY <1>0, <1>6, <1>7, <2>1 DEF CamInv, TablesAgree
      <3>2. ASSUME NEW t \in Tuples, cam[t] # None
            PROVE  \/ tupleValid'[cam[t]] /\ reverseTable'[cam[t]] = t
                   \/ \E x \in Inserting' \cup Deleting : x.tuple = t /\ x.sessionID = cam[t]
        <4>1. cam[t] \in Sessions
          BY <1>0, <3>2 DEF TypeOK, TableTypes
        <4>2. CASE tupleValid[cam[t]] /\ reverseTable[cam[t]] = t
          BY <1>6, <2>3, <4>1, <4>2
        <4>3. CASE \E x \in Inserting \cup Deleting : x.tuple = t /\ x.sessionID = cam[t]
          BY <1>3, <1>6, <2>2, <4>1, <4>3
        <4> QED BY <1>0, <3>2, <4>2, <4>3 DEF CamInv, TablesAgree
      <3> QED BY <1>7, <2>2, <3>1, <3>2 DEF TablesAgree
    <2> QED BY <1>0, <1>4, <1>7, <2>2, <2>4 DEF CamInv
  <1>11. HitInv'
    <2> SUFFICES ASSUME NEW i \in DOMAIN camHit
                 PROVE  /\ camHit[i].hit <=> camHit[i].sessionID # None
                        /\ ~camHit[i].hit => cam[query.tuple] = None
                        /\ camHit[i].hit =>
                              /\ \A x \in ToSet(revInsert') :
                                    x.sessionID = camHit[i].sessionID => x.tuple = query.tuple
                              /\ tupleValid'[camHit[i].sessionID]
                                    => reverseTable'[camHit[i].sessionID] = query.tuple
      BY <1>7 DEF HitInv
    <2>1. camHit[i].sessionID \in Sessions \cup {None}
      <3>1. camHit[i] \in Hits
        BY <1>0 DEF TypeOK, HandlerTypes
      <3> QED BY <3>1 DEF Hits
    <2>2. ASSUME camHit[i].hit, camHit[i].sessionID \in Sessions, tupleValid'[camHit[i].sessionID]
          PROVE  reverseTable'[camHit[i].sessionID] = query.tuple
      BY <1>0, <1>3, <1>4, <1>6, <2>2 DEF HitInv
    <2> QED BY <1>0, <1>4, <2>1, <2>2 DEF HitInv
  <1> QED BY <1>0, <1>7, <1>8, <1>9, <1>10, <1>11, LookupKept, SumKept DEF IInv

(* Only the release of a session in use makes a delete of it.              *)
LEMMA ReleaseStepInv ==
    ASSUME IInv, ReleaseSession
    PROVE  IInv'
  <1>0. TypeOK /\ OneLookup /\ Sum /\ IdsInv /\ NoneTwice /\ CamInv /\ HitInv
    BY DEF IInv, IdsInv
  <1>1. releaseReq # <<>> /\ releaseReq \in Seq(Sessions) /\ deleteReq \in Seq(UpdatesOf({"DELETE"}))
        /\ tupleValid \in [Sessions -> BOOLEAN]
    BY <1>0 DEF ReleaseSession, ReleaseStep, TypeOK, ClientTypes, UpdateTypes, TableTypes
  <1>2. PICK s \in Sessions : s = Head(releaseReq)
    BY <1>1, TailFacts
  <1>3. UNCHANGED <<ids, Fresh, freeList, finFifo, counter, insertReq, used, camUpdate, camDone, revInsert,
                    insertRsp, cam, fsm, query, camLookup, camHit, reverseTable>>
    BY DEF ReleaseSession, ReleaseStep, ids, Fresh, handler
  <1>4. ClientTypes' /\ UNCHANGED handler
    <2>1. releaseReq' \in Seq(Sessions)
      BY <1>1, TailFacts DEF ReleaseSession, ReleaseStep
    <2>2. reverseTable[s] \in Tuples \cup {None}
      BY <1>0 DEF TypeOK, TableTypes
    <2>3. releasePort' \in Seq(Tuples \cup {None})
      <3>1. releasePort' = releasePort \/ releasePort' = Append(releasePort, reverseTable[s])
        BY <1>2 DEF ReleaseSession, ReleaseStep
      <3>2. releasePort \in Seq(Tuples \cup {None})
        BY <1>0 DEF TypeOK, ClientTypes
      <3> QED BY <2>2, <3>1, <3>2, AppendFacts
    <2> QED BY <1>0, <2>1, <2>3 DEF TypeOK, ClientTypes, ReleaseSession, ReleaseStep
  <1>5. PICK where \in [Sessions -> Places] : Placed(where) /\ Alone(where) /\ Counted(where)
    BY <1>0 DEF IdsInv
  <1>6. tupleValid' = [tupleValid EXCEPT ![s] = FALSE]
    BY <1>2 DEF ReleaseSession, ReleaseStep
  <1>7. CASE ~tupleValid[s]
    <2>1. tupleValid' = tupleValid
      BY <1>1, <1>6, <1>7
    <2>2. deleteReq' = deleteReq
      BY <1>2, <1>7 DEF ReleaseSession, ReleaseStep
    <2> QED
      BY <1>0, <1>3, <1>4, <2>1, <2>2, TypesKept, LookupKept, SumKept, IdsKept, CamKept, HitsKept
      DEF IInv, TypeOK
  <1>8. CASE tupleValid[s]
    <2>1. PICK r : r = [op |-> "DELETE", tuple |-> reverseTable[s], sessionID |-> s]
      OBVIOUS
    <2>2. reverseTable[s] \in Tuples /\ cam[reverseTable[s]] = s
      BY <1>0, <1>8 DEF TypeOK, TableTypes, CamInv, TablesAgree
    <2>3. /\ r.op = "DELETE" /\ r.sessionID = s /\ r.tuple = reverseTable[s]
          /\ r \in UpdatesOf({"DELETE"}) /\ deleteReq' = Append(deleteReq, r)
      BY <1>2, <1>8, <2>1, <2>2 DEF UpdatesOf, ReleaseSession, ReleaseStep
    <2>4. /\ deleteReq' \in Seq(UpdatesOf({"DELETE"}))
          /\ ToSet(deleteReq') = ToSet(deleteReq) \cup {r}
          /\ \A o : Has(deleteReq', "DELETE", o) <=> Has(deleteReq, "DELETE", o) \/ o = s
          /\ ~Has(deleteReq, "DELETE", s) => Once(deleteReq, "DELETE")'
      BY <1>0, <1>1, <2>3, WriteUpdate DEF NoneTwice
    <2>5. /\ tupleValid' \in [Sessions -> BOOLEAN]
          /\ \A o \in Sessions : tupleValid'[o] <=> tupleValid[o] /\ o # s
      BY <1>1, <1>6
    <2>6. TypeOK'
      <3>1. UpdateTypes' /\ TableTypes'
        BY <1>0, <1>3, <2>4, <2>5 DEF TypeOK, UpdateTypes, TableTypes
      <3> QED BY <1>0, <1>3, <1>4, <3>1, TypesKept DEF TypeOK
    <2>7. IdsInv'
      <3>1. PICK w : w = [where EXCEPT ![s] = "deleteReq"]
        OBVIOUS
      <3>2. IsAt("valid", s) /\ where[s] = "valid"
        BY <1>5, <1>8 DEF Placed, IsAt
      <3>3. /\ "deleteReq" \in Places
            /\ where[s] \in Flight <=> "deleteReq" \in Flight
            /\ where[s] \in InUse <=> "deleteReq" \in InUse
        BY <3>2 DEF InUse, Flight, Places
      <3>4. /\ w \in [Sessions -> Places] /\ w[s] = "deleteReq" /\ Counted(w)
            /\ \A o \in Sessions : o # s => w[o] = where[o]
            /\ \A o \in Sessions : w[o] \in Flight <=> where[o] \in Flight
        BY <1>5, <3>1, <3>3, Move, Zenon
      <3>5. Placed(w)'
        <4>1. IsAt("deleteReq", s)'
          BY <1>3, <2>4, <2>5, <3>2 DEF IsAt
        <4>2. \A o \in Sessions : o # s => IsAt(where[o], o)'
          BY <1>3, <1>5, <2>4, <2>5 DEF Placed, IsAt
        <4> QED BY <3>4, <4>1, <4>2 DEF Placed
      <3>6. NoneTwice' /\ DeletesFirst' /\ OfTheLookup'
        BY <1>0, <1>3, <2>4, <3>2 DEF NoneTwice, IsAt, IdsInv, DeletesFirst, OfTheLookup
      <3>7. Alone(w)' /\ Counted(w)'
        BY <1>3, <1>5, <3>4 DEF Alone, Counted
      <3> QED BY <3>4, <3>5, <3>6, <3>7 DEF IdsInv
    <2>8. CamInv'
      <3>1. Inserting' = Inserting /\ Deleting' = Deleting \cup {r}
        BY <1>3, <2>3, <2>4 DEF Inserting, Deleting
      <3>2. TablesAgree'
        <4>1. \A o \in Sessions : tupleValid'[o] => cam'[reverseTable'[o]] = o
          BY <1>0, <1>3, <2>5 DEF CamInv, TablesAgree
        <4>2. ASSUME NEW t \in Tuples, cam[t] # None
              PROVE  \/ tupleValid'[cam[t]] /\ reverseTable[cam[t]] = t
                     \/ \E x \in Inserting \cup Deleting \cup {r} : x.tuple = t /\ x.sessionID = cam[t]
          <5>1. cam[t] \in Sessions
            BY <1>0, <4>2 DEF TypeOK, TableTypes
          <5>2. CASE tupleValid[cam[t]] /\ reverseTable[cam[t]] = t
            BY <2>3, <2>5, <5>1, <5>2
          <5> QED BY <1>0, <4>2, <5>2 DEF CamInv, TablesAgree
        <4> QED BY <1>3, <3>1, <4>1, <4>2 DEF TablesAgree
      <3> QED BY <1>0, <1>3, <2>2, <2>3, <3>1, <3>2 DEF CamInv
    <2>9. HitInv'
      <3>1. \A i \in DOMAIN camHit : camHit[i].sessionID \in Sessions \cup {None}
        <4>1. \A i \in DOMAIN camHit : camHit[i] \in Hits
          BY <1>0 DEF TypeOK, HandlerTypes
        <4> QED BY <4>1 DEF Hits
      <3>2. \A i \in DOMAIN camHit :
               camHit[i].hit /\ tupleValid'[camHit[i].sessionID] => tupleValid[camHit[i].sessionID]
        BY <1>0, <2>5, <3>1 DEF HitInv
      <3> QED BY <1>0, <1>3, <3>2 DEF HitInv
    <2> QED BY <1>0, <1>3, <2>6, <2>7, <2>8, <2>9, LookupKept, SumKept DEF IInv
  <1> QED BY <1>7, <1>8

(* What only the clients see.                                              *)
LEMMA ClientStep ==
    ASSUME IInv, ClientTypes', UNCHANGED <<ids, handler, updates, reverse>>
    PROVE  IInv'
  <1>1. UNCHANGED <<counter, freeList, finFifo, insertReq, deleteReq, used, camUpdate, camDone,
                    insertRsp, cam, reverseTable, tupleValid, revInsert, fsm, query, camLookup, camHit>>
    BY DEF ids, handler, updates, reverse
  <1>2. TypeOK'
    BY <1>1, TypesKept DEF IInv, TypeOK
  <1> QED
    BY <1>1, <1>2, LookupKept, SumKept, IdsKept, CamKept, HitsKept DEF IInv

LEMMA ClientsStep ==
    ASSUME IInv, ReverseQuery \/ Arrival \/ Taking
    PROVE  IInv'
  <1>0. ClientTypes
    BY DEF IInv, TypeOK
  <1>1. CASE ReverseQuery
    <2>1. Head(revReq) \in Sessions /\ Tail(revReq) \in Seq(Sessions)
      BY <1>0, <1>1, TailFacts DEF ClientTypes, ReverseQuery
    <2>2. reverseTable[Head(revReq)] \in Tuples \cup {None}
      BY <2>1 DEF IInv, TypeOK, TableTypes
    <2>3. ClientTypes'
      BY <1>0, <1>1, <2>1, <2>2, AppendFacts DEF ClientTypes, ReverseQuery
    <2> QED BY <1>1, <2>3, ClientStep DEF ReverseQuery
  <1>2. ASSUME NEW c \in Sources, NEW t \in Tuples, NEW allow \in BOOLEAN, Lookup(c, t, allow)
        PROVE  IInv'
    <2>1. [tuple |-> t, allowCreation |-> allow, source |-> c] \in Queries
      BY DEF Queries
    <2>2. ClientTypes'
      BY <1>0, <1>2, <2>1, AppendFacts DEF ClientTypes, Lookup
    <2> QED BY <1>2, <2>2, ClientStep DEF Lookup
  <1>3. ASSUME NEW s \in Sessions, Release(s)
        PROVE  IInv'
    <2>1. ClientTypes'
      BY <1>0, <1>3, AppendFacts DEF ClientTypes, Release
    <2> QED BY <1>3, <2>1, ClientStep DEF Release
  <1>4. ASSUME NEW s \in Queried, AskTuple(s)
        PROVE  IInv'
    <2>1. ClientTypes'
      BY <1>0, <1>4, QueriedAssumption, AppendFacts DEF ClientTypes, AskTuple
    <2> QED BY <1>4, <2>1, ClientStep DEF AskTuple
  <1>5. CASE Arrival
    <2>1. "RX" \in Sources /\ "TX_APP" \in Sources
      BY DEF Sources
    <2> QED BY <1>2, <1>3, <1>4, <1>5, <2>1 DEF Arrival
  <1>6. CASE TakeReleasedPort
    <2>1. ClientTypes'
      BY <1>0, <1>6, TailFacts DEF ClientTypes, TakeReleasedPort
    <2> QED BY <1>6, <2>1, ClientStep DEF TakeReleasedPort
  <1>7. CASE TakeTuple
    <2>1. ClientTypes'
      BY <1>0, <1>7, TailFacts DEF ClientTypes, TakeTuple
    <2> QED BY <1>7, <2>1, ClientStep DEF TakeTuple
  <1>8. ASSUME NEW c \in Sources, TakeReply(c)
        PROVE  IInv'
    <2>1. ClientTypes'
      BY <1>0, <1>8, TailFacts DEF ClientTypes, TakeReply
    <2> QED BY <1>8, <2>1, ClientStep DEF TakeReply
  <1> QED BY <1>1, <1>5, <1>6, <1>7, <1>8 DEF Taking
-----------------------------------------------------------------------------
(* A hit is for a session that the reverse table, if it knows the ID, has  *)
(* under the tuple looked up.                                              *)
LEMMA CamLooksUpStep ==
    ASSUME IInv, CamLooksUp
    PROVE  IInv'
  <1>0. TypeOK /\ OneLookup /\ Sum /\ IdsInv /\ NoneTwice /\ CamInv
    BY DEF IInv, IdsInv
  <1>1. /\ fsm = "LUP_RSP" /\ query \in Queries /\ Len(camLookup) = 1 /\ camHit = <<>>
        /\ camLookup # <<>> /\ camLookup \in Seq(Tuples)
    BY <1>0 DEF CamLooksUp, OneLookup, TypeOK, HandlerTypes
  <1>2. PICK t \in Tuples : t = Head(camLookup) /\ t = query.tuple
    <2>1. Head(camLookup) = camLookup[1] /\ 1 \in DOMAIN camLookup /\ Head(camLookup) \in Tuples
      BY <1>1, TailFacts
    <2> QED BY <1>0, <2>1 DEF OneLookup
  <1>3. PICK h : h = [sessionID |-> cam[t], hit |-> cam[t] # None]
    OBVIOUS
  <1>4. /\ camLookup' = <<>> /\ camHit' \in Seq(Hits) /\ Len(camHit') = 1
        /\ \A i \in DOMAIN camHit' : camHit'[i] = h
    <2>1. h \in Hits
      BY <1>0, <1>3 DEF TypeOK, TableTypes, Hits
    <2>2. camHit' = Append(camHit, h) /\ camLookup' = Tail(camLookup) /\ camHit \in Seq(Hits)
      BY <1>0, <1>2, <1>3 DEF CamLooksUp, TypeOK, HandlerTypes
    <2>3. camLookup' = <<>>
      BY <1>1, <2>2, TailFacts
    <2> QED BY <1>1, <2>1, <2>2, <2>3, AppendFacts
  <1>5. UNCHANGED <<ids, Fresh, freeList, finFifo, counter, insertReq, deleteReq, used, camUpdate,
                    camDone, insertRsp, revInsert, reverseTable, tupleValid, cam, fsm, query, outside>>
    BY DEF CamLooksUp, ids, Fresh, updates, reverse
  <1>6. TypeOK'
    <2>1. HandlerTypes'
      BY <1>0, <1>4, <1>5 DEF TypeOK, HandlerTypes
    <2> QED BY <1>0, <1>5, <2>1, TypesKept DEF TypeOK
  <1>7. OneLookup'
    BY <1>1, <1>4, <1>5 DEF OneLookup
  <1>8. HitInv'
    <2>1. PICK where \in [Sessions -> Places] : Placed(where)
      BY <1>0 DEF IdsInv
    <2>2. ASSUME cam[t] # None
          PROVE  /\ \A r \in ToSet(revInsert) : r.sessionID = cam[t] => r.tuple = t
                 /\ tupleValid[cam[t]] => reverseTable[cam[t]] = t
      <3>1. PICK s \in Sessions : s = cam[t]
        BY <1>0, <2>2 DEF TypeOK, TableTypes
      <3>2. tupleValid[s] <=> where[s] = "valid"
        BY <2>1 DEF Placed, IsAt
      <3>3. CASE tupleValid[s] /\ reverseTable[s] = t
        BY <1>0, <2>1, <3>1, <3>2, <3>3, UpdateIsAt
      <3>4. CASE \E r \in Inserting : r.tuple = t /\ r.sessionID = s
        <4>1. PICK x \in Inserting : x.tuple = t /\ x.sessionID = s
          BY <3>4
        <4>2. ~tupleValid[s]
          BY <1>0, <2>1, <3>2, <4>1, UpdateIsAt DEF Flight
        <4>3. ASSUME NEW r \in ToSet(revInsert), r.sessionID = s PROVE r.tuple = t
          <5>1. x \in ToSet(revInsert) /\ r.op = "INSERT" /\ x.op = "INSERT"
            BY <1>0, <2>1, <4>1, <4>3, UpdateIsAt
          <5> QED BY <1>0, <4>1, <4>3, <5>1 DEF NoneTwice, Once, ToSet
        <4> QED BY <3>1, <4>2, <4>3
      <3>5. CASE \E r \in Deleting : r.tuple = t /\ r.sessionID = s
        <4>1. where[s] \in {"finFifo", "freeList", "insertReq", "camUpdate", "deleteReq"}
          BY <1>0, <2>1, <3>5, UpdateIsAt DEF Deleting
        <4> QED BY <1>0, <2>1, <3>1, <3>2, <4>1, UpdateIsAt
      <3> QED BY <1>0, <2>2, <3>1, <3>3, <3>4, <3>5 DEF CamInv, TablesAgree
    <2>3. h.sessionID = cam[t] /\ (h.hit <=> cam[t] # None) /\ h.hit \in BOOLEAN
      BY <1>3
    <2> SUFFICES ASSUME NEW i \in DOMAIN camHit'
                 PROVE  /\ camHit'[i].hit <=> camHit'[i].sessionID # None
                        /\ ~camHit'[i].hit => cam[query.tuple] = None
                        /\ camHit'[i].hit =>
                              /\ \A r \in ToSet(revInsert) :
                                    r.sessionID = camHit'[i].sessionID => r.tuple = query.tuple
                              /\ tupleValid[camHit'[i].sessionID]
                                    => reverseTable[camHit'[i].sessionID] = query.tuple
      BY <1>5 DEF HitInv
    <2>4. camHit'[i] = h
      BY <1>4
    <2> QED BY <1>2, <2>2, <2>3, <2>4
  <1> QED BY <1>0, <1>5, <1>6, <1>7, <1>8, SumKept, IdsKept, CamKept DEF IInv

(* An insert goes where nothing was, a delete takes what it names.         *)
LEMMA CamUpdatesStep ==
    ASSUME IInv, CamUpdates
    PROVE  IInv'
  <1>0. TypeOK /\ OneLookup /\ Sum /\ IdsInv /\ NoneTwice /\ CamInv /\ HitInv
    BY DEF IInv, IdsInv
  <1>1. /\ camUpdate # <<>> /\ camUpdate' = Tail(camUpdate) /\ camUpdate \in Seq(Updates)
        /\ camDone \in Seq(Updates)
    BY <1>0 DEF CamUpdates, TypeOK, UpdateTypes
  <1>2. PICK r \in Updates, s \in Sessions, t \in Tuples :
            r = Head(camUpdate) /\ s = r.sessionID /\ t = r.tuple
    BY <1>1, HeadUpdate DEF Updates
  <1>3. r.op \in {"INSERT", "DELETE"} /\ camDone' = Append(camDone, r)
    BY <1>2 DEF CamUpdates, Updates, UpdatesOf
  <1>4. /\ camUpdate' \in Seq(Updates)
        /\ ToSet(camUpdate) = ToSet(camUpdate') \cup {r}
        /\ \A op, o : Has(camUpdate, op, o) <=> Has(camUpdate', op, o) \/ (r.op = op /\ s = o)
        /\ Once(camUpdate, "INSERT")' /\ Once(camUpdate, "DELETE")'
        /\ ~Has(camUpdate', r.op, s)
    BY <1>0, <1>1, <1>2, <1>3, ReadUpdate DEF NoneTwice
  <1>5. /\ camDone' \in Seq(Updates)
        /\ ToSet(camDone') = ToSet(camDone) \cup {r}
        /\ \A op, o : Has(camDone', op, o) <=> Has(camDone, op, o) \/ (r.op = op /\ s = o)
        /\ ~(r.op = "INSERT" /\ Has(camDone, "INSERT", s)) => Once(camDone, "INSERT")'
    BY <1>0, <1>1, <1>2, <1>3, WriteUpdate DEF NoneTwice
  <1>6. UNCHANGED <<ids, Fresh, freeList, finFifo, counter, insertReq, deleteReq, used, insertRsp,
                    revInsert, reverseTable, tupleValid, fsm, query, camLookup, camHit>>
    BY DEF CamUpdates, ids, Fresh, handler, reverse
  <1>7. UNCHANGED <<handler, outside>>
    BY DEF CamUpdates
  <1>8. cam' \in [Tuples -> Sessions \cup {None}]
        /\ \A x \in Tuples : cam'[x] = IF x = t THEN (IF r.op = "INSERT" THEN s ELSE None) ELSE cam[x]
    <2>1. cam' = [cam EXCEPT ![t] = IF r.op = "INSERT" THEN s ELSE None]
      BY <1>2 DEF CamUpdates
    <2> QED BY <1>0, <2>1 DEF TypeOK, TableTypes
  <1>9. TypeOK'
    <2>1. UpdateTypes' /\ TableTypes'
      BY <1>0, <1>4, <1>5, <1>6, <1>8 DEF TypeOK, UpdateTypes, TableTypes
    <2> QED BY <1>0, <1>6, <1>7, <2>1, TypesKept DEF TypeOK
  <1>10. PICK where \in [Sessions -> Places] : Placed(where) /\ Alone(where) /\ Counted(where)
    BY <1>0 DEF IdsInv
  <1>11. DeletesFirst' /\ (r.op = "INSERT" => ~Has(camUpdate, "DELETE", s))
    <2>1. /\ Len(camUpdate) \in Nat \ {0} /\ DOMAIN camUpdate = 1 .. Len(camUpdate)
          /\ DOMAIN camUpdate' = 1 .. Len(camUpdate) - 1 /\ r = camUpdate[1]
          /\ \A i \in 1 .. Len(camUpdate) - 1 : camUpdate'[i] = camUpdate[i + 1]
      BY <1>1, <1>2, TailFacts
    <2>2. \A i \in DOMAIN camUpdate' : i + 1 \in DOMAIN camUpdate /\ i \in Nat
      BY <2>1
    <2>3. \A i, j \in DOMAIN camUpdate' : j + 1 < i + 1 => j < i
      BY <2>2
    <2>4. DeletesFirst'
      BY <1>0, <2>1, <2>2, <2>3 DEF IdsInv, DeletesFirst
    <2>5. 1 \in DOMAIN camUpdate /\ \A j \in DOMAIN camUpdate : ~(j < 1)
      BY <2>1
    <2> QED BY <1>0, <1>2, <2>1, <2>4, <2>5 DEF IdsInv, DeletesFirst, Has
  <1>12. OfTheLookup'
    BY <1>0, <1>4, <1>5, <1>6 DEF IdsInv, OfTheLookup
  <1>13. r \in ToSet(camUpdate)
    BY <1>4
  <1>14. CASE r.op = "INSERT"
    <2>1. IsAt("camUpdate", s) /\ where[s] = "camUpdate" /\ where[s] \in Flight
      BY <1>4, <1>10, <1>14 DEF Placed, IsAt, Flight
    <2>2. cam[t] = None /\ fsm = "UPD_RSP" /\ camHit = <<>>
      BY <1>0, <1>2, <1>10, <1>13, <1>14, <2>1 DEF CamInv, Alone, OneLookup
    <2>3. \A x \in ToSet(insertReq) \cup ToSet(camUpdate') : x.op # "INSERT"
      <3>1. \A x \in ToSet(insertReq) : FALSE
        BY <1>0, <1>10, <2>1, FlightIs
      <3>2. \A x \in ToSet(camUpdate') : Has(camUpdate', x.op, x.sessionID)
        BY <1>4, InFifo DEF Updates
      <3>3. \A x \in ToSet(camUpdate') : x.op = "INSERT" => x.sessionID = s
        BY <1>0, <1>4, <1>10, <2>1, FlightIs
      <3> QED BY <1>4, <1>14, <3>1, <3>2, <3>3
    <2>4. IdsInv'
      <3>1. PICK w : w = [where EXCEPT ![s] = "camDone"]
        OBVIOUS
      <3>2. /\ "camDone" \in Places
            /\ where[s] \in Flight <=> "camDone" \in Flight
            /\ where[s] \in InUse <=> "camDone" \in InUse
        BY <2>1 DEF InUse, Flight, Places
      <3>3. /\ w \in [Sessions -> Places] /\ w[s] = "camDone" /\ Counted(w)
            /\ \A o \in Sessions : o # s => w[o] = where[o]
            /\ \A o \in Sessions : w[o] \in Flight <=> where[o] \in Flight
        BY <1>10, <3>1, <3>2, Move, Zenon
      <3>4. Placed(w)'
        <4>1. IsAt("camDone", s)'
          BY <1>4, <1>5, <1>6, <1>11, <1>14, <2>1 DEF IsAt
        <4>2. \A o \in Sessions : o # s => IsAt(where[o], o)'
          BY <1>4, <1>5, <1>6, <1>10, <1>14 DEF Placed, IsAt
        <4> QED BY <3>3, <4>1, <4>2 DEF Placed
      <3>5. NoneTwice'
        BY <1>0, <1>4, <1>5, <1>6, <2>1 DEF NoneTwice, IsAt
      <3>6. Alone(w)' /\ Counted(w)'
        BY <1>6, <1>10, <3>3 DEF Alone, Counted
      <3> QED BY <1>11, <1>12, <3>3, <3>4, <3>5, <3>6 DEF IdsInv
    <2>5. CamInv'
      <3>1. Inserting' = Inserting /\ Deleting' = Deleting /\ r \in Inserting
        BY <1>4, <1>5, <1>6, <1>14 DEF Inserting, Deleting
      <3>2. \A x \in Inserting \cup Deleting : x.sessionID \in Sessions /\ x.tuple \in Tuples
        BY <1>0, <1>10, UpdateIsAt
      <3>3. \A o \in Sessions : tupleValid[o] => reverseTable[o] \in Tuples
        BY <1>0 DEF TypeOK, TableTypes
      <3>4. TablesAgree'
        <4>1. \A o \in Sessions : tupleValid[o] => cam'[reverseTable[o]] = o
          BY <1>0, <1>8, <2>2, <3>3, NoneAssumption DEF CamInv, TablesAgree
        <4>2. \A x \in Tuples : cam'[x] # None =>
                  \/ tupleValid[cam'[x]] /\ reverseTable[cam'[x]] = x
                  \/ \E y \in Inserting \cup Deleting : y.tuple = x /\ y.sessionID = cam'[x]
          BY <1>0, <1>2, <1>8, <1>14, <3>1 DEF CamInv, TablesAgree
        <4> QED BY <1>6, <3>1, <4>1, <4>2 DEF TablesAgree
      <3>5. \A x \in Deleting : cam'[x.tuple] = x.sessionID
        BY <1>0, <1>8, <2>2, <3>2, NoneAssumption DEF CamInv
      <3>6. \A x \in ToSet(camDone') \cup ToSet(insertRsp) \cup ToSet(revInsert) :
                x.op = "INSERT" => cam'[x.tuple] = x.sessionID
        <4>1. \A x \in ToSet(camDone) \cup ToSet(insertRsp) \cup ToSet(revInsert) :
                 x.op = "INSERT" => x \in Inserting
          BY DEF Inserting
        <4> QED BY <1>0, <1>2, <1>5, <1>8, <1>14, <2>2, <3>2, <4>1, NoneAssumption DEF CamInv
      <3> QED BY <1>6, <2>3, <3>1, <3>4, <3>5, <3>6 DEF CamInv
    <2>6. HitInv'
      BY <1>6, <2>2 DEF HitInv
    <2> QED BY <1>0, <1>6, <1>9, <2>4, <2>5, <2>6, LookupKept, SumKept DEF IInv
  <1>15. CASE r.op = "DELETE"
    <2>1. where[s] \in {"finFifo", "freeList", "insertReq", "camUpdate"}
      BY <1>4, <1>10, <1>15 DEF Placed, IsAt
    <2>2. r \in Deleting /\ cam[t] = s
      BY <1>0, <1>2, <1>13, <1>15 DEF CamInv, Deleting
    <2>3. IdsInv'
      <3>1. Placed(where)' /\ Alone(where)' /\ Counted(where)'
        BY <1>4, <1>5, <1>6, <1>10, <1>15 DEF Placed, IsAt, Alone, Counted
      <3>2. NoneTwice'
        BY <1>0, <1>4, <1>5, <1>6, <1>15 DEF NoneTwice
      <3> QED BY <1>11, <1>12, <3>1, <3>2 DEF IdsInv
    <2>4. CamInv'
      <3>1. Inserting' = Inserting /\ Deleting = Deleting' \cup {r}
        BY <1>4, <1>5, <1>6, <1>15 DEF Inserting, Deleting
      <3>2. \A x \in Inserting \cup Deleting : x.sessionID \in Sessions /\ x.tuple \in Tuples
        BY <1>0, <1>10, UpdateIsAt
      <3>3. \A o \in Sessions : tupleValid[o] => reverseTable[o] \in Tuples /\ reverseTable[o] # t
        <4>1. ~tupleValid[s]
          BY <1>10, <2>1 DEF Placed, IsAt
        <4> QED BY <1>0, <2>2, <4>1 DEF TypeOK, TableTypes, CamInv, TablesAgree
      <3>4. TablesAgree'
        <4>1. \A o \in Sessions : tupleValid[o] => cam'[reverseTable[o]] = o
          BY <1>0, <1>8, <3>3 DEF CamInv, TablesAgree
        <4>2. ASSUME NEW x \in Tuples, cam'[x] # None
              PROVE  \/ tupleValid[cam'[x]] /\ reverseTable[cam'[x]] = x
                     \/ \E y \in Inserting \cup Deleting' : y.tuple = x /\ y.sessionID = cam'[x]
          <5>1. x # t /\ cam'[x] = cam[x]
            BY <1>8, <1>15, <4>2
          <5> QED BY <1>0, <1>2, <3>1, <4>2, <5>1 DEF CamInv, TablesAgree
        <4> QED BY <1>6, <3>1, <4>1, <4>2 DEF TablesAgree
      <3>5. \A x \in Deleting' : cam'[x.tuple] = x.sessionID
        <4>1. ASSUME NEW x \in Deleting', x.tuple = t PROVE FALSE
          <5>1. x.sessionID = s /\ x \in Deleting
            BY <1>0, <2>2, <3>1, <4>1 DEF CamInv
          <5>2. x \notin ToSet(deleteReq)
            BY <1>0, <1>10, <2>1, <5>1, UpdateIsAt
          <5>3. x \in ToSet(camUpdate') /\ x.op = "DELETE"
            BY <1>6, <4>1, <5>2 DEF Deleting
          <5>4. Has(camUpdate', "DELETE", s)
            BY <1>4, <5>1, <5>3, InFifo DEF Updates
          <5> QED BY <1>4, <1>15, <5>4
        <4> QED BY <1>0, <1>8, <3>1, <3>2, <4>1 DEF CamInv
      <3>6. \A x \in ToSet(insertReq) \cup ToSet(camUpdate') : x.op = "INSERT" => cam'[x.tuple] = None
        <4>1. \A x \in ToSet(insertReq) \cup ToSet(camUpdate') : x.op = "INSERT" => x \in Inserting
          BY <1>4 DEF Inserting
        <4> QED BY <1>0, <1>4, <1>8, <1>15, <3>2, <4>1 DEF CamInv
      <3>7. \A x \in ToSet(camDone') \cup ToSet(insertRsp) \cup ToSet(revInsert) :
                x.op = "INSERT" => cam'[x.tuple] = x.sessionID
        <4>1. ASSUME NEW x \in ToSet(camDone') \cup ToSet(insertRsp) \cup ToSet(revInsert),
                     x.op = "INSERT"
              PROVE  cam'[x.tuple] = x.sessionID
          <5>1. x \in ToSet(camDone) \cup ToSet(insertRsp) \cup ToSet(revInsert) /\ x \in Inserting
            BY <1>5, <1>15, <4>1 DEF Inserting
          <5>2. cam[x.tuple] = x.sessionID
            BY <1>0, <4>1, <5>1 DEF CamInv
          <5>3. where[x.sessionID] \in {"camDone", "insertRsp", "revInsert"}
            BY <1>0, <1>10, <4>1, <5>1, UpdateIsAt
          <5>4. x.sessionID # s
            BY <2>1, <5>3
          <5> QED BY <1>8, <2>2, <3>2, <5>1, <5>2, <5>4
        <4> QED BY <4>1
      <3> QED BY <1>6, <3>4, <3>5, <3>6, <3>7 DEF CamInv
    <2>5. HitInv'
      <3>1. camHit # <<>> => query.tuple \in Tuples
        BY <1>0 DEF OneLookup, Queries
      <3>2. cam[query.tuple] = None /\ query.tuple \in Tuples => cam'[query.tuple] = None
        BY <1>8, <1>15
      <3>3. camHit = <<>> => DOMAIN camHit = {}
        OBVIOUS
      <3> QED BY <1>0, <1>6, <3>1, <3>2, <3>3 DEF HitInv
    <2> QED BY <1>0, <1>6, <1>9, <2>3, <2>4, <2>5, LookupKept, SumKept DEF IInv
  <1> QED BY <1>3, <1>14, <1>15
-----------------------------------------------------------------------------
LEMMA InitHolds == Init => IInv
  <1> SUFFICES ASSUME Init PROVE IInv
    OBVIOUS
  <1>1. TypeOK
    <2>1. IdTypes
      BY MaxSessionsAssumption DEF Init, IdTypes
    <2>2. HandlerTypes
      BY DEF Init, HandlerTypes
    <2>3. UpdateTypes
      BY DEF Init, UpdateTypes
    <2>4. TableTypes
      BY NoneAssumption DEF Init, TableTypes
    <2>5. ClientTypes
      BY DEF Init, ClientTypes
    <2> QED BY <2>1, <2>2, <2>3, <2>4, <2>5 DEF TypeOK
  <1>2. OneLookup
    BY DEF Init, OneLookup
  <1>3. Sum
    BY DEF Init, Sum
  <1>4. /\ ToSet(<<>>) = {}
        /\ \A op, s : ~Has(<<>>, op, s)
        /\ \A op : Once(<<>>, op)
        /\ Distinct(<<>>)
    BY DEF ToSet, Has, Once, Distinct
  <1>5. CamInv /\ HitInv
    <2>1. TablesAgree
      BY DEF Init, TablesAgree
    <2>2. Deleting = {}
      BY <1>4 DEF Init, Deleting
    <2> QED BY <1>4, <2>1, <2>2 DEF Init, CamInv, HitInv
  <1>6. IdsInv
    <2> DEFINE where == [s \in Sessions |-> "new"]
    <2>1. Fresh = Sessions
      BY MaxSessionsAssumption DEF Init, Fresh, Sessions
    <2>2. where \in [Sessions -> Places] /\ \A s \in Sessions : where[s] = "new"
      BY DEF Places
    <2> HIDE DEF where
    <2>3. Placed(where)
      BY <1>4, <2>1, <2>2 DEF Init, Placed, IsAt
    <2>4. Alone(where)
      BY <2>2 DEF Alone, Flight
    <2>5. Counted(where)
      <3>1. {s \in Sessions : where[s] \in InUse} = {}
        BY <2>2 DEF InUse
      <3>2. Cardinality({}) = 0
        BY FS_EmptySet
      <3> QED BY <3>1, <3>2 DEF Counted, Init
    <2>6. NoneTwice /\ DeletesFirst /\ OfTheLookup
      BY <1>4 DEF Init, NoneTwice, DeletesFirst, OfTheLookup
    <2> QED BY <2>2, <2>3, <2>4, <2>5, <2>6 DEF IdsInv
  <1> QED BY <1>1, <1>2, <1>3, <1>5, <1>6 DEF IInv

LEMMA NextKeeps == IInv /\ [Next]_vars => IInv'
  <1>1. ASSUME IInv, SessionIdManager PROVE IInv'
    BY <1>1, RecycleStep, NewStep DEF SessionIdManager
  <1>2. ASSUME IInv, LookupReplyHandler PROVE IInv'
    BY <1>2, RequestStep, CreateStep, ForwardStep, CreatedStep DEF LookupReplyHandler
  <1>3. ASSUME IInv, UpdateRequestSender PROVE IInv'
    BY <1>3, SendInsertStep, SendDeleteStep DEF UpdateRequestSender
  <1>4. ASSUME IInv, ReverseTableInterface PROVE IInv'
    BY <1>4, ReverseInsertStep, ReleaseStepInv, ClientsStep DEF ReverseTableInterface
  <1>5. ASSUME IInv, UNCHANGED vars PROVE IInv'
    <2>1. UNCHANGED <<ids, handler, updates, reverse>> /\ UNCHANGED outside
      BY <1>5 DEF vars
    <2>2. ClientTypes'
      BY <1>5, <2>1, TypesKept DEF IInv, TypeOK
    <2> QED BY <1>5, <2>1, <2>2, ClientStep
  <1> QED BY <1>1, <1>2, <1>3, <1>4, <1>5, UpdateReplyStep, CamLooksUpStep, CamUpdatesStep,
             ClientsStep DEF Next

(* The inductive invariant: one lookup at a time, every ID in one place    *)
(* and counted there, the deletes of an ID before its next insert, and     *)
(* what the updates on their way and the hits say about the two tables.    *)
THEOREM Invariance == Spec => []IInv
  <1> QED BY InitHolds, NextKeeps, PTL DEF Spec

(* The FIFOs and tables of the controller hold what belongs there: IDs in  *)
(* range, updates of the right kind, and a tuple for every ID in use       *)
(* (session_lookup_controller.cpp:37-496).                                 *)
THEOREM TypeCorrect == Spec => []TypeOK
  <1>1. IInv => TypeOK
    BY DEF IInv
  <1> QED BY <1>1, Invariance, PTL
-----------------------------------------------------------------------------
(* A FIFO that holds an ID once holds one of it or none.                   *)
LEMMA CountOfOnce ==
    ASSUME NEW S, NEW f \in Seq(S), NEW s, Distinct(f)
    PROVE  CountOf(s, f) = OneIf(s \in ToSet(f))
  <1> DEFINE at == {i \in DOMAIN f : f[i] = s}
  <1>1. CASE s \in ToSet(f)
    <2>1. PICK i \in DOMAIN f : f[i] = s
      BY <1>1 DEF ToSet
    <2>2. at = {i}
      BY <2>1 DEF Distinct
    <2> HIDE DEF at
    <2>3. Cardinality(at) = 1
      BY <2>2, FS_Singleton
    <2> QED BY <1>1, <2>3 DEF CountOf, OneIf, at
  <1>2. CASE s \notin ToSet(f)
    <2>1. at = {}
      BY <1>2 DEF ToSet
    <2> HIDE DEF at
    <2>2. Cardinality(at) = 0
      BY <2>1, FS_EmptySet
    <2> QED BY <1>2, <2>2 DEF CountOf, OneIf, at
  <1> QED BY <1>1, <1>2

LEMMA RequestsOfOnce ==
    ASSUME NEW S, NEW f \in Seq(S), NEW s, NEW op, Once(f, op)
    PROVE  RequestsOf(s, op, f) = OneIf(Has(f, op, s))
  <1> DEFINE at == {i \in DOMAIN f : f[i].op = op /\ f[i].sessionID = s}
  <1>1. CASE Has(f, op, s)
    <2>1. PICK i \in DOMAIN f : f[i].op = op /\ f[i].sessionID = s
      BY <1>1 DEF Has
    <2>2. at = {i}
      BY <2>1 DEF Once
    <2> HIDE DEF at
    <2>3. Cardinality(at) = 1
      BY <2>2, FS_Singleton
    <2> QED BY <1>1, <2>3 DEF RequestsOf, OneIf, at
  <1>2. CASE ~Has(f, op, s)
    <2>1. at = {}
      BY <1>2 DEF Has
    <2> HIDE DEF at
    <2>2. Cardinality(at) = 0
      BY <2>1, FS_EmptySet
    <2> QED BY <1>2, <2>2 DEF RequestsOf, OneIf, at
  <1> QED BY <1>1, <1>2

(* Each of a session ID's possible places holds it once or not at all, and *)
(* exactly one does: no ID is lost and none is given to two connections,   *)
(* however often it is released (session_lookup_controller.cpp:37-74,      *)
(* 367-496).                                                               *)
THEOREM IdsAreConserved == Spec => []IdsConserved
  <1>1. ASSUME IInv, NEW s \in Sessions
        PROVE  1 = OneIf(s >= counter) + CountOf(s, freeList) + CountOf(s, finFifo)
                 + RequestsOf(s, "INSERT", insertReq) + RequestsOf(s, "INSERT", camUpdate)
                 + RequestsOf(s, "INSERT", camDone) + RequestsOf(s, "INSERT", insertRsp)
                 + RequestsOf(s, "INSERT", revInsert) + OneIf(tupleValid[s])
                 + RequestsOf(s, "DELETE", deleteReq)
    <2>1. PICK where \in [Sessions -> Places] : Placed(where)
      BY <1>1 DEF IInv, IdsInv
    <2>2. PICK place \in Places : place = where[s]
      OBVIOUS
    <2>3. IsAt(place, s)
      BY <2>1, <2>2 DEF Placed
    <2>4. NoneTwice /\ IdTypes /\ UpdateTypes
      BY <1>1 DEF IInv, IdsInv, TypeOK
    <2>5. /\ CountOf(s, freeList) = OneIf(s \in ToSet(freeList))
          /\ CountOf(s, finFifo) = OneIf(s \in ToSet(finFifo))
      BY <2>4, CountOfOnce DEF NoneTwice, IdTypes
    <2>6. /\ RequestsOf(s, "INSERT", insertReq) = OneIf(Has(insertReq, "INSERT", s))
          /\ RequestsOf(s, "INSERT", camUpdate) = OneIf(Has(camUpdate, "INSERT", s))
          /\ RequestsOf(s, "INSERT", camDone) = OneIf(Has(camDone, "INSERT", s))
          /\ RequestsOf(s, "INSERT", insertRsp) = OneIf(Has(insertRsp, "INSERT", s))
          /\ RequestsOf(s, "INSERT", revInsert) = OneIf(Has(revInsert, "INSERT", s))
          /\ RequestsOf(s, "DELETE", deleteReq) = OneIf(Has(deleteReq, "DELETE", s))
      BY <2>4, RequestsOfOnce DEF NoneTwice, UpdateTypes
    <2>7. /\ OneIf(s >= counter) = OneIf(place = "new")
          /\ CountOf(s, freeList) = OneIf(place = "freeList")
          /\ CountOf(s, finFifo) = OneIf(place = "finFifo")
          /\ RequestsOf(s, "INSERT", insertReq) = OneIf(place = "insertReq")
          /\ RequestsOf(s, "INSERT", camUpdate) = OneIf(place = "camUpdate")
          /\ RequestsOf(s, "INSERT", camDone) = OneIf(place = "camDone")
          /\ RequestsOf(s, "INSERT", insertRsp) = OneIf(place = "insertRsp")
          /\ RequestsOf(s, "INSERT", revInsert) = OneIf(place = "revInsert")
          /\ OneIf(tupleValid[s]) = OneIf(place = "valid")
          /\ RequestsOf(s, "DELETE", deleteReq) = OneIf(place = "deleteReq")
      <3>1. s >= counter <=> s \in Fresh
        BY DEF Fresh
      <3> QED BY <2>3, <2>5, <2>6, <3>1 DEF IsAt, OneIf
    <2>8. 1 = OneIf(place = "new") + OneIf(place = "freeList") + OneIf(place = "finFifo")
            + OneIf(place = "insertReq") + OneIf(place = "camUpdate") + OneIf(place = "camDone")
            + OneIf(place = "insertRsp") + OneIf(place = "revInsert") + OneIf(place = "valid")
            + OneIf(place = "deleteReq")
      BY DEF OneIf, Places, Flight, InUse
    <2> QED BY <2>7, <2>8
  <1>2. IInv => IdsConserved
    BY <1>1 DEF IdsConserved
  <1> QED BY <1>2, Invariance, PTL

(* regSessionCount counts the IDs in use and never wraps below zero, even  *)
(* while deletes overtake inserts (session_lookup_controller.cpp:201-261). *)
THEOREM CountIsRight == Spec => []CountIsExact
  <1>1. ASSUME IInv PROVE CountIsExact
    <2>1. PICK where \in [Sessions -> Places] : Counted(where)
      BY <1>1 DEF IInv, IdsInv
    <2>2. used \in Nat
      <3> DEFINE inUse == {s \in Sessions : where[s] \in InUse}
      <3>1. IsFiniteSet(Sessions)
        BY MaxSessionsAssumption, FS_Interval DEF Sessions
      <3>2. IsFiniteSet(inUse)
        BY <3>1, FS_Subset
      <3>3. Cardinality(inUse) \in Nat
        BY <3>2, FS_CardinalityType
      <3> QED BY <2>1, <3>3 DEF Counted
    <2> QED BY <1>1, <2>2 DEF IInv, Sum, CountIsExact
  <1> QED BY <1>1, Invariance, PTL

(* slc_sessionIdFreeList, which is as long as there are IDs, never lacks   *)
(* room for an ID: sessionIdManager never waits for it                     *)
(* (session_lookup_controller.cpp:352).                                    *)
THEOREM FreeListHasRoom == Spec => [](Len(freeList) <= MaxSessions)
  <1>1. ASSUME IInv, CountIsExact PROVE Len(freeList) <= MaxSessions
    <2>1. /\ counter \in 0 .. MaxSessions /\ used \in Int
          /\ Len(insertReq) \in Nat /\ Len(freeList) \in Nat /\ Len(finFifo) \in Nat
      BY <1>1, LenProperties DEF IInv, TypeOK, IdTypes, UpdateTypes
    <2> QED BY <1>1, <2>1, MaxSessionsAssumption DEF CountIsExact
  <1> QED BY <1>1, Invariance, CountIsRight, PTL

(* The CAM and the reverse table, which are written at different times,    *)
(* agree but for what is on its way (session_lookup_controller.cpp:201-261 *)
(* and 367-496).                                                           *)
THEOREM TablesDoAgree == Spec => []TablesAgree
  <1>1. IInv => TablesAgree
    BY DEF IInv, CamInv
  <1> QED BY <1>1, Invariance, PTL

(* When lookupReplyHandler forwards a hit, its ID has not been given to    *)
(* another connection, though it may have been released                    *)
(* (session_lookup_controller.cpp:97-190).                                 *)
THEOREM HitsAreNotReused == Spec => []HitIsNotReused
  <1>1. ASSUME IInv PROVE HitIsNotReused
    <2>0. TypeOK /\ OneLookup /\ IdsInv /\ HitInv
      BY <1>1 DEF IInv
    <2>1. SUFFICES ASSUME NEW i \in DOMAIN camHit, camHit[i].hit
                   PROVE  Inserting \subseteq ToSet(revInsert)
      BY <2>0 DEF HitIsNotReused, HitInv
    <2>2. PICK where \in [Sessions -> Places] : Placed(where) /\ Alone(where)
      BY <2>0 DEF IdsInv
    <2>3. fsm = "LUP_RSP"
      BY <2>0, <2>1 DEF OneLookup
    <2>4. \A s \in Sessions : where[s] \notin Flight
      BY <2>2, <2>3 DEF Alone
    <2> QED BY <2>0, <2>2, <2>4, UpdateIsAt
  <1> QED BY <1>1, Invariance, PTL
-----------------------------------------------------------------------------
Owner == [s \in Sessions |-> IF tupleValid[s] THEN reverseTable[s] ELSE None]

(* A step of the reverse table creates or releases in the directory.       *)
LEMMA StepOfDirectory == IInv /\ [Next]_vars => [ReverseView!Next]_Owner
  <1> SUFFICES ASSUME IInv, [Next]_vars PROVE [ReverseView!Next]_Owner
    OBVIOUS
  <1>0. TypeOK /\ IdsInv /\ CamInv
    BY DEF IInv
  <1>1. CASE ReverseInsert
    <2>1. /\ revInsert # <<>> /\ revInsert \in Seq(UpdatesOf({"INSERT"}))
      BY <1>0, <1>1 DEF ReverseInsert, TypeOK, UpdateTypes
    <2>2. PICK r \in UpdatesOf({"INSERT"}), s \in Sessions, t \in Tuples :
              r = Head(revInsert) /\ s = r.sessionID /\ t = r.tuple /\ r \in ToSet(revInsert)
      BY <2>1, HeadUpdate, ReadUpdate
    <2>3. /\ reverseTable' = [reverseTable EXCEPT ![s] = t]
          /\ tupleValid' = [tupleValid EXCEPT ![s] = TRUE]
      BY <1>1, <2>2 DEF ReverseInsert
    <2>4. PICK where \in [Sessions -> Places] : Placed(where)
      BY <1>0 DEF IdsInv
    <2>5. r.op = "INSERT" /\ ~tupleValid[s]
      BY <1>0, <2>2, <2>4, UpdateIsAt DEF Placed, IsAt
    <2>6. cam[t] = s
      BY <1>0, <2>2, <2>5 DEF CamInv
    <2>7. ASSUME NEW o \in Sessions PROVE Owner[o] # t
      <3>1. tupleValid[o] => cam[reverseTable[o]] = o
        BY <1>0 DEF CamInv, TablesAgree
      <3> QED BY <2>5, <2>6, <3>1, NoneAssumption DEF Owner
    <2>8. Owner[s] = None /\ Owner' = [Owner EXCEPT ![s] = t]
      BY <1>0, <2>3, <2>5 DEF Owner, TypeOK, TableTypes
    <2> QED BY <2>7, <2>8 DEF ReverseView!Next, ReverseView!Create, Owner
  <1>2. CASE ReleaseSession
    <2>1. releaseReq # <<>> /\ releaseReq \in Seq(Sessions)
      BY <1>0, <1>2 DEF ReleaseSession, ReleaseStep, TypeOK, ClientTypes
    <2>2. PICK s \in Sessions : s = Head(releaseReq)
      BY <2>1, TailFacts
    <2>3. tupleValid' = [tupleValid EXCEPT ![s] = FALSE] /\ UNCHANGED reverseTable
      BY <1>2, <2>2 DEF ReleaseSession, ReleaseStep
    <2>4. CASE tupleValid[s]
      <3>1. Owner[s] # None
        BY <1>0, <2>4, NoneAssumption DEF Owner, TypeOK, TableTypes
      <3>2. Owner' = [Owner EXCEPT ![s] = None]
        BY <1>0, <2>3 DEF Owner, TypeOK, TableTypes
      <3> QED BY <3>1, <3>2 DEF ReverseView!Next, ReverseView!Release, Owner
    <2>5. CASE ~tupleValid[s]
      <3>1. UNCHANGED tupleValid
        BY <1>0, <2>3, <2>5 DEF TypeOK, TableTypes
      <3> QED BY <2>3, <3>1 DEF Owner
    <2> QED BY <2>4, <2>5
  <1>3. CASE UNCHANGED <<tupleValid, reverseTable>>
    BY <1>3 DEF Owner
  <1>4. SessionIdManager \/ LookupReplyHandler \/ UpdateRequestSender \/ UpdateReplyHandler
            \/ ReverseQuery \/ CamLooksUp \/ CamUpdates \/ Arrival \/ Taking \/ UNCHANGED vars
            => UNCHANGED <<tupleValid, reverseTable>>
    <2>1. UNCHANGED vars => UNCHANGED reverse
      BY DEF vars
    <2>2. LookupReplyHandler => UNCHANGED <<tupleValid, reverseTable>>
      BY DEF LookupReplyHandler, LookupRequest, CreateSession, ForwardReply, SessionCreated, reverse
    <2>3. Arrival \/ Taking \/ ReverseQuery => UNCHANGED reverse
      BY DEF Arrival, Lookup, Release, AskTuple, Taking, TakeReleasedPort, TakeTuple, TakeReply,
             ReverseQuery
    <2>4. SessionIdManager \/ UpdateRequestSender \/ UpdateReplyHandler \/ CamLooksUp \/ CamUpdates
             => UNCHANGED reverse
      BY DEF SessionIdManager, RecycleID, NewID, UpdateRequestSender, SendInsert, SendDelete,
             DeleteStep, UpdateReplyHandler, CamLooksUp, CamUpdates
    <2> QED BY <2>1, <2>2, <2>3, <2>4 DEF reverse
  <1> QED BY <1>1, <1>2, <1>3, <1>4 DEF Next, ReverseTableInterface

(* reverseLookupTableInterface, through which sessions are released and    *)
(* segments addressed, implements a directory in which an ID belongs to at *)
(* most one connection and a connection has at most one ID                 *)
(* (session_lookup_controller.cpp:367-496).                                *)
THEOREM IsADirectory == Spec => ReverseDirectory
  <1>1. Init => Owner = [s \in Sessions |-> None]
    BY DEF Init, Owner
  <1>2. Init => ReverseView!Init
    BY <1>1 DEF ReverseView!Init, Owner
  <1>3. IInv /\ [Next]_vars => [ReverseView!Next]_Owner
    BY StepOfDirectory
  <1> QED BY <1>2, <1>3, Invariance, PTL DEF Spec, ReverseDirectory, ReverseView!Spec, Owner
=============================================================================
