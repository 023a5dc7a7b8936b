--------------------------------- MODULE Frames ---------------------------------
(***************************************************************************)
(* A segment on its way from the decision to send it to the wire and back: *)
(* the TX engine makes its headers and stitches them to the payload, the   *)
(* Ethernet header inserter asks for the MAC address and puts its header   *)
(* in front, the packet handler takes it off again, the RX engine          *)
(* takes off the IP header and separates header fields and payload.        *)
(*                                                                         *)
(* The processes know packets only as words of a stream with a flag on the *)
(* last one; all but one of them move the bytes of a packet to other lanes *)
(* of its words, and what belongs together - tuple, length, header, word,  *)
(* checksum, ARP answer - comes in the same order through FIFOs of its own.*)
(* A lane is two bytes; a lane whose keep bits are 0 is None.              *)
(***************************************************************************)
EXTENDS Integers, Sequences, SequencesExt, FiniteSetsExt

CONSTANTS W,            \* lanes of a word: 32
          MinFrame,     \* lanes a frame is padded to: 30
          Lengths,      \* of payloads, in lanes
          Kinds,        \* subset of {"DATA", "SYN", "RST"}
          HeaderLens,   \* ip_headerlen of arriving packets: 5 .. 15
          Others,       \* frames of others that arrive: subset of {"ARP", "OTHER"}
          PeerOptions,  \* lists of TCP options, each of eight bytes, of arriving SYNs
          WINDOW_SCALE_BITS, \* 2
          MaxPackets,   \* bound: segments
          Depth,        \* of the FIFOs: 4 to 512
          PacketDepth,  \* txEng_tcp_level_packet: 512
          None

ASSUME FramesAssumption ==
    /\ W = 32 /\ MinFrame \in 27 .. W
    /\ Lengths \subseteq Nat /\ Kinds \subseteq {"DATA", "SYN", "RST"}
    /\ HeaderLens \subseteq 5 .. 15 /\ Others \subseteq {"ARP", "OTHER"}
    /\ PeerOptions \subseteq [1 .. 8 -> 0 .. 255] /\ WINDOW_SCALE_BITS \in 1 .. 14
    /\ {MaxPackets, Depth, PacketDepth} \subseteq Nat \ {0}

VARIABLES
    fifo,      \* the FIFOs, by name
    proc,      \* the static state of the processes: where they are, prevWord
    sent,      \* history: what the meta loader decided to send
    dropped,   \* history: packets whose MAC address is not known
    received   \* history: what the RX engine gets out of the frames, metas and payloads
vars == <<fifo, proc, sent, dropped, received>>

FifoNames == {"ipMeta", "tcpMeta", "isLookUp", "lookedUp", "shortCut", "payload",
              "ipTuple", "tcpTuple", "ipHeader", "pseudoHeader", "pseudoPacket", "segment",
              "checksum", "ipTxData", "arpReply", "ipFirst", "ipSummed", "ipRest", "frame",
              "wire", "ethLevel", "ipRxData", "pseudo", "rxMeta"}
Shifters == {"payloadStitcher", "remover", "ipStitcher", "inserter", "ethernetRemover",
             "pseudoInsert", "getMeta"}

Lanes == 1 .. W
Empty == [l \in Lanes |-> None]
Idle  == [at |-> "FIRST", prev |-> Empty, k |-> 0]
ReadInfo == [at |-> "READ_INFO", meta |-> None, offset |-> 0]

Init ==
    /\ fifo = [f \in FifoNames |-> <<>>]
    /\ proc = [shift |-> [p \in Shifters |-> Idle], broadcaster |-> "FIRST_WORD",
               identification |-> "FIRST_WORD", parser |-> ReadInfo]
    /\ sent = <<>> /\ dropped = {} /\ received = [metas |-> <<>>, payloads |-> <<>>]
-----------------------------------------------------------------------------
(* FIFOs and words.                                                        *)

Room(fs) == \A f \in fs : Len(fifo[f]) < IF f = "segment" THEN PacketDepth ELSE Depth
Here(fs) == \A f \in fs : fifo[f] # <<>>
Put(f, x) == fifo' = [fifo EXCEPT ![f] = Append(@, x)]
Move(from, to, x) == fifo' = [fifo EXCEPT ![from] = Tail(@), ![to] = Append(@, x)]
Discard(f) == fifo' = [fifo EXCEPT ![f] = Tail(@)]

ToLanes(s, from) == [l \in Lanes |-> IF l - from \in 1 .. Len(s) THEN s[l - from] ELSE None]
Word(s) == [lanes |-> ToLanes(s, 0), last |-> TRUE]

(* The packet s cut into words.                                            *)
Words(s) ==
    [i \in 1 .. (Len(s) + W - 1) \div W |->
        [lanes |-> ToLanes(SubSeq(s, W * (i - 1) + 1, Min({W * i, Len(s)})), 0),
         last  |-> W * i >= Len(s)]]

(* The lanes up to the last one that is there.                             *)
Content(word) ==
    IF word.last THEN SubSeq(word.lanes, 1, Max({0} \cup {l \in Lanes : word.lanes[l] # None}))
                 ELSE word.lanes

(* Every process that moves lanes drops the first k of the word it kept    *)
(* and fills up with those of the next; what is left over at the end goes  *)
(* out as an extra word.                                                   *)
Shift(k, prev, next) == [l \in Lanes |-> IF l <= W - k THEN prev[l + k] ELSE next[l - (W - k)]]

Beyond(k, word) == word.lanes[k + 1] # None
Shifted(k, prev, word) ==
    [lanes |-> Shift(k, prev, word.lanes), last |-> word.last /\ ~Beyond(k, word)]
Rest(k, prev) == [lanes |-> Shift(k, prev, Empty), last |-> TRUE]

After(k, word) ==
    IF word.last /\ ~Beyond(k, word) THEN Idle
    ELSE [at |-> IF word.last THEN "EXTRA" ELSE "MORE", prev |-> word.lanes, k |-> k]
Becomes(p, st) == proc' = [proc EXCEPT !.shift[p] = st]

More(p, from, to) ==
    LET st == proc.shift[p] IN
    /\ st.at = "MORE" /\ Here({from}) /\ Room({to})
    /\ Move(from, to, Shifted(st.k, st.prev, Head(fifo[from])))
    /\ Becomes(p, After(st.k, Head(fifo[from])))
Extra(p, to) ==
    LET st == proc.shift[p] IN
    /\ st.at = "EXTRA" /\ Room({to})
    /\ Put(to, Rest(st.k, st.prev))
    /\ Becomes(p, Idle)
-----------------------------------------------------------------------------
(* What the headers say, in lanes.  Packet n has the tuple n.              *)

OptionLanes(m)   == IF m.kind = "SYN" THEN m.length ELSE 0
PayloadLength(m) == IF m.kind = "DATA" THEN m.length ELSE 0
Payload(n)       == [i \in 1 .. PayloadLength(sent[n]) |-> <<"data", n, i>>]
Blank(n)         == [i \in 1 .. n |-> <<"blank", 0>>]
Padding(n)       == [i \in 1 .. n |-> <<"padding", 0>>]

IpHeader(tuple, total) ==
    <<<<"ihl", 5>>, <<"total", total>>>> \o Blank(4) \o [i \in 1 .. 4 |-> <<"ip", tuple>>]
Pseudo(tuple, length) ==
    [i \in 1 .. 4 |-> <<"ip", tuple>>] \o <<<<"protocol", 6>>, <<"length", length>>>>
TcpHeader(tuple, m, offset) ==
    [i \in 1 .. 2 |-> <<"port", tuple>>] \o [i \in 1 .. 2 |-> <<"seq", m.seq>>] \o Blank(2)
    \o <<<<"offset", <<offset, m.kind>>>>>> \o Blank(3)

(* Options in lanes of two bytes: the maximum segment size, and the window *)
(* scale when the segment has room for it.                                 *)
OptionsInLanes(bytes) == [i \in 1 .. Len(bytes) \div 2 |-> <<"option", <<bytes[2 * i - 1], bytes[2 * i]>>>>]
OurOptions(n) == SubSeq(OptionsInLanes(<<2, 4, 5, 180, 3, 3, WINDOW_SCALE_BITS, 0>>), 1, n)
Ethernet == [i \in 1 .. 7 |-> <<"tcp/ip", 0>>]
-----------------------------------------------------------------------------
(* TX engine.  The meta loader writes length and fields of a segment, asks *)
(* for its tuple - a RST for a packet without session brings its own - and *)
(* has the payload read; the answers come in the order of the questions.   *)

txEng_metaLoader(m) ==
    LET n == Len(sent) + 1 IN
    /\ n <= MaxPackets /\ Room({"ipMeta", "tcpMeta", "isLookUp"})
    /\ sent' = Append(sent, m)
    /\ fifo' = [fifo EXCEPT !.ipMeta = Append(@, m.length),
                            !.tcpMeta = Append(@, [m EXCEPT !.seq = n]),
                            !.isLookUp = Append(@, m.kind # "RST"),
                            !.lookedUp = IF m.kind # "RST" THEN Append(@, n) ELSE @,
                            !.shortCut = IF m.kind = "RST" THEN Append(@, n) ELSE @,
                            !.payload = @ \o Words([i \in 1 .. PayloadLength(m) |-> <<"data", n, i>>])]
    /\ UNCHANGED <<proc, dropped, received>>

txEng_tupleSplitter ==
    LET from == IF Head(fifo.isLookUp) THEN "lookedUp" ELSE "shortCut" IN
    /\ Here({"isLookUp"}) /\ Here({from}) /\ Room({"ipTuple", "tcpTuple"})
    /\ fifo' = [fifo EXCEPT !.isLookUp = Tail(@), ![from] = Tail(@),
                            !.ipTuple = Append(@, Head(fifo[from])),
                            !.tcpTuple = Append(@, Head(fifo[from]))]
    /\ UNCHANGED <<proc, sent, dropped, received>>

txEng_ipHeader_Const ==
    /\ Here({"ipMeta", "ipTuple"}) /\ Room({"ipHeader"})
    /\ fifo' = [fifo EXCEPT !.ipMeta = Tail(@), !.ipTuple = Tail(@),
                            !.ipHeader = Append(@, IpHeader(Head(fifo.ipTuple), Head(fifo.ipMeta) + 20))]
    /\ UNCHANGED <<proc, sent, dropped, received>>

txEng_pseudoHeader_Const ==
    LET m == Head(fifo.tcpMeta)  tuple == Head(fifo.tcpTuple) IN
    /\ Here({"tcpMeta", "tcpTuple"}) /\ Room({"pseudoHeader"})
    /\ fifo' = [fifo EXCEPT
          !.tcpMeta = Tail(@), !.tcpTuple = Tail(@),
          !.pseudoHeader = Append(@,
              [lanes |-> Pseudo(tuple, m.length + 10) \o TcpHeader(tuple, m, (10 + OptionLanes(m)) \div 2)
                         \o OurOptions(OptionLanes(m)),
               hasPayload |-> ~(m.length = 0 \/ m.kind = "SYN")])]
    /\ UNCHANGED <<proc, sent, dropped, received>>

(* txEng_payload_stitcher: header and payload; every word also goes to the *)
(* checksum unit, which answers a packet with its checksum.                *)
SegmentOf(word) == <<"sum", word.lanes[9][2]>>

StitchHeader ==
    LET h == Head(fifo.pseudoHeader) IN
    /\ proc.shift["payloadStitcher"].at = "FIRST" /\ Here({"pseudoHeader"})
    /\ IF h.hasPayload
         THEN /\ Discard("pseudoHeader")
              /\ Becomes("payloadStitcher", [at |-> "MORE", prev |-> ToLanes(h.lanes, 16), k |-> 16])
         ELSE /\ Room({"pseudoPacket"}) /\ Move("pseudoHeader", "pseudoPacket", Word(h.lanes))
              /\ UNCHANGED proc

txEng_payload_stitcher ==
    /\ \/ StitchHeader
       \/ More("payloadStitcher", "payload", "pseudoPacket")
       \/ Extra("payloadStitcher", "pseudoPacket")
    /\ UNCHANGED <<sent, dropped, received>>

(* txEng_PseudoHeader_Remover: a packet of one word goes out at once.      *)
RemovePseudo ==
    LET word == Head(fifo.pseudoPacket) IN
    /\ proc.shift["remover"].at = "FIRST" /\ Here({"pseudoPacket"}) /\ Room({"segment", "checksum"})
    /\ fifo' = [fifo EXCEPT !.pseudoPacket = Tail(@),
                            !.segment = IF word.last THEN Append(@, Rest(6, word.lanes)) ELSE @,
                            !.checksum = Append(@, SegmentOf(word))]
    /\ Becomes("remover", IF word.last THEN Idle ELSE [at |-> "MORE", prev |-> word.lanes, k |-> 6])

txEng_PseudoHeader_Remover ==
    /\ \/ RemovePseudo
       \/ More("remover", "pseudoPacket", "segment")
       \/ Extra("remover", "segment")
    /\ UNCHANGED <<sent, dropped, received>>

(* The checksum unit has seen the last word of the packet.                 *)
Summed == Here({"checksum"}) /\ \E i \in 1 .. Len(fifo.segment) : fifo.segment[i].last

(* txEng_ip_pkt_stitcher: IP header, segment and checksum.                 *)
StitchIp ==
    LET word == Head(fifo.segment)
        first == Shifted(22, ToLanes(Head(fifo.ipHeader), 22), word) IN
    /\ proc.shift["ipStitcher"].at = "FIRST"
    /\ Here({"ipHeader", "segment"}) /\ Summed /\ Room({"ipTxData"})
    /\ fifo' = [fifo EXCEPT !.ipHeader = Tail(@), !.segment = Tail(@), !.checksum = Tail(@),
                            !.ipTxData = Append(@, [first EXCEPT !.lanes[19] = Head(fifo.checksum)])]
    /\ Becomes("ipStitcher", After(22, word))

txEng_ip_pkt_stitcher ==
    /\ \/ StitchIp
       \/ More("ipStitcher", "segment", "ipTxData")
       \/ Extra("ipStitcher", "ipTxData")
    /\ UNCHANGED <<sent, dropped, received>>
-----------------------------------------------------------------------------
(* Ethernet header inserter.  broadcaster_and_mac_request asks for the MAC *)
(* address (the answer is found or not) and parts the first word, with the *)
(* IP header, from the rest.                                               *)

AskMac(hit) ==
    LET word == Head(fifo.ipTxData) IN
    /\ proc.broadcaster = "FIRST_WORD" /\ Here({"ipTxData"}) /\ Room({"arpReply", "ipFirst"})
    /\ fifo' = [fifo EXCEPT !.ipTxData = Tail(@), !.ipFirst = Append(@, word),
                            !.arpReply = Append(@, hit)]
    /\ proc' = IF word.last THEN proc ELSE [proc EXCEPT !.broadcaster = "REMAINING"]
    /\ dropped' = IF hit THEN dropped ELSE dropped \cup {word.lanes[13][2]}
    /\ UNCHANGED <<sent, received>>

PassRemaining ==
    LET word == Head(fifo.ipTxData) IN
    /\ proc.broadcaster = "REMAINING" /\ Here({"ipTxData"}) /\ Room({"ipRest"})
    /\ Move("ipTxData", "ipRest", word)
    /\ proc' = IF word.last THEN [proc EXCEPT !.broadcaster = "FIRST_WORD"] ELSE proc
    /\ UNCHANGED <<sent, dropped, received>>

(* The checksum of a header is abstract: a function of its lanes without   *)
(* the one it is put in.                                                   *)
HeaderSum(lanes, n) == <<"sum", [l \in 1 .. n |-> IF l = 6 THEN <<"blank", 0>> ELSE lanes[l]]>>

compute_and_insert_ip_checksum ==
    LET word == Head(fifo.ipFirst) IN
    /\ Here({"ipFirst"}) /\ Room({"ipSummed"})
    /\ Move("ipFirst", "ipSummed",
            [word EXCEPT !.lanes[6] = HeaderSum(word.lanes, 2 * word.lanes[1][2])])
    /\ UNCHANGED <<proc, sent, dropped, received>>

(* Variant: only the first word of a packet without MAC address is dropped.*)
NoMacFirstWord(word) == Idle

(* WAIT_LOOKUP with a MAC address that is not known: DROP_IP.              *)
NoMac(word) == IF word.last THEN Idle ELSE [Idle EXCEPT !.at = "DROP_NO_IP"]

(* handle_output: WAIT_LOOKUP with WRITE_FIRST_TRANSACTION or DROP_IP.     *)
handle_output_first ==
    LET word == Head(fifo.ipSummed) IN
    /\ proc.shift["inserter"].at = "FIRST" /\ Here({"arpReply", "ipSummed"}) /\ Room({"frame"})
    /\ fifo' = [fifo EXCEPT !.arpReply = Tail(@), !.ipSummed = Tail(@),
                            !.frame = IF Head(fifo.arpReply)
                                        THEN Append(@, Shifted(25, ToLanes(Ethernet, 25), word)) ELSE @]
    /\ Becomes("inserter", IF Head(fifo.arpReply) THEN After(25, word)
                           ELSE NoMac(word))

DropNoIp ==
    /\ proc.shift["inserter"].at = "DROP_NO_IP" /\ Here({"ipRest"})
    /\ Becomes("inserter", IF Head(fifo.ipRest).last THEN Idle ELSE proc.shift["inserter"])
    /\ Discard("ipRest")

handle_output ==
    /\ \/ handle_output_first
       \/ More("inserter", "ipRest", "frame")
       \/ Extra("inserter", "frame")
       \/ DropNoIp
    /\ UNCHANGED <<sent, dropped, received>>
-----------------------------------------------------------------------------
(* The wire: frames come with IP options, with other TCP options than ours *)
(* and padded; others' come between.                                       *)

WithOptions(frame, h) ==
    [SubSeq(frame, 1, 17) EXCEPT ![8] = <<"ihl", h>>, ![9] = <<"total", @[2] + 2 * (h - 5)>>]
    \o Blank(2 * (h - 5)) \o SubSeq(frame, 18, Len(frame))
FromPeer(frame, options) ==
    IF frame[24][2][2] = "SYN" /\ Len(frame) = 31
      THEN SubSeq(frame, 1, 27) \o OptionsInLanes(options) ELSE frame
Padded(frame) == IF Len(frame) < MinFrame THEN frame \o Padding(MinFrame - Len(frame)) ELSE frame

(* A frame arrives word by word, and all of it is sent before the next.    *)
Transmit(h, options) ==
    /\ Here({"frame"}) /\ ~(fifo.wire # <<>> /\ Last(fifo.wire).last)
    /\ \E words \in {Append(fifo.wire, Head(fifo.frame))} :
       \E frame \in {FlattenSeq([i \in 1 .. Len(words) |-> Content(words[i])])} :
       \E wire \in {IF Last(words).last THEN Words(Padded(WithOptions(FromPeer(frame, options), h))) ELSE words} :
           fifo' = [fifo EXCEPT !.frame = Tail(@), !.wire = wire]
    /\ UNCHANGED <<proc, sent, dropped, received>>

OtherArrives(kind) ==
    /\ fifo.wire = <<>> /\ proc.identification = "FIRST_WORD"
    /\ Put("wire", Word([l \in 1 .. W |-> <<kind, 0>>]))
    /\ UNCHANGED <<proc, sent, dropped, received>>

Arrived == fifo.wire # <<>> /\ Last(fifo.wire).last
-----------------------------------------------------------------------------
(* Packet handler.  packet_identification drops what is neither ARP nor    *)
(* IPv4 of a known protocol and labels the rest.                           *)

(* Variant: a frame of one word does not end.                              *)
AfterWordOfFirst(at, word) ==
    IF word.last /\ proc.identification # "FIRST_WORD" THEN "FIRST_WORD" ELSE at

AfterWord(at, word) == IF word.last THEN "FIRST_WORD" ELSE at

packet_identification ==
    LET word == Head(fifo.wire)
        at   == IF proc.identification # "FIRST_WORD" THEN proc.identification
                ELSE IF word.lanes[7][1] \in {"ARP", "tcp/ip"} THEN "FWD" ELSE "DROP" IN
    /\ Arrived
    /\ IF at = "DROP" THEN Discard("wire")
       ELSE Room({"ethLevel"}) /\ Move("wire", "ethLevel", word)
    /\ proc' = [proc EXCEPT !.identification = AfterWord(at, word)]
    /\ UNCHANGED <<sent, dropped, received>>

(* ethernet_remover: ARP leaves as it is (and is another stream from here).*)
RemoveEthernet ==
    LET word == Head(fifo.ethLevel) IN
    /\ proc.shift["ethernetRemover"].at = "FIRST" /\ Here({"ethLevel"}) /\ Room({"ipRxData"})
    /\ IF word.lanes[7][1] = "ARP" \/ ~word.last THEN Discard("ethLevel")
       ELSE Move("ethLevel", "ipRxData", Rest(7, word.lanes))
    /\ Becomes("ethernetRemover", IF word.last THEN Idle
                                  ELSE [at |-> "MORE", prev |-> word.lanes, k |-> 7])

ethernet_remover ==
    /\ \/ RemoveEthernet
       \/ More("ethernetRemover", "ethLevel", "ipRxData")
       \/ Extra("ethernetRemover", "ipRxData")
    /\ UNCHANGED <<sent, dropped, received>>
-----------------------------------------------------------------------------
(* RX engine.  combine_words: the lanes of an IP header of h words go, but *)
(* for the room of the pseudo header.  In case 9 the keep bits are those   *)
(* of six lanes further on.                                                *)

HeaderLanes(h) == 2 * h - 6
combine_words(h, prev, next) ==
    LET word == Shift(HeaderLanes(h), prev, next) IN
    IF h # 9 THEN word
    ELSE [l \in Lanes |-> IF l <= 20 /\ (l > 14 \/ prev[l + 18] = None) THEN None ELSE word[l]]

(* rxEngPseudoHeaderInsert: in the first word of a packet the pseudo       *)
(* header takes the last lanes of the IP header.                           *)
WithPseudo(ip, h, lanes) ==
    LET pseudo == Pseudo(ip[7][2], ip[2][2] - 2 * h) IN
    [l \in Lanes |-> IF l <= 6 THEN pseudo[l] ELSE lanes[l]]

InsertFirst ==
    LET word == Head(fifo.ipRxData)
        h    == word.lanes[1][2] IN
    /\ proc.shift["pseudoInsert"].at = "FIRST" /\ Here({"ipRxData"}) /\ Room({"pseudo"})
    /\ IF word.last
         THEN Move("ipRxData", "pseudo",
                   [lanes |-> WithPseudo(word.lanes, h, combine_words(h, word.lanes, Empty)), last |-> TRUE])
         ELSE Discard("ipRxData")
    /\ Becomes("pseudoInsert", IF word.last THEN Idle
                               ELSE [at |-> "PSEUDO", prev |-> word.lanes, k |-> h])

InsertMore ==
    LET word == Head(fifo.ipRxData)
        st   == proc.shift["pseudoInsert"]
        k    == HeaderLanes(st.k)
        comb == combine_words(st.k, st.prev, word.lanes) IN
    /\ st.at \in {"PSEUDO", "MORE"} /\ Here({"ipRxData"}) /\ Room({"pseudo"})
    /\ Move("ipRxData", "pseudo",
            [lanes |-> IF st.at = "PSEUDO" THEN WithPseudo(st.prev, st.k, comb) ELSE comb,
             last  |-> word.last /\ ~Beyond(k, word)])
    /\ Becomes("pseudoInsert", [After(k, word) EXCEPT !.k = st.k])

InsertExtra ==
    LET st == proc.shift["pseudoInsert"] IN
    /\ st.at = "EXTRA" /\ Room({"pseudo"})
    /\ Put("pseudo", [lanes |-> combine_words(st.k, st.prev, Empty), last |-> TRUE])
    /\ Becomes("pseudoInsert", Idle)

rxEngPseudoHeaderInsert ==
    (InsertFirst \/ InsertMore \/ InsertExtra) /\ UNCHANGED <<sent, dropped, received>>

(* The bytes of the lanes behind the fixed header; of payload or padding   *)
(* none is looked at.                                                      *)
OptionBytes(lanes) ==
    [i \in 1 .. 8 |-> LET lane == lanes[(i + 1) \div 2] IN
        IF lane # None /\ lane[1] = "option" THEN lane[2][2 - (i % 2)] ELSE 0]

(* Variant: the length of the payload forgets the TCP options.             *)
MetaOfShort(word) ==
    LET w == word.lanes IN
    [seq |-> w[9][2], tuple |-> {w[1][2], w[3][2], w[7][2], w[8][2]}, sum |-> w[15],
     length |-> w[6][2] - 10, syn |-> w[13][2][2] = "SYN", scale |-> 0,
     tcpOffset |-> w[13][2][1], options |-> OptionBytes(SubSeq(w, 17, W))]

(* rxEngGetMetaData: the fields, and the payload behind the TCP header,    *)
(* which starts at byte_offset, a number of six bits.                      *)
MetaOf(word) ==
    LET w == word.lanes IN
    [seq |-> w[9][2], tuple |-> {w[1][2], w[3][2], w[7][2], w[8][2]}, sum |-> w[15],
     length |-> w[6][2] - 2 * w[13][2][1], syn |-> w[13][2][2] = "SYN", scale |-> 0,
     tcpOffset |-> w[13][2][1], options |-> OptionBytes(SubSeq(w, 17, W))]
Offset(word) == (2 * word.lanes[13][2][1] + 6) % W

Deliver(lanes, first, last) ==
    LET n == Len(received.payloads) IN
    received' = [received EXCEPT !.payloads =
        IF first THEN Append(@, [lanes |-> lanes, whole |-> last])
                 ELSE [@ EXCEPT ![n] = [lanes |-> @.lanes \o lanes, whole |-> last]]]
NewPayload == received.payloads = <<>> \/ Last(received.payloads).whole

GetFirst ==
    LET word == Head(fifo.pseudo)
        meta == MetaOf(word) IN
    /\ proc.shift["getMeta"].at = "FIRST" /\ Here({"pseudo"}) /\ Room({"rxMeta"})
    /\ Move("pseudo", "rxMeta", meta)
    /\ IF word.last /\ meta.length # 0
         THEN Deliver(Content(Rest(Offset(word), word.lanes)), TRUE, TRUE)
         ELSE UNCHANGED received
    /\ Becomes("getMeta", IF word.last THEN Idle
                          ELSE [at |-> "MORE", prev |-> word.lanes, k |-> Offset(word)])

GetMore ==
    LET word == Head(fifo.pseudo)
        st   == proc.shift["getMeta"]
        out  == Shifted(st.k, st.prev, word) IN
    /\ st.at = "MORE" /\ Here({"pseudo"})
    /\ Discard("pseudo")
    /\ Deliver(Content(out), NewPayload, out.last)
    /\ Becomes("getMeta", After(st.k, word))

GetExtra ==
    LET st == proc.shift["getMeta"] IN
    /\ st.at = "EXTRA"
    /\ Deliver(Content(Rest(st.k, st.prev)), NewPayload, TRUE)
    /\ Becomes("getMeta", Idle)
    /\ UNCHANGED fifo

rxEngGetMetaData == (GetFirst \/ GetMore \/ GetExtra) /\ UNCHANGED <<sent, dropped>>

(* rxParseTcpOptions: the options of a SYN are read one per clock cycle    *)
(* up to the window scale, which is at most ours.                          *)
Announce(meta) ==
    received' = [received EXCEPT !.metas = Append(@, meta)]

read_info ==
    LET meta == Head(fifo.rxMeta) IN
    /\ proc.parser.at = "READ_INFO" /\ Here({"rxMeta"})
    /\ Discard("rxMeta")
    /\ IF meta.tcpOffset > 5 /\ meta.syn
         THEN /\ proc' = [proc EXCEPT !.parser = [at |-> "PARSE_DATA", meta |-> meta, offset |-> 0]]
              /\ UNCHANGED received
         ELSE Announce(meta) /\ UNCHANGED proc

Scale(options) == IF options[2] = 3 THEN Min({options[3] % 16, WINDOW_SCALE_BITS}) ELSE 0

(* Variant: a no-operation is skipped by the length in the next byte.      *)
OptionLengthRead(options) == options[2]

(* An option without a length of its own has one byte.                     *)
OptionLength(options) == IF options[1] = 1 THEN 1 ELSE options[2]

parse_data ==
    LET p == proc.parser
        options == p.meta.options
        length  == OptionLength(options)
        found   == options[1] = 3 /\ p.offset < 4 * (p.meta.tcpOffset - 5) IN
    /\ p.at = "PARSE_DATA"
    /\ IF options[1] \in {0, 3} \/ p.offset >= 4 * (p.meta.tcpOffset - 5)
         THEN /\ Announce([p.meta EXCEPT !.scale = IF found THEN Scale(options) ELSE @])
              /\ proc' = [proc EXCEPT !.parser = ReadInfo]
         ELSE /\ proc' = [proc EXCEPT
                    !.parser.meta.options = [i \in DOMAIN @ |-> IF i + length \in DOMAIN @ THEN @[i + length] ELSE 0],
                    !.parser.offset = (@ + length) % 64]
              /\ UNCHANGED received
    /\ UNCHANGED fifo

rxParseTcpOptions == (read_info \/ parse_data) /\ UNCHANGED <<sent, dropped>>
-----------------------------------------------------------------------------
Metas ==
    {[kind |-> "DATA", length |-> n, seq |-> 0] : n \in IF "DATA" \in Kinds THEN Lengths ELSE {}}
    \cup {[kind |-> "SYN", length |-> n, seq |-> 0] : n \in IF "SYN" \in Kinds THEN {2, 4} ELSE {}}
    \cup {[kind |-> "RST", length |-> 0, seq |-> 0] : k \in Kinds \cap {"RST"}}

Process ==
    \/ txEng_tupleSplitter \/ txEng_ipHeader_Const \/ txEng_pseudoHeader_Const
    \/ txEng_payload_stitcher \/ txEng_PseudoHeader_Remover \/ txEng_ip_pkt_stitcher
    \/ PassRemaining \/ compute_and_insert_ip_checksum \/ handle_output
    \/ packet_identification \/ ethernet_remover
    \/ rxEngPseudoHeaderInsert \/ rxEngGetMetaData \/ rxParseTcpOptions

Send == \E m \in Metas : txEng_metaLoader(m)
broadcaster_and_mac_request == \E hit \in BOOLEAN : AskMac(hit)
Wire == \E h \in HeaderLens, options \in PeerOptions : Transmit(h, options)
Other == \E kind \in Others : OtherArrives(kind)

Next == Send \/ Process \/ broadcaster_and_mac_request \/ Wire \/ Other

Spec == Init /\ [][Next]_vars

(* Each process runs in each clock cycle.                                  *)
Fairness ==
    /\ WF_vars(txEng_tupleSplitter) /\ WF_vars(txEng_ipHeader_Const)
    /\ WF_vars(txEng_pseudoHeader_Const) /\ WF_vars(txEng_payload_stitcher)
    /\ WF_vars(txEng_PseudoHeader_Remover) /\ WF_vars(txEng_ip_pkt_stitcher)
    /\ WF_vars(broadcaster_and_mac_request) /\ WF_vars(PassRemaining)
    /\ WF_vars(compute_and_insert_ip_checksum) /\ WF_vars(handle_output)
    /\ SF_vars(Wire) /\ WF_vars(packet_identification) /\ WF_vars(ethernet_remover)
    /\ WF_vars(rxEngPseudoHeaderInsert) /\ WF_vars(rxEngGetMetaData) /\ WF_vars(rxParseTcpOptions)
FairSpec == Spec /\ Fairness
-----------------------------------------------------------------------------
(* Properties.                                                             *)

(* What comes out of a frame is what went into it: addresses, ports,       *)
(* sequence number and checksum of one segment, the payload length its     *)
(* header announces, the window scale of a SYN, and its payload, no lane   *)
(* lost, doubled or left empty at any of the seven realignments; an IP     *)
(* header leaves with its own checksum.  Behind the payload comes nothing  *)
(* but the padding of a frame below the minimum: no process cuts a packet  *)
(* to the length in its IP header, so a payload of one to five bytes goes  *)
(* on with its padding, longer than the length in its meta data.           *)
WithPayload == SelectSeq(received.metas, LAMBDA meta : meta.length # 0)
FramesAreWhole ==
    /\ \A i \in 1 .. Len(received.metas) :
          LET r == received.metas[i] IN
          /\ r.tuple = {r.seq} /\ r.sum = <<"sum", r.seq>>
          /\ r.length = PayloadLength(sent[r.seq])
          /\ r.scale = IF OptionLanes(sent[r.seq]) = 4 THEN WINDOW_SCALE_BITS ELSE 0
    /\ \A i \in 1 .. Min({Len(received.payloads), Len(WithPayload)}) :
          received.payloads[i].whole =>
              \E n \in {0, MinFrame - 27 - WithPayload[i].length} \cap Nat :
                  received.payloads[i].lanes = Payload(WithPayload[i].seq) \o Padding(n)
    /\ \A i \in 1 .. Len(fifo.frame) :
          fifo.frame[i].lanes[7] = <<"tcp/ip", 0>> =>
              fifo.frame[i].lanes[13] = HeaderSum(SubSeq(fifo.frame[i].lanes, 8, 17), 10)

(* Every segment arrives unless its MAC address was not known, and those   *)
(* that do arrive in order, with their payloads: no FIFO of companions     *)
(* gets out of step or full for ever.                                      *)
AllArrive ==
    <>[](/\ [i \in 1 .. Len(received.metas) |-> received.metas[i].seq]
              = SelectSeq([n \in 1 .. Len(sent) |-> n], LAMBDA n : n \notin dropped)
         /\ Len(received.payloads) = Len(WithPayload)
         /\ \A i \in 1 .. Len(received.payloads) : received.payloads[i].whole)
=============================================================================
