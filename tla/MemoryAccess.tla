------------------------------ MODULE MemoryAccess ------------------------------
(***************************************************************************)
(* The way of payload into the circular buffers of the external memory and *)
(* back (memory_access.cpp).  A writer turns a segment that runs over the  *)
(* end of its buffer into two commands of the Data Mover and realigns the  *)
(* words of the second; a gate passes a segment on when the Data Mover has *)
(* confirmed its one or two writes; a reader splits in the same way and    *)
(* merges the two answers into one stream of words.                        *)
(*                                                                         *)
(* The functions exist twice, for the two directions: on the "tx" side     *)
(* DataBroadcast hands each word of the application both to the writer and *)
(* to the TX engine, which sends it without waiting for the memory, and    *)
(* reads the memory for retransmissions; on the "rx" side the application  *)
(* reads what the notification delayer announces (RX_DDR_BYPASS 0).        *)
(*                                                                         *)
(* A byte is its position in the stream of the session; the address of     *)
(* byte 0 is any of the buffer.                                            *)
(***************************************************************************)
EXTENDS ReadBack, FiniteSets

CONSTANTS BufferSize,    \* BUFFER_SIZE = 2^WINDOW_BITS
          LengthRange,   \* 2^16, the width of a length
          Sides,         \* subset of {"rx", "tx"}
          Sessions,      \* session IDs in use
          Starts,        \* positions of byte 0 in the buffer
          BypassDepth,   \* words in txApp2txEng2PseudoHeader: 512
          Lengths,       \* lengths of segments
          MaxBytes,      \* bound: bytes of the stream
          MaxReads,      \* bound: reads of the memory
          ExactFit       \* whether a segment may end where the buffer ends

(* A buffer is a multiple of 2^16, as WINDOW_BITS is at least the width of *)
(* a length.                                                               *)
ConstantsOK ==
    /\ {WordBytes, BufferSize, LengthRange, BypassDepth} \subseteq Nat \ {0}
    /\ BufferSize % WordBytes = 0 /\ BufferSize % LengthRange = 0
    /\ Sides \subseteq {"rx", "tx"} /\ Sessions \subseteq Nat
    /\ Starts \subseteq 0 .. BufferSize - 1
    /\ Lengths \subseteq 1 .. LengthRange - 1 /\ MaxBytes \in Nat /\ MaxReads \in Nat
    /\ ExactFit \in BOOLEAN /\ NoByte \notin Int
ASSUME MemoryAccessAssumption == ConstantsOK

VARIABLES
    side, session, start,            \* chosen once
    accepted, announced,             \* bytes offered to the writer, passed by the gate
    input, toMemory, writeCmds,      \* payload, txApp2ExtMemory, CmdIn
    writer,                          \* x_Data_to_Memory
    moverCmds, moverData, statuses,  \* to and from the Data Mover
    written,                         \* bytes of the first command it has written
    cache, double, gate,             \* segments at the gate, doubleAccess
    memory,
    readCmds, splitter,              \* x_ReadMemAccessBreakdown
    moverReads, breakdowns,          \* ... and what follows it
    fetched,                         \* bytes of the first command the aligner has got
    bypass, isBypass,                \* txApp2txEng2PseudoHeader, txEng_isDDRbypass
    aligner                          \* x_MemDataRead_aligner

writing == <<accepted, input, toMemory, writeCmds, writer, moverCmds, moverData, statuses,
             written, double>>
gating  == <<announced, cache, gate>>
reading == <<readCmds, splitter, moverReads, breakdowns, fetched, isBypass, aligner, requests, out>>
chosen  == <<side, session, start>>
vars    == <<chosen, writing, gating, memory, bypass, reading>>

Address(n) == session * BufferSize + ((start + n) % BufferSize)
Position(a) == a % BufferSize
BaseOf(a) == a - Position(a)
(* Bit WINDOW_BITS.                                                        *)
Bit(a) == (a \div BufferSize) % 2 = 1

Empty == [l \in Lanes |-> NoByte]

(* keep2len, len2Keep: 0 stands for all lanes.                             *)
keep2len(data) == Cardinality({l \in Lanes : data[l] # NoByte})
len2Keep(data, length) ==
    [i \in Lanes |-> IF length = 0 \/ i < length THEN data[i] ELSE NoByte]

(* The first bytes of prev, then curr; the bytes of prev from byte_offset  *)
(* on, then the first of curr.                                             *)
align_words_from_memory(curr, prev, byte_offset) ==
    [i \in Lanes |-> IF i < byte_offset THEN prev[i] ELSE curr[i - byte_offset]]
align_words_to_memory(curr, prev, byte_offset) ==
    IF byte_offset = 0 THEN curr
    ELSE [i \in Lanes |-> IF i < WordBytes - byte_offset THEN prev[i + byte_offset]
                          ELSE curr[i - (WordBytes - byte_offset)]]

(* INITIAL_STATE.                                                          *)
FirstState == IF side = "tx" THEN "READ_BYPASS" ELSE "READ_ACCESS"

Command(a, length) == [saddr |-> a, bbt |-> length]
Buffers == {s * BufferSize + p : s \in Sessions, p \in 0 .. BufferSize - 1}

Init ==
    /\ side \in Sides /\ session \in Sessions /\ start \in Starts
    /\ accepted = 0 /\ announced = 0
    /\ input = <<>> /\ toMemory = <<>> /\ writeCmds = <<>>
    /\ writer = [state |-> "WAIT_CMD", cmd |-> Command(0, 0), byte_offset |-> 0,
                 left |-> 0, first |-> 0, prev |-> Empty]
    /\ moverCmds = <<>> /\ moverData = <<>> /\ statuses = <<>> /\ written = 0
    /\ cache = <<>> /\ double = <<>> /\ gate = [state |-> "READ_EV", event |-> Command(0, 0)]
    /\ memory = [a \in Buffers |-> NoByte]
    /\ readCmds = <<>> /\ splitter = [second |-> FALSE, cmd |-> Command(0, 0), first |-> 0]
    /\ moverReads = <<>> /\ breakdowns = <<>> /\ fetched = 0
    /\ bypass = <<>> /\ isBypass = <<>>
    /\ aligner = [state |-> FirstState, offset |-> 0, prev |-> Empty]
    /\ requests = <<>> /\ out = <<>>
-----------------------------------------------------------------------------
(* A segment comes in (tasi_metaLoader, rxEngTcpFSM): the command, its     *)
(* payload and the note of it for the gate.  On the tx side the TX engine  *)
(* sends it at once, from the bypass.                                      *)

MayFit(from, length) == ExactFit \/ Position(Address(from)) + length # BufferSize

SegmentIn(length) ==
    /\ accepted + length <= MaxBytes /\ accepted + length < BufferSize
    /\ MayFit(accepted, length)
    /\ accepted' = accepted + length
    /\ input' = input \o SegmentWords(accepted, length)
    /\ writeCmds' = Append(writeCmds, Command(Address(accepted), length))
    /\ cache' = Append(cache, Command(Address(accepted), length))
    /\ IF side = "tx"
         THEN /\ isBypass' = Append(isBypass, TRUE)
              /\ requests' = Append(requests, [from |-> accepted, length |-> length,
                                                  memory |-> FALSE])
         ELSE UNCHANGED <<isBypass, requests>>
    /\ UNCHANGED <<chosen, announced, gate, toMemory, writer, moverCmds, moverData, statuses,
                   written, double, memory, bypass, readCmds, splitter, moverReads, breakdowns,
                   fetched, aligner, out>>

DataBroadcast ==
    /\ input # <<>>
    /\ toMemory' = Append(toMemory, Head(input))
    /\ input' = Tail(input)
    /\ IF side = "tx"
         THEN Len(bypass) < BypassDepth /\ bypass' = Append(bypass, Head(input))
         ELSE UNCHANGED bypass
    /\ UNCHANGED <<chosen, gating, memory, reading, accepted, writeCmds, writer, moverCmds,
                   moverData, statuses, written, double>>
-----------------------------------------------------------------------------
(* The writer.                                                             *)

(* Variant: as if the segment began with a whole word.                     *)
CountLessOne(first) == first \div WordBytes

NumberOfWords(first) ==
    first \div WordBytes + (IF first % WordBytes # 0 THEN 1 ELSE 0)

WaitCommand ==
    LET cmd == Head(writeCmds)
        overflow == Position(cmd.saddr) + cmd.bbt >= BufferSize
        first == BufferSize - Position(cmd.saddr) IN
    /\ writer.state = "WAIT_CMD" /\ writeCmds # <<>>
    /\ writeCmds' = Tail(writeCmds)
    /\ writer' = IF overflow
                   THEN [writer EXCEPT !.state = "FWD_BREAKDOWN_0", !.cmd = cmd,
                                       !.byte_offset = first % WordBytes, !.first = first,
                                       !.left = NumberOfWords(first)]
                   ELSE [writer EXCEPT !.state = "FWD_NO_BREAKDOWN", !.cmd = cmd]
    /\ moverCmds' = Append(moverCmds, IF overflow THEN Command(cmd.saddr, first) ELSE cmd)
    /\ double' = IF side = "rx" THEN Append(double, overflow) ELSE double
    /\ UNCHANGED <<toMemory, moverData>>

TakeWord ==
    /\ toMemory # <<>>
    /\ toMemory' = Tail(toMemory)
    /\ UNCHANGED <<writeCmds, double>>

ForwardAll ==
    LET curr == Head(toMemory) IN
    /\ writer.state = "FWD_NO_BREAKDOWN" /\ TakeWord
    /\ moverData' = Append(moverData, curr)
    /\ writer' = [writer EXCEPT !.state = IF curr.last THEN "WAIT_CMD" ELSE @]
    /\ UNCHANGED moverCmds

(* The word in which the buffer ends gives the second command; what it     *)
(* holds beyond is sent again in front of the next word.                   *)
ForwardFirst ==
    LET curr == Head(toMemory)
        ends == writer.left = 1
        cmd == writer.cmd IN
    /\ writer.state = "FWD_BREAKDOWN_0" /\ TakeWord
    /\ moverData' = Append(moverData,
                      IF ends THEN [data |-> len2Keep(curr.data, writer.byte_offset), last |-> TRUE]
                              ELSE curr)
    /\ moverCmds' = IF ends
                      THEN Append(moverCmds, Command(BaseOf(cmd.saddr), cmd.bbt - writer.first))
                      ELSE moverCmds
    /\ writer' = [writer EXCEPT !.left = @ - 1, !.prev = curr.data,
                                !.state = IF ~ends THEN @
                                          ELSE IF curr.last THEN "FWD_EXTRA" ELSE "FWD_BREAKDOWN_1"]

(* keep.bit(byte_offset).                                                  *)
Beyond(data, byte_offset) == data[byte_offset] # NoByte

ForwardSecond ==
    LET curr == Head(toMemory)
        more == curr.last /\ Beyond(curr.data, writer.byte_offset) /\ writer.byte_offset # 0 IN
    /\ writer.state = "FWD_BREAKDOWN_1" /\ TakeWord
    /\ moverData' = Append(moverData,
                      [data |-> align_words_to_memory(curr.data, writer.prev, writer.byte_offset),
                       last |-> curr.last /\ ~more])
    /\ writer' = [writer EXCEPT !.prev = curr.data,
                                !.state = IF more THEN "FWD_EXTRA"
                                          ELSE IF curr.last THEN "WAIT_CMD" ELSE @]
    /\ UNCHANGED moverCmds

ForwardExtra ==
    /\ writer.state = "FWD_EXTRA"
    /\ moverData' = Append(moverData,
                      [data |-> align_words_to_memory(Empty, writer.prev, writer.byte_offset),
                       last |-> TRUE])
    /\ writer' = [writer EXCEPT !.state = "WAIT_CMD"]
    /\ UNCHANGED <<toMemory, writeCmds, moverCmds, double>>

WriterStep ==
    /\ WaitCommand \/ ForwardAll \/ ForwardFirst \/ ForwardSecond \/ ForwardExtra
    /\ UNCHANGED <<chosen, gating, memory, bypass, reading, accepted, input, statuses, written>>

tx_Data_to_Memory == side = "tx" /\ WriterStep
Rx_Data_to_Memory == side = "rx" /\ WriterStep
-----------------------------------------------------------------------------
(* The Data Mover and the memory (outside).  A write takes the words of    *)
(* its packet as they come: all lanes of a word but the last one's must be *)
(* there, and the packet must end with the last byte of the command, or    *)
(* the write is never completed; one of 0 bytes is not even begun.         *)

MoverWrite ==
    LET cmd  == Head(moverCmds)
        word == Head(moverData)
        n    == keep2len(word.data)
        done == written + n = cmd.bbt IN
    /\ moverCmds # <<>> /\ moverData # <<>>
    /\ n > 0 /\ written + n <= cmd.bbt /\ word.last = done /\ (word.last \/ n = WordBytes)
    /\ memory' = [a \in Buffers |->
                     LET lane == a - (cmd.saddr + written) IN
                     IF lane \in 0 .. n - 1 THEN word.data[lane] ELSE memory[a]]
    /\ moverData' = Tail(moverData)
    /\ moverCmds' = IF done THEN Tail(moverCmds) ELSE moverCmds
    /\ written' = IF done THEN 0 ELSE written + n
    /\ statuses' = IF done THEN Append(statuses, "okay") ELSE statuses
    /\ UNCHANGED <<chosen, gating, bypass, reading, accepted, input, toMemory, writeCmds,
                   writer, double>>

(* A read gives its bytes in words, the last one marked.  Nobody but the   *)
(* aligner sees whether one of them waits for it, so that a word is read   *)
(* when the aligner takes it.                                              *)
Stored(a) == IF a \in Buffers THEN memory[a] ELSE NoByte
Answer ==
    LET cmd  == Head(moverReads)
        left == cmd.bbt - fetched IN
    [data |-> [l \in Lanes |-> IF l < left THEN Stored(cmd.saddr + fetched + l) ELSE NoByte],
     last |-> left <= WordBytes]
-----------------------------------------------------------------------------
(* The gate.                                                               *)

TakeStatus ==
    /\ statuses # <<>>
    /\ statuses' = Tail(statuses)

Announce(event) ==
    /\ announced' = announced + event.bbt
    /\ gate' = [gate EXCEPT !.state = "READ_EV"]

GateFrame == UNCHANGED <<chosen, memory, bypass, reading, accepted, input, toMemory,
                         writeCmds, writer, moverCmds, moverData, written>>

(* Variant: the first status is enough.                                    *)
StatusHandlerOneStatus ==
    /\ side = "tx"
    /\ \/ /\ gate.state = "READ_EV" /\ cache # <<>>
          /\ gate' = [state |-> "READ_STATUS_1", event |-> Head(cache)]
          /\ cache' = Tail(cache)
          /\ UNCHANGED <<statuses, announced>>
       \/ /\ gate.state = "READ_STATUS_1" /\ TakeStatus
          /\ Announce(gate.event)
          /\ UNCHANGED cache
    /\ UNCHANGED double /\ GateFrame

(* txAppStatusHandler: two statuses if the segment reaches the end of the  *)
(* buffer; then the pointer of the application goes to tx_sar_table.       *)
txAppStatusHandler ==
    /\ side = "tx"
    /\ \/ /\ gate.state = "READ_EV" /\ cache # <<>>
          /\ gate' = [state |-> "READ_STATUS_1", event |-> Head(cache)]
          /\ cache' = Tail(cache)
          /\ UNCHANGED <<statuses, announced>>
       \/ /\ gate.state = "READ_STATUS_1" /\ TakeStatus
          /\ IF Position(gate.event.saddr) + gate.event.bbt >= BufferSize
               THEN gate' = [gate EXCEPT !.state = "READ_STATUS_2"] /\ UNCHANGED announced
               ELSE Announce(gate.event)
          /\ UNCHANGED cache
       \/ /\ gate.state = "READ_STATUS_2" /\ TakeStatus
          /\ Announce(gate.event)
          /\ UNCHANGED cache
    /\ UNCHANGED double /\ GateFrame

(* rxEngAppNotificationDelayer: the writer tells how many statuses.        *)
rxEngAppNotificationDelayer ==
    /\ side = "rx"
    /\ \/ /\ gate.state = "READ_EV" /\ cache # <<>> /\ double # <<>> /\ TakeStatus
          /\ cache' = Tail(cache) /\ double' = Tail(double)
          /\ IF Head(double)
               THEN gate' = [state |-> "READ_STATUS_2", event |-> Head(cache)] /\ UNCHANGED announced
               ELSE Announce(Head(cache))
       \/ /\ gate.state = "READ_STATUS_2" /\ TakeStatus
          /\ Announce(gate.event)
          /\ UNCHANGED <<cache, double>>
    /\ GateFrame
-----------------------------------------------------------------------------
(* The reader.                                                             *)

(* The application reads what was announced, the TX engine sends it again: *)
(* that memory and gate are faster than the timers is assumed here.        *)
ReadIn(from, length) ==
    /\ Cardinality({k \in 1 .. Len(requests) : requests[k].memory}) < MaxReads
    /\ from + length <= announced /\ MayFit(from, length)
    /\ requests' = Append(requests, [from |-> from, length |-> length, memory |-> TRUE])
    /\ readCmds' = Append(readCmds, Command(Address(from), length))
    /\ isBypass' = IF side = "tx" THEN Append(isBypass, FALSE) ELSE isBypass
    /\ UNCHANGED <<chosen, writing, gating, memory, bypass, splitter, moverReads, breakdowns,
                   fetched, aligner, out>>

(* next_addr holds the session's lowest ID bit where the overflow shows.   *)
Overflows(cmd) == Bit(cmd.saddr + cmd.bbt)

SplitterStep ==
    LET cmd == IF splitter.second THEN splitter.cmd ELSE Head(readCmds)
        first == (BufferSize - cmd.saddr) % LengthRange IN
    /\ \/ /\ ~splitter.second /\ readCmds # <<>>
          /\ readCmds' = Tail(readCmds)
          /\ splitter' = [second |-> Overflows(cmd), cmd |-> cmd, first |-> first]
          /\ moverReads' = Append(moverReads, IF Overflows(cmd) THEN Command(cmd.saddr, first) ELSE cmd)
          /\ breakdowns' = Append(breakdowns, [double |-> Overflows(cmd), offset |-> first % WordBytes])
       \/ /\ splitter.second
          /\ moverReads' = Append(moverReads, Command(BaseOf(cmd.saddr),
                                                     (cmd.bbt - splitter.first) % LengthRange))
          /\ splitter' = [splitter EXCEPT !.second = FALSE]
          /\ UNCHANGED <<readCmds, breakdowns>>
    /\ UNCHANGED <<chosen, writing, gating, memory, bypass, fetched, isBypass, aligner, requests, out>>

tx_ReadMemAccessBreakdown == side = "tx" /\ SplitterStep
app_ReadMemAccessBreakdown == side = "rx" /\ SplitterStep

(* The states of the aligner that read a word of the memory.               *)
TakeAnswer ==
    /\ moverReads # <<>> /\ Head(moverReads).bbt > 0
    /\ moverReads' = IF Answer.last THEN Tail(moverReads) ELSE moverReads
    /\ fetched' = IF Answer.last THEN 0 ELSE fetched + WordBytes
    /\ UNCHANGED <<breakdowns, isBypass, bypass>>

(* A segment ends with the word that is marked.                            *)
Between == out = <<>> \/ (LET words == out[Len(out)] IN words[Len(words)].last)
Send(data, last) ==
    LET word == [data |-> data, last |-> last] IN
    out' = IF Between THEN Append(out, <<word>>)
                      ELSE [out EXCEPT ![Len(out)] = Append(@, word)]

(* Which of the two sources the next segment comes from.                   *)
ReadBypass ==
    /\ aligner.state = "READ_BYPASS" /\ isBypass # <<>>
    /\ isBypass' = Tail(isBypass)
    /\ aligner' = [aligner EXCEPT !.state = IF Head(isBypass) THEN "NO_USE_DDR" ELSE "READ_ACCESS"]
    /\ UNCHANGED <<moverReads, fetched, breakdowns, bypass, out>>

NoUseDdr ==
    /\ aligner.state = "NO_USE_DDR" /\ bypass # <<>>
    /\ bypass' = Tail(bypass)
    /\ Send(Head(bypass).data, Head(bypass).last)
    /\ aligner' = [aligner EXCEPT !.state = IF Head(bypass).last THEN "READ_BYPASS" ELSE @]
    /\ UNCHANGED <<moverReads, fetched, breakdowns, isBypass>>

ReadAccess ==
    /\ aligner.state = "READ_ACCESS" /\ breakdowns # <<>>
    /\ breakdowns' = Tail(breakdowns)
    /\ aligner' = [aligner EXCEPT !.offset = Head(breakdowns).offset,
                     !.state = IF Head(breakdowns).double THEN "BREAKDOWN_BLOCK_0" ELSE "NO_BREAKDOWN"]
    /\ UNCHANGED <<moverReads, fetched, isBypass, bypass, out>>

PassWord ==
    LET curr == Answer IN
    /\ aligner.state \in {"NO_BREAKDOWN", "BREAKDOWN_ALIGNED"} /\ TakeAnswer
    /\ Send(curr.data, curr.last)
    /\ aligner' = [aligner EXCEPT !.state = IF curr.last THEN FirstState ELSE @]

(* The last word of the first answer is kept back unless it is whole.      *)
FirstBlock ==
    LET curr == Answer
        merge == curr.last /\ aligner.offset # 0 IN
    /\ aligner.state = "BREAKDOWN_BLOCK_0" /\ TakeAnswer
    /\ IF merge THEN UNCHANGED out ELSE Send(curr.data, FALSE)
    /\ aligner' = [aligner EXCEPT !.prev = curr.data,
                     !.state = IF merge THEN "FIRST_MERGE"
                               ELSE IF curr.last THEN "BREAKDOWN_ALIGNED" ELSE @]

(* The second answer: offset_block1 lanes of each word complete the one    *)
(* before.                                                                 *)
OffsetBlock1 == WordBytes - aligner.offset

MergeWord(merged, curr) ==
    LET extra == curr.last /\ Beyond(curr.data, OffsetBlock1) IN
    /\ Send(merged, curr.last /\ ~extra)
    /\ aligner' = [aligner EXCEPT !.prev = curr.data,
                     !.state = IF extra THEN "EXTRA_DATA"
                               ELSE IF curr.last THEN FirstState ELSE "BREAKDOWN_BLOCK_1"]

FirstMerge ==
    LET curr == Answer IN
    /\ aligner.state = "FIRST_MERGE" /\ TakeAnswer
    /\ MergeWord(align_words_from_memory(curr.data, aligner.prev, aligner.offset), curr)

SecondBlock ==
    LET curr == Answer IN
    /\ aligner.state = "BREAKDOWN_BLOCK_1" /\ TakeAnswer
    /\ MergeWord(align_words_to_memory(curr.data, aligner.prev, OffsetBlock1), curr)

ExtraData ==
    /\ aligner.state = "EXTRA_DATA"
    /\ Send(align_words_to_memory(Empty, aligner.prev, OffsetBlock1), TRUE)
    /\ aligner' = [aligner EXCEPT !.state = FirstState]
    /\ UNCHANGED <<moverReads, fetched, breakdowns, isBypass, bypass>>

AlignerStep ==
    /\ \/ ReadAccess \/ PassWord \/ FirstBlock \/ FirstMerge \/ SecondBlock \/ ExtraData
       \/ ReadBypass \/ NoUseDdr
    /\ UNCHANGED <<chosen, writing, gating, memory, readCmds, splitter, requests>>

tx_MemDataRead_aligner == side = "tx" /\ AlignerStep
app_MemDataRead_aligner == side = "rx" /\ AlignerStep
-----------------------------------------------------------------------------
System == \/ DataBroadcast
          \/ tx_Data_to_Memory \/ Rx_Data_to_Memory
          \/ txAppStatusHandler \/ rxEngAppNotificationDelayer
          \/ tx_ReadMemAccessBreakdown \/ app_ReadMemAccessBreakdown
          \/ tx_MemDataRead_aligner \/ app_MemDataRead_aligner
Environment ==
    \/ \E length \in Lengths : SegmentIn(length)
    \/ \E from \in 0 .. MaxBytes - 1, length \in Lengths : ReadIn(from, length)

Next == System \/ MoverWrite \/ Environment

Spec == Init /\ [][Next]_vars

(* Each process runs in each clock cycle, the Data Mover ends its work.    *)
Fairness ==
    /\ WF_vars(DataBroadcast) /\ WF_vars(MoverWrite)
    /\ WF_vars(tx_Data_to_Memory) /\ WF_vars(Rx_Data_to_Memory)
    /\ WF_vars(txAppStatusHandler) /\ WF_vars(rxEngAppNotificationDelayer)
    /\ WF_vars(tx_ReadMemAccessBreakdown) /\ WF_vars(app_ReadMemAccessBreakdown)
    /\ WF_vars(tx_MemDataRead_aligner) /\ WF_vars(app_MemDataRead_aligner)
FairSpec == Spec /\ Fairness
-----------------------------------------------------------------------------
(* Properties.                                                             *)

(* No segment and no read is left behind half way.                         *)
AllIsDelivered ==
    <>[](announced = accepted
         /\ out = [k \in 1 .. Len(requests) |-> SegmentWords(requests[k].from, requests[k].length)])
=============================================================================
