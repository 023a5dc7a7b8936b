-------------------------------- MODULE ReadBack --------------------------------
(***************************************************************************)
(* What the way through the circular buffers promises to those who ask for *)
(* bytes of a stream, and the words that it is said in: what comes out are *)
(* the words of the segments asked for, in the order of the requests.  How *)
(* the promise is kept is the module MemoryAccess.                         *)
(*                                                                         *)
(* A byte is its position in the stream.                                   *)
(***************************************************************************)
EXTENDS Integers, Sequences

CONSTANTS WordBytes,     \* bytes of a word: 64
          NoByte         \* what is in a lane whose keep bit is 0

VARIABLES
    requests,            \* what was asked for: [from, length, memory]
    out                  \* the words that came, by segment

Lanes == 0 .. WordBytes - 1

(* The first bytes from a position on fill the first lanes of a word.      *)
Bytes(from, count) == [l \in Lanes |-> IF l < count THEN from + l ELSE NoByte]

WordCount(length) == (length + WordBytes - 1) \div WordBytes

SegmentWords(from, length) ==
    [k \in 1 .. WordCount(length) |->
        [data |-> Bytes(from + (k - 1) * WordBytes, length - (k - 1) * WordBytes),
         last |-> k = WordCount(length)]]

(* What comes out is what was written at these positions of the stream, in *)
(* the order of the requests, words without gaps and the last one of each  *)
(* segment marked, however writer, gate, bypass and reader split, shift    *)
(* and merge it.                                                           *)
ReadsWhatWasWritten ==
    /\ Len(out) <= Len(requests)
    /\ \A k \in 1 .. Len(out) :
          LET asked == SegmentWords(requests[k].from, requests[k].length) IN
          /\ Len(out[k]) <= Len(asked)
          /\ k < Len(out) => Len(out[k]) = Len(asked)
          /\ \A i \in 1 .. Len(out[k]) : out[k][i] = asked[i]
=============================================================================
