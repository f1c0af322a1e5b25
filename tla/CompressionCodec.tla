--------------------------- MODULE CompressionCodec ---------------------------
(***************************************************************************)
(* The software compression codec: FPGAInterface::                         *)
(* simulateCompressionOperation (fpga_interface.cpp), the "QCMP" format    *)
(* used by executeCompressionOperation in simulation mode.                 *)
(*                                                                         *)
(* Compress: magic "QCMP", the input length as 4 little-endian bytes, then *)
(* every run of at least 4 equal bytes (at most 255) as 0xFF, count,       *)
(* value, and every shorter run copied literally.  Decompress: check the   *)
(* length and magic, then read 0xFF with two more bytes after it as a run, *)
(* anything else as a literal.  The size field is not used.               *)
(*                                                                         *)
(* The state machine runs the codec the way a user of the dispatcher       *)
(* does: compress a payload, then decompress the result.                   *)
(***************************************************************************)
EXTENDS Naturals, Sequences, SequencesExt

CONSTANTS
    Bytes,    \* byte values the payloads are drawn from (0xFF among them)
    MaxLen,   \* bound: payload length
    RunCap    \* the longest run one triple encodes (255)

ASSUME Bytes \subseteq 0 .. 255 /\ MaxLen \in Nat /\ RunCap \in 1 .. 255

VARIABLES
    input,   \* the payload handed to the COMPRESSION request
    stage,   \* "raw", "compressed" or "decompressed"
    data     \* the last result: [ok |-> BOOLEAN, bytes |-> <<...>>]

vars == <<input, stage, data>>

Marker == 255
Magic == <<81, 67, 77, 80>>   \* "QCMP"

-----------------------------------------------------------------------------
(* The codec                                                               *)

\* A 32-bit value as 4 little-endian bytes.
LE32(n) == [i \in 1 .. 4 |-> (n \div (256 ^ (i - 1))) % 256]

\* The number of bytes equal to s[1] at the head of s, at most RunCap (the
\* "count" loop).
RunLength(s) ==
    Max({k \in 1 .. Min({Len(s), RunCap}) : \A i \in 1 .. k : s[i] = s[1]})

\* v repeated n times.
Repeat(v, n) == [i \in 1 .. n |-> v]

\* The body of the compressed form.
RECURSIVE Encode(_)
Encode(s) ==
    IF s = << >> THEN << >>
    ELSE LET c == RunLength(s)
         IN  (IF c >= 4 THEN <<Marker, c, s[1]>> ELSE Repeat(s[1], c))
                 \o Encode(SubSeq(s, c + 1, Len(s)))

Compress(s) == Magic \o LE32(Len(s)) \o Encode(s)

\* Mutant of Decode: a run's count and value bytes are read swapped.
RECURSIVE DecodeSwapped(_)
DecodeSwapped(t) ==
    IF t = << >> THEN << >>
    ELSE IF t[1] = Marker /\ Len(t) >= 3
         THEN Repeat(t[2], t[3]) \o DecodeSwapped(SubSeq(t, 4, Len(t)))
         ELSE <<t[1]>> \o DecodeSwapped(Tail(t))

\* The decoding loop over the body: a marker with at least two bytes after
\* it ("i + 2 < size") is a run, anything else a literal.
RECURSIVE Decode(_)
Decode(t) ==
    IF t = << >> THEN << >>
    ELSE IF t[1] = Marker /\ Len(t) >= 3
         THEN Repeat(t[3], t[2]) \o Decode(SubSeq(t, 4, Len(t)))
         ELSE <<t[1]>> \o Decode(Tail(t))

\* Decompression fails on a short input or a wrong magic.
Decompress(c) ==
    IF Len(c) < 8 \/ SubSeq(c, 1, 4) # Magic
    THEN [ok |-> FALSE, bytes |-> << >>]
    ELSE [ok |-> TRUE, bytes |-> Decode(SubSeq(c, 9, Len(c)))]

-----------------------------------------------------------------------------
(* Requests                                                                *)

\* Non-empty payloads: executeCompressionOperation rejects empty input.
Payloads == SeqOf(Bytes, MaxLen) \ {<< >>}

Init ==
    /\ input \in Payloads
    /\ stage = "raw"
    /\ data = [ok |-> TRUE, bytes |-> input]

CompressRequest ==
    /\ stage = "raw"
    /\ stage' = "compressed"
    /\ data' = [ok |-> TRUE, bytes |-> Compress(data.bytes)]
    /\ UNCHANGED input

DecompressRequest ==
    /\ stage = "compressed"
    /\ stage' = "decompressed"
    /\ data' = Decompress(data.bytes)
    /\ UNCHANGED input

Next == CompressRequest \/ DecompressRequest

Spec == Init /\ [][Next]_vars

-----------------------------------------------------------------------------
(* Properties                                                              *)

\* Decompressing a compressed payload gives the payload back (spec 8.6).
\* Literal bytes are copied as they are, so a literal 0xFF followed by two
\* more bytes is read back as a run.
RoundTrip ==
    stage = "decompressed" => data = [ok |-> TRUE, bytes |-> input]

\* The same, for payloads without the byte 0xFF: runs, literal runs of up
\* to three bytes and the 255 cap must all decode to what was encoded.
RoundTripWithoutMarker ==
    (stage = "decompressed" /\ \A i \in 1 .. Len(input) : input[i] # Marker)
        => data = [ok |-> TRUE, bytes |-> input]
=============================================================================
