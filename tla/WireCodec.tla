------------------------------ MODULE WireCodec ------------------------------
(***************************************************************************)
(* The packet wire format as the proxy writes and reads it.                *)
(*                                                                         *)
(* Writers: the software path of QUICHandler::sendPacket, and the framing  *)
(* of FPGAInterface::simulatePacketOperation (PACKET_FRAMING), which       *)
(* sendPacket and handleInitialPacket use when acceleration is on.         *)
(* Reader: QUICHandler::parsePacket, one action per field it reads, each   *)
(* guarded by the bounds check the code makes before the read.             *)
(*                                                                         *)
(* A behaviour frames one packet, lets the network truncate it or          *)
(* overwrite one byte (any datagram can arrive), then parses it.           *)
(***************************************************************************)
EXTENDS Naturals, Sequences, SequencesExt

CONSTANTS
    Cids,       \* connection IDs (byte sequences) the peer may have chosen
    OurCid,     \* m_srcConnID: 8 random bytes; m_connectionID is their value
    Pns,        \* packet numbers to frame
    Payloads,   \* frame payloads to carry
    EditBytes,  \* byte values an edited datagram may carry
    MaxEdits    \* bound: edits of the datagram in transit

Version1 == 1           \* QUIC_VERSION_1
ShortDcidLen == 8       \* DCID_LEN assumed by parsePacket for short headers
MaxVarint1 == 63        \* 0x3F: the largest single-byte length accepted

\* The packet types sendPacket can write (ZERO_RTT is never requested).
SendTypes == {"initial", "handshake", "one_rtt"}
Paths == {"software", "accelerator"}

VARIABLES
    sent,    \* the packet handed to the writer
    wire,    \* the datagram bytes
    edits,   \* edits made in transit
    pc,      \* parser position: "frame", "wire", a field name, "accepted", "rejected"
    off,     \* parsePacket's offset (0-based)
    hd,      \* the header and payload parsed so far
    overread \* ghost: some read went past the datagram

vars == <<sent, wire, edits, pc, off, hd, overread>>

-----------------------------------------------------------------------------
(* Byte encodings                                                          *)

BE(n, k) == [i \in 1 .. k |-> (n \div 256 ^ (k - i)) % 256]
LE(n, k) == [i \in 1 .. k |-> (n \div 256 ^ (i - 1)) % 256]

\* Mutant of Serialize: the packet number written little-endian.
SerializeLE(p) ==
    IF p.type = "one_rtt"
    THEN <<64>> \o p.dcid \o LE(p.pn, 4) \o p.payload
    ELSE LET first == CASE p.type = "initial" -> 195 [] OTHER -> 227
         IN  <<first>> \o BE(Version1, 4) \o <<Len(p.dcid)>> \o p.dcid
               \o <<Len(OurCid)>> \o OurCid
               \o (IF p.type = "initial" THEN <<0>> ELSE << >>)
               \o BE(Len(p.payload) + 4, 2) \o LE(p.pn, 4) \o p.payload

\* sendPacket, software path: first byte 0xC3 (Initial), 0xE3 (Handshake)
\* or 0x40 (1-RTT).  Long header: version, DCID length and m_destConnID,
\* SCID length and m_srcConnID, a zero token length for Initial, a 2-byte
\* big-endian length of packet number plus payload, the 4-byte packet
\* number, the payload.  Short header: m_destConnID, packet number, payload.
Serialize(p) ==
    IF p.type = "one_rtt"
    THEN <<64>> \o p.dcid \o BE(p.pn, 4) \o p.payload
    ELSE LET first == CASE p.type = "initial" -> 195 [] OTHER -> 227
         IN  <<first>> \o BE(Version1, 4) \o <<Len(p.dcid)>> \o p.dcid
               \o <<Len(OurCid)>> \o OurCid
               \o (IF p.type = "initial" THEN <<0>> ELSE << >>)
               \o BE(Len(p.payload) + 4, 2) \o BE(p.pn, 4) \o p.payload

\* simulatePacketOperation(PACKET_FRAMING): 0xC0, m_connectionID as 8
\* little-endian bytes (m_connectionID is OurCid read big-endian, so this
\* is OurCid reversed), the
\* packet number little-endian, a STREAM frame header 0x08 0x00 and the
\* payload length as 2 little-endian bytes, then the payload.  The packet
\* type asked for by sendPacket is not passed to the accelerator.
SimulatedFraming(p) ==
    <<192>> \o Reverse(OurCid) \o LE(p.pn, 4) \o <<8, 0>>
        \o LE(Len(p.payload), 2) \o p.payload

\* The buffer sendPacket allocates: "payload.size() + 64" for the headers.
SendBufferSize(p) == Len(p.payload) + 64

Frame(p) == IF p.path = "software" THEN Serialize(p) ELSE SimulatedFraming(p)

-----------------------------------------------------------------------------
(* Reading the datagram                                                    *)

\* data[i] for the 0-based index i.  A read past the end is undefined; it
\* yields 0 here and is recorded in the ghost overread.
Byte(i) == IF i < Len(wire) THEN wire[i + 1] ELSE 0
Bytes(o, n) == [i \in 1 .. n |-> Byte(o + i - 1)]
Reads(o, n) == overread' = (overread \/ o + n > Len(wire))

Reject == pc' = "rejected" /\ UNCHANGED <<off, hd, overread>>

\* The long-header type from bits 5-4 of the first byte.
LongType(b) == CASE (b \div 16) % 4 = 0 -> "initial"
                 [] (b \div 16) % 4 = 1 -> "zerortt"
                 [] (b \div 16) % 4 = 2 -> "handshake"
                 [] (b \div 16) % 4 = 3 -> "retry"

\* Version and packet number are kept as their 4 bytes.
NoHeader == [type |-> "none", version |-> << >>, dcid |-> << >>, scid |-> << >>,
             token |-> << >>, pn |-> << >>, payload |-> << >>]

-----------------------------------------------------------------------------
(* Actions                                                                 *)

Init ==
    /\ sent \in [type : SendTypes, path : Paths, dcid : Cids, pn : Pns, payload : Payloads]
    /\ wire = << >>
    /\ edits = 0
    /\ pc = "frame"
    /\ off = 0
    /\ hd = NoHeader
    /\ overread = FALSE

\* The writer frames the packet and sends it.
Send ==
    /\ pc = "frame"
    /\ wire' = Frame(sent)
    /\ pc' = "wire"
    /\ UNCHANGED <<sent, edits, off, hd, overread>>

\* In transit the datagram is cut short, or one byte is overwritten.
Truncate(n) ==
    /\ pc = "wire" /\ edits < MaxEdits /\ n < Len(wire)
    /\ wire' = SubSeq(wire, 1, n)
    /\ edits' = edits + 1
    /\ UNCHANGED <<sent, pc, off, hd, overread>>

Overwrite(i, v) ==
    /\ pc = "wire" /\ edits < MaxEdits /\ wire[i] # v
    /\ wire' = [wire EXCEPT ![i] = v]
    /\ edits' = edits + 1
    /\ UNCHANGED <<sent, pc, off, hd, overread>>

\* "if (length < 4) return false"; the first byte selects the form.
ReadFirstByte ==
    /\ pc = "wire"
    /\ UNCHANGED <<sent, wire, edits>>
    /\ IF Len(wire) < 4 THEN Reject
       ELSE /\ off' = 1
            /\ overread' = overread
            /\ IF Byte(0) >= 128
               THEN hd' = [hd EXCEPT !.type = LongType(Byte(0))] /\ pc' = "version"
               ELSE hd' = [hd EXCEPT !.type = "one_rtt"] /\ pc' = "shortdcid"

\* Version (4 bytes); version 0 makes the packet Version Negotiation.
ReadVersion ==
    /\ pc = "version"
    /\ UNCHANGED <<sent, wire, edits>>
    /\ IF off + 4 > Len(wire) THEN Reject
       ELSE LET v == Bytes(off, 4)
            IN  /\ hd' = [hd EXCEPT !.version = v,
                                    !.type = IF v = BE(0, 4) THEN "vn" ELSE @]
                /\ off' = off + 4
                /\ Reads(off, 4)
                /\ pc' = "dcid"

\* After the SCID an Initial (and only an Initial) has a token.
AfterCids == IF hd.type = "initial" THEN "token" ELSE "length"

\* Mutant of ReadCid: the connection ID is copied without checking that
\* its length fits in the datagram.
ReadCidUnchecked(f) ==
    /\ pc = f
    /\ UNCHANGED <<sent, wire, edits>>
    /\ IF off + 1 > Len(wire) THEN Reject
       ELSE LET n == Byte(off)
            IN  /\ hd' = [hd EXCEPT ![f] = Bytes(off + 1, n)]
                /\ off' = off + 1 + n
                /\ Reads(off, 1 + n)
                /\ pc' = IF f = "dcid" THEN "scid" ELSE AfterCids

\* A connection ID: its 1-byte length, checked, then the ID, checked.
ReadCid(f) ==
    /\ pc = f
    /\ UNCHANGED <<sent, wire, edits>>
    /\ IF off + 1 > Len(wire) THEN Reject
       ELSE LET n == Byte(off)
            IN  IF off + 1 + n > Len(wire) THEN Reject
                ELSE /\ hd' = [hd EXCEPT ![f] = Bytes(off + 1, n)]
                     /\ off' = off + 1 + n
                     /\ Reads(off, 1 + n)
                     /\ pc' = IF f = "dcid" THEN "scid" ELSE AfterCids

\* Initial: the token length (one byte, at most 0x3F) and the token.
ReadToken ==
    /\ pc = "token"
    /\ UNCHANGED <<sent, wire, edits>>
    /\ IF off + 1 > Len(wire) \/ Byte(off) > MaxVarint1 THEN Reject
       ELSE LET n == Byte(off)
            IN  IF off + 1 + n > Len(wire) THEN Reject
                ELSE /\ hd' = [hd EXCEPT !.token = Bytes(off + 1, n)]
                     /\ off' = off + 1 + n
                     /\ Reads(off, 1 + n)
                     /\ pc' = "length"

\* The payload length: one byte, at most 0x3F, otherwise not used.
ReadLength ==
    /\ pc = "length"
    /\ UNCHANGED <<sent, wire, edits, hd>>
    /\ IF off + 1 > Len(wire) \/ Byte(off) > MaxVarint1 THEN Reject
       ELSE /\ off' = off + 1
            /\ Reads(off, 1)
            /\ pc' = "pn"

\* Short header: a DCID of the fixed length DCID_LEN.
ReadShortDcid ==
    /\ pc = "shortdcid"
    /\ UNCHANGED <<sent, wire, edits>>
    /\ IF off + ShortDcidLen > Len(wire) THEN Reject
       ELSE /\ hd' = [hd EXCEPT !.dcid = Bytes(off, ShortDcidLen)]
            /\ off' = off + ShortDcidLen
            /\ Reads(off, ShortDcidLen)
            /\ pc' = "pn"

\* The packet number, always 4 bytes big-endian.
ReadPacketNumber ==
    /\ pc = "pn"
    /\ UNCHANGED <<sent, wire, edits>>
    /\ IF off + 4 > Len(wire) THEN Reject
       ELSE /\ hd' = [hd EXCEPT !.pn = Bytes(off, 4)]
            /\ off' = off + 4
            /\ Reads(off, 4)
            /\ pc' = "payload"

\* The rest of the datagram is the payload.
ReadPayload ==
    /\ pc = "payload"
    /\ hd' = [hd EXCEPT !.payload = IF off < Len(wire) THEN Bytes(off, Len(wire) - off) ELSE << >>]
    /\ pc' = "accepted"
    /\ UNCHANGED <<sent, wire, edits, off, overread>>

Next ==
    \/ Send
    \/ \E n \in 0 .. Len(wire) : Truncate(n)
    \/ \E i \in DOMAIN wire, v \in EditBytes : Overwrite(i, v)
    \/ ReadFirstByte \/ ReadVersion \/ ReadToken \/ ReadLength
    \/ \E f \in {"dcid", "scid"} : ReadCid(f)
    \/ ReadShortDcid \/ ReadPacketNumber \/ ReadPayload

Spec == Init /\ [][Next]_vars

-----------------------------------------------------------------------------
(* Properties                                                              *)

\* parsePacket never reads past the end of the datagram, whatever arrives:
\* every length field is checked against the bytes left before the bytes
\* it announces are copied, in the order the fields are read.
NoOverread == ~overread

\* The fields of a packet as the proxy meant to send it.
SameFields(h, p) ==
    /\ h.type = p.type
    /\ h.dcid = p.dcid
    /\ h.pn = BE(p.pn, 4)
    /\ h.payload = p.payload
    /\ p.type # "one_rtt" => h.scid = OurCid

\* A 1-RTT packet written by the software path to an 8-byte DCID (the
\* length parsePacket assumes) parses back to the same DCID, packet number
\* and payload.
OneRttRoundTrip ==
    (/\ pc \in {"accepted", "rejected"} /\ edits = 0
     /\ sent.path = "software" /\ sent.type = "one_rtt"
     /\ Len(sent.dcid) = ShortDcidLen)
        => pc = "accepted" /\ SameFields(hd, sent)

\* The software path of sendPacket writes the whole header and payload
\* inside the buffer it allocated.  The header grows with m_destConnID,
\* which is whatever DCID the client's first packet carried (up to 255
\* bytes), while the buffer leaves a fixed 64 bytes for it.
SendFitsBuffer ==
    (pc # "frame" /\ sent.path = "software")
        => Len(Serialize(sent)) <= SendBufferSize(sent)

\* Every packet the proxy sends parses back to what it sent (spec 5, codec
\* round trip), whichever path framed it.  The long header's length is
\* written in two bytes but read as one, and the accelerator's framing
\* starts with a long-header byte and writes the number little-endian.
RoundTrip ==
    (pc \in {"accepted", "rejected"} /\ edits = 0)
        => pc = "accepted" /\ SameFields(hd, sent)
=============================================================================
