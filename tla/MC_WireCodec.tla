---------------------------- MODULE MC_WireCodec ----------------------------
EXTENDS WireCodec

\* Connection IDs of 4 and 8 bytes (parsePacket assumes 8 for short headers).
MC_Cids == {<<17, 18, 19, 20>>, <<33, 34, 35, 36, 37, 38, 39, 40>>}
\* Adds a 43-byte DCID, which parsePacket accepts from a client's Initial:
\* an Initial header then needs 65 bytes, a Handshake header exactly 64.
MC_LongCids == MC_Cids \cup {[i \in 1 .. 43 |-> 43]}
MC_OurCid == <<1, 2, 3, 4, 5, 6, 7, 8>>
\* A packet number below 256 and one that uses three bytes.
MC_Pns == {5, 65793}
\* An empty payload and a HANDSHAKE_DONE frame.
MC_Payloads == {<< >>, <<30>>}
\* A zero, an 8-byte CID length, one above 0x3F, and 0xFF.
MC_EditBytes == {0, 8, 64, 255}
=============================================================================
