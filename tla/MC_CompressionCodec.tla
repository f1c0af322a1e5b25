------------------------- MODULE MC_CompressionCodec -------------------------
(* Model-checking instance of CompressionCodec.                            *)
EXTENDS CompressionCodec

\* Two ordinary byte values and the marker; payloads up to 6 bytes hold a
\* run of 4, a run next to literals, and a literal 0xFF with two bytes
\* after it.  RunCap is lowered to 5 so that a capped run is split.
MC_Bytes == {0, 7, 255}
MC_MaxLen == 6
MC_RunCap == 5
=============================================================================
