--------------------------- MODULE MC_QUICHandler ---------------------------
(* Model-checking instance of QUICHandler: constants for TLC.              *)
EXTENDS QUICHandler

\* Two ticks make a packet expire; three packet numbers are enough for a
\* lost packet, a later delivered one, and an ACK packet of the proxy.
MC_RTO == 1
MC_IdleTimeout == 2
MC_MaxSends == 3
=============================================================================
