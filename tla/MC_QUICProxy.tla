---------------------------- MODULE MC_QUICProxy ----------------------------
(* Model-checking instance of QUICProxy.                                    *)
EXTENDS QUICProxy

CONSTANTS a1, a2

\* Two clients, so one can be reaped while the other stays active.
MC_Addrs == {a1, a2}
=============================================================================
