-------------------------- MODULE MC_FPGAInterface --------------------------
(* Model-checking instance of FPGAInterface.                               *)
EXTENDS FPGAInterface

\* The real pool size; three tags tell the current request from the two
\* before it.
MC_MaxDmaBuffers == 64
MC_Timeout == 2
MC_NumTags == 3
=============================================================================
