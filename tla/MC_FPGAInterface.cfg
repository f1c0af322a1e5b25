\* The process ends after a null dereference, a failed initialize() or
\* shutdown(): those states have no successor.
CONSTANTS
    MaxDmaBuffers <- MC_MaxDmaBuffers
    Timeout <- MC_Timeout
    NumTags <- MC_NumTags
    SimulationMode = FALSE
    AllocIoctlMayFail = TRUE
SPECIFICATION FairSpec
CHECK_DEADLOCK FALSE
INVARIANT TypeOK
INVARIANT NoResultFromEarlierProcess
PROPERTY RequestsReturn
