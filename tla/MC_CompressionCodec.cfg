\* Each behaviour is one compress/decompress exchange and then stops.
CONSTANTS
    Bytes <- MC_Bytes
    MaxLen <- MC_MaxLen
    RunCap <- MC_RunCap
SPECIFICATION Spec
CHECK_DEADLOCK FALSE
INVARIANT RoundTripWithoutMarker
