\* One datagram is framed, possibly edited in transit, and parsed; parsing
\* ends in "accepted" or "rejected" and the behaviour stops there.
CONSTANTS
    Cids <- MC_Cids
    OurCid <- MC_OurCid
    Pns <- MC_Pns
    Payloads <- MC_Payloads
    EditBytes <- MC_EditBytes
    MaxEdits = 1
SPECIFICATION Spec
CHECK_DEADLOCK FALSE
INVARIANT RoundTrip
