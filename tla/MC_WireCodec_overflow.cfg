\* One datagram is framed, possibly edited in transit, and parsed, with a
\* 43-byte DCID among those the handler may hold; parsing
\* ends in "accepted" or "rejected" and the behaviour stops there.
CONSTANTS
    Cids <- MC_LongCids
    OurCid <- MC_OurCid
    Pns <- MC_Pns
    Payloads <- MC_Payloads
    EditBytes <- MC_EditBytes
    MaxEdits = 1
SPECIFICATION Spec
CHECK_DEADLOCK FALSE
INVARIANT SendFitsBuffer
