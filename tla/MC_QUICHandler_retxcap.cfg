CONSTANTS
    RTO <- MC_RTO
    IdleTimeout <- MC_IdleTimeout
    MaxSends = 1
    RetxCap = 10
    Accel = "hw"
    PeerDCID = PeerDCID
    OurCID = OurCID
    NoCid = NoCid
SPECIFICATION Spec
INVARIANT RetransmitsCapped
