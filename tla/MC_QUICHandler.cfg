CONSTANTS
    RTO <- MC_RTO
    IdleTimeout <- MC_IdleTimeout
    MaxSends <- MC_MaxSends
    RetxCap = 1
    Accel = "hw"
    PeerDCID = PeerDCID
    OurCID = OurCID
    NoCid = NoCid
SPECIFICATION Spec
INVARIANT TypeOK
 
