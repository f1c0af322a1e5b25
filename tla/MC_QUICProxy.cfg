CONSTANTS
    a1 = a1
    a2 = a2
    Addrs <- MC_Addrs
    IdleTimeout = 2
    CleanupPeriod = 2
    MaxStarts = 2
    MaxAccelSets = 2
    Sock = Sock
    NoSock = NoSock
SPECIFICATION FairSpec
INVARIANT TypeOK
INVARIANT StoppedIsQuiescent
INVARIANT HandlersFollowAcceleration
INVARIANT ClientKeysUnique
INVARIANT ActiveCountCoversTable
PROPERTY ImplementsLifecycle
PROPERTY IdleConnectionsReaped
