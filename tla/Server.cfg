\* Vision clients come and go, one of them unknown; data clients come and go
\* while results are published.
CONSTANTS
    v1 = v1
    v2 = v2
    v3 = v3
    d1 = d1
    d2 = d2
    VisionPeers = {v1, v2, v3}
    Configured = {v1, v2}
    DataPeers = {d1, d2}
    MaxFrames = 2
SPECIFICATION MCSpec
INVARIANTS
    RegistryExact
    AnnouncedIsHeld
    FramesAreConsecutive
    DataMutexHeld
PROPERTIES
    RoundEnds
    AcceptReturns
