\* A client delivers a ray and disconnects while syncData runs.
CONSTANTS
    MaxTimeDiff = 2
    MatchDelay = 2
    MatchExpire = 4
    MinMatches = 2
    Clients = {1}
    Leavers = {1}
    Markers = {0}
    MaxRays = 2
    MaxTime = 1
    MaxLag = 1
    MinFrameGap = 2
    MaxStall = 1
SPECIFICATION SafeSpec
INVARIANTS
    NoRayDropped
