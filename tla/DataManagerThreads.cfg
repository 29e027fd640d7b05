\* Three clients that come and go; the clock stands still meanwhile.
CONSTANTS
    MaxTimeDiff = 2
    MatchDelay = 2
    MatchExpire = 4
    MinMatches = 2
    Clients = {1, 2, 3}
    Leavers = {1, 2, 3}
    Markers = {0}
    MaxRays = 1
    MaxTime = 1
    MaxLag = 1
    MinFrameGap = 2
    MaxStall = 1
SPECIFICATION MCSpec
INVARIANTS
    ThreadInv
    EachRayOnce
PROPERTIES
    RaysAreCollected
    AddRayReturns
    SourcesAreReclaimed
