\* Two cameras with two rays, of one frame or of two; or three cameras with one.
CONSTANTS
    MaxTimeDiff = 2
    MatchDelay = 2
    MatchExpire = 4
    MinMatches = 2
    Clients = {1, 2, 3}
    Leavers = {}
    Markers = {0}
    MaxRays = 2
    MaxTime = 4
    MaxLag = 1
    MinFrameGap = 2
    MaxStall = 1
    Third = 3
    LastFrame = 2
SPECIFICATION FewFramesSpec
INVARIANTS
    ResultsConsistent
    RaysAreMatched
    SearchIsExact
PROPERTIES
    CompleteMatchesAreReported
