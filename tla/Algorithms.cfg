\* Documents of up to six tokens, a grid of 3 by 3 points; the other bounds are in MCAlgorithms.
CONSTANTS
    Side = 3
    MaxTokens = 6
SPECIFICATION MCSpec
INVARIANTS
    RaysFollowLeds
    TagsAreFound
    SegmentsAreClusters
    GeometryIsExact
    JsonIsKept
\* Every algorithm comes to its end.
CHECK_DEADLOCK FALSE
