\* Images of 5 by 5 pixels; edges to pixel 0, the corner, are kept.
CONSTANTS
    Width = 5
    Height = 5
    MinEdgeScore = 30
    CosNum = 9
    CosDen = 10
    MinSegmentSize = 4
    Levels <- MCLevels
    Normals <- MCNormals
    Places = {0, 1, 2, 3, 4}
    ChunkSizes = {5}
    CornerToo = TRUE
SPECIFICATION Spec
INVARIANT MergedStaysTogether
CHECK_DEADLOCK FALSE
