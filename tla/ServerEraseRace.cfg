\* A client thread that ends before its client is entered.
CONSTANTS
    v1 = v1
    v2 = v2
    VisionPeers = {v1, v2}
    Configured = {v1, v2}
    DataPeers = {}
    MaxFrames = 0
SPECIFICATION SafeSpec
SYMMETRY Symmetry
INVARIANTS
    RemovedIsGone
