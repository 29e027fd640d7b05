\* A data client whose greeting could not be sent.
CONSTANTS
    d1 = d1
    VisionPeers = {}
    Configured = {}
    DataPeers = {d1}
    MaxFrames = 1
SPECIFICATION Spec
PROPERTIES
    RoundPassesUninitialized
