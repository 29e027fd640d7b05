\* A ring of three buffers, and time for three steps between two frames.
CONSTANTS
    Cameras = {"c1", "c2"}
    Buses <- MCBuses
    Modes <- MCModes
    Names <- MCNames
    Rates <- MCRates
    FrameRates = {20}
    Ring = 3
    MinGap = 3
    Wrap = 7
SPECIFICATION Spec
INVARIANTS
    CaptureAsConfigured
    ImageIntact
PROPERTIES
    DroppedFramesExact
    ReadReturns
