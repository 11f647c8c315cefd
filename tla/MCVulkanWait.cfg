SPECIFICATION Spec
CONSTANTS
    ImageCounts = {2}
    MaxFrames = 2  MaxGeneration = 1  MaxAcquires = 2  MaxOpens = 1
INVARIANT FrameReady
CHECK_DEADLOCK FALSE
