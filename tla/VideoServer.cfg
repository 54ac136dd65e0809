CONSTANTS
    PictureSize = 3
    Sizes = {0, 2, 3, 4}
    ReadSizes = {1, 2, 4}
    MaxFrames = 4
SPECIFICATION Spec
INVARIANTS
    InsideFrame
    StreamIsFrames
PROPERTIES
    EveryFrameIsSent
CHECK_DEADLOCK FALSE
