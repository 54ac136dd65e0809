CONSTANTS
    Threads = {"video"}
    MaxRounds <- MCRounds
    MaxIdle = 1
    Faulty = FALSE
    None = None
SPECIFICATION Spec
INVARIANTS
    FrameHasImage
