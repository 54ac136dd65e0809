CONSTANTS
    Threads = {"control", "video"}
    MaxRounds <- MCRounds
    MaxIdle = 1
    Faulty = TRUE
    None = None
SPECIFICATION Spec
INVARIANTS
    TypeOK
    RepliesOrTimeout
    OwnBuffer
PROPERTIES
    ReadBeforeNext
    RoundsEnd
