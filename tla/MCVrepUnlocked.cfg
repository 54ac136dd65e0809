CONSTANTS
    Threads = {"control", "navdata"}
    MaxRounds <- MCRounds
    MaxIdle = 1
    Faulty = FALSE
    None = None
SPECIFICATION Spec
INVARIANTS
    RepliesOrTimeout
