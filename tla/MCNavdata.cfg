CONSTANTS
    Threads = {"control", "navdata"}
    MaxRounds <- MCRounds
    MaxIdle = 0
    Faulty = FALSE
    SeqModulus = 2
    Asked <- MCAsked
    MaxAsked = 1
    MaxTimeouts = 1
    None = None
SPECIFICATION NavSpec
INVARIANTS
    FreshUnlessDisturbed
    PacketsInOrder
PROPERTIES
    PacketsFlow
CHECK_DEADLOCK FALSE
