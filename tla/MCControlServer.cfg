CONSTANTS
    BufSize = 11
    SeqModulus = 3
    MaxSent = 2
    MaxReceived = 3
    Shapes <- MCShapes
    Clipped = TRUE
SPECIFICATION Spec
INVARIANTS
    TypeOK
    NewestWins
    ParsesCommands
    WholeDatagramsAreSafe
PROPERTIES
    ParseEnds
CHECK_DEADLOCK FALSE
