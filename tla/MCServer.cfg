CONSTANTS
    Sessions = {s1, s2}
    MaxCtrl = 4
    BufSize = 12
    SeqModulus = 4
    MaxSent = 2
    MaxReceived = 2
    Shapes <- MCShapes
    Clipped = FALSE
    None = None
SPECIFICATION ServerSpec
INVARIANTS
    TypeOK
    TokenConservation
    InRequestOrder
    ExactlyOnce
    AskedIsHandled
PROPERTIES
    AskedIsWritten
CHECK_DEADLOCK FALSE
