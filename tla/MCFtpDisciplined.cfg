CONSTANTS
    Sessions = {s1, s2}
    Lines <- PoliteClients
    MaxLines <- PoliteMaxLines
    Existing = {"config"}
    Disciplined = TRUE
    None = None
SPECIFICATION Spec
INVARIANTS
    StaysUp
    NoUseAfterFree
    SuccessMeansSent
    RepliesInOrder
    AnswersKeepUp
PROPERTIES
    TransferEnds
CHECK_DEADLOCK FALSE
