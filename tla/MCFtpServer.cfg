CONSTANTS
    Sessions = {s1, s2}
    Lines <- MCLines
    MaxLines <- MCMaxLines
    Existing = {"config"}
    Disciplined = FALSE
    None = None
SPECIFICATION Spec
INVARIANTS
    TypeOK
    NoEarlyOpen
    OnePassive
CHECK_DEADLOCK FALSE
