CONSTANTS
    Lines <- MCLines
    MaxLines = 3
    Strays <- MCStrays
    MaxStrays = 2
    MaxInput = 5
    None = None
SPECIFICATION Spec
INVARIANTS
    PlainFileIsRead
    Wiring
PROPERTIES
    ImplementsMap
CHECK_DEADLOCK FALSE
