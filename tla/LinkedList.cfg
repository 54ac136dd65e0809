CONSTANTS
    Adders = {a1, a2}
    Poppers = {p1, p2}
    Nodes = {n1, n2, n3}
    Null = Null
    Items = {x, y}
    NoItem = NoItem
SPECIFICATION Spec
INVARIANTS
    TypeOK
    WellFormed
    PoppedIsPrivate
    NoLeak
PROPERTIES
    MutexReleased
    ImplementsFifo
