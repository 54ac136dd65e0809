CONSTANTS
    Adders = {a1}
    Poppers = {p1, p2}
    Nodes = {n1, n2, n3}
    Null = Null
    Items = {x, y}
    NoItem = NoItem
SPECIFICATION Spec
PROPERTIES
    ImplementsSizedFifo
