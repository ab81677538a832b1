SPECIFICATION Spec
CONSTANTS
    o = o
    i1 = i1
    i2 = i2
    order = o
    Orders = {o}
    Items <- TwoItems
    OrderOf <- MCOrderOf
    ItemOrder <- MCItemOrder
    MaxCalls = 1
INVARIANTS
    
    ShippedNoteIsTrue
PROPERTIES
    ScreensMoveOn
CHECK_DEADLOCK FALSE
