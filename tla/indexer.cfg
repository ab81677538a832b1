SPECIFICATION Spec
CONSTANTS
    Orders <- OneOrder
    Items <- TwoItems
    OrderOf <- OneOrderOf
    REORG_DEPTH = 2
    CHUNK = 2
    MaxLag = 2
    MaxBlock = 4
    MaxFaults = 1
CHECK_DEADLOCK FALSE
INVARIANTS
    NoSilentLoss
    MirrorAgrees
    DisputeRowKept
PROPERTIES
    MirrorCatchesUp
