SPECIFICATION KeepersSpec
CONSTANTS
    Orders <- OneOrder
    Items <- TwoItems
    OrderOf <- OneOrderOf
    DeadlineRank <- OldestFirst
    FundingRank <- OnlyOrder
    Limit = 1
    RBF_MAX_ATTEMPTS = 1
    MaxPool = 2
    MaxFaultKinds = 1
INVARIANTS
    NoncesInStep
PROPERTIES
    SilenceSettles
