SPECIFICATION Spec
CONSTANTS
    Accounts <- TwoAccounts
    GroupOrder <- TwoGroups
    Stock0 <- TwoOfTheFirst
    Balance0 = 4
    MaxTaps = 2
    MaxUnits = 2
    MaxVisits = 2
    MaxFaults = 1
INVARIANTS
    PageIsHonest
    LastScreenIsTrue
    ChargedOncePerUnit
    StockOnlyForPaid
PROPERTIES
    RunsEnd
CHECK_DEADLOCK FALSE
